--------------------------- MODULE IdentityProofs ---------------------------
(***************************************************************************)
(* Proofs about Identity, for any persons and nicknames, any limits and    *)
(* any number of steps.                                                    *)
(*                                                                         *)
(* A transfer waits for somebody who is there and has changed nicknames.   *)
(* Only a change of nickname adds the end of a transfer, the nickname it   *)
(* leads to, whose trail then has two; everything else that happens to a   *)
(* game keeps a part of the ends there were (Fewer).  The holder of an end *)
(* can lose it in three ways: by a change or a departure, which take the   *)
(* transfer away or are noted as missed, and by taking part, which settles *)
(* it first.  That settling one transfer is enough needs that no two lead  *)
(* to one nickname, which the model classes demand.                        *)
(*                                                                         *)
(* The game is sound.  What the model classes accept is not inductive: a   *)
(* merge or a renaming is accepted because ids are below the next one,     *)
(* because every expiration of a window is a time and in order, because    *)
(* the profiles are of their day.  Sound adds that, and each operator is   *)
(* shown to keep it; so no step is refused.  A window is past its limit    *)
(* only where two were joined, which the history merged remembers.         *)
(*                                                                         *)
(* No points are lost.  Each operator but Rekey keeps what every hunter    *)
(* counts; Rekey moves it, and a merge adds up two.                        *)
(*                                                                         *)
(* The windows remember.  A window is compared with the history at every   *)
(* time from now on: what it holds after t is what still counts at t, or as *)
(* much as a window can hold.  Time and pruning only drop what has expired, *)
(* an admission adds one to each side, and a merge adds up two windows and *)
(* keeps the latest entries, while it gives two histories one name.        *)
(***************************************************************************)
EXTENDS Identity, ProfileProofs, SequenceTheorems

Ends(g) == {x.to : x \in g.transfers}

Keyed(g) == "transfers" \in DOMAIN g /\ \A x \in g.transfers : "to" \in DOMAIN x

Unique(g) == \A x, y \in g.transfers : x.to = y.to => x = y

(* Of the transfers of g, h has no end that g has not. *)
Fewer(h, g) == Keyed(h) /\ Ends(h) \subseteq Ends(g)

Followed(n) == \E p \in Here : nick[p] = n /\ Cardinality(trail[p]) > 1
Missed(n) == n \in unseen \union dropped

NickShape ==
    /\ nick \in [Persons -> Hunters \union {Nobody}]
    /\ \A p, q \in Persons : p # q /\ nick[p] = nick[q] => nick[p] = Nobody

TrailShape ==
    /\ trail \in [Persons -> SUBSET Hunters]
    /\ \A p \in Persons : IsFiniteSet(trail[p])
    /\ \A p \in Here : nick[p] \in trail[p]

TransferShape ==
    ~failed => Unique(game) /\ \A n \in Ends(game) : Followed(n) \/ Missed(n)

IInv == Keyed(game) /\ NickShape /\ TrailShape /\ TransferShape

-----------------------------------------------------------------------------
(* What the operators on games do to the transfers. *)

(* A game has no ends but its own.                                          *)
LEMMA FewerThanItself == ASSUME NEW g, Keyed(g) PROVE Fewer(g, g)
BY DEF Fewer

(* Fewer of fewer are fewer.                                                *)
LEMMA FewerAndFewer ==
    ASSUME NEW g, NEW h, NEW i, Fewer(i, h), Fewer(h, g)
    PROVE  Fewer(i, g)
BY DEF Fewer

(* A part of the transfers has a part of the ends.                          *)
LEMMA SubsetIsFewer ==
    ASSUME NEW g, NEW h, Keyed(g), "transfers" \in DOMAIN h, h.transfers \subseteq g.transfers
    PROVE  Fewer(h, g)
BY DEF Fewer, Keyed, Ends

(* Time takes transfers away.                                               *)
LEMMA AdvanceIsFewer == ASSUME NEW g, NEW t, Keyed(g) PROVE Fewer(Advance(g, t), g)
<1>1. /\ "transfers" \in DOMAIN Advance(g, t)
      /\ Advance(g, t).transfers = {x \in g.transfers : t < x.expires}
  BY DEF Keyed, Advance
<1> QED
  BY <1>1, SubsetIsFewer

(* Operators that touch neither transfers nor their fields. *)
Same(h, g) == "transfers" \in DOMAIN h /\ h.transfers = g.transfers

(* The same transfers have the same ends.                                   *)
LEMMA SameIsFewer == ASSUME NEW g, NEW h, Keyed(g), Same(h, g) PROVE Fewer(h, g)
BY SubsetIsFewer DEF Same

(* The windows and the players are not the transfers:                       *)
LEMMA PruneIsSame == ASSUME NEW g, Keyed(g) PROVE Same(Prune(g), g)
BY DEF Same, Keyed, Prune

LEMMA ReplaceIsSame == ASSUME NEW g, NEW w, Keyed(g) PROVE Same(Replace(g, w), g)
BY DEF Same, Keyed, Replace

LEMMA RefuseIsSame == ASSUME NEW g, NEW w, Keyed(g) PROVE Same(Refuse(g, w), g)
<1>1. CASE Noticed(g, w)
  BY <1>1, ReplaceIsSame DEF Refuse
<1>2. CASE ~Noticed(g, w)
  BY <1>2 DEF Refuse, Same, Keyed
<1> QED
  BY <1>1, <1>2

LEMMA CountIsSame ==
    ASSUME NEW g, NEW n, NEW c, NEW limit, Keyed(g) PROVE Same(Count(g, n, c, limit), g)
BY ReplaceIsSame DEF Count

LEMMA AdmitIsSame == ASSUME NEW g, NEW n, NEW c, Keyed(g) PROVE Same(Admit(g, n, c), g)
<1> DEFINE own == IF c \in DOMAIN Limits THEN Count(g, n, c, Limits[c]) ELSE g
<1>1. Same(own, g)
  BY CountIsSame DEF Same, Keyed
<1>2. Keyed(own)
  BY <1>1 DEF Same, Keyed
<1>3. Same(Count(own, Nobody, Whatever, ChannelLimit), own)
  BY <1>2, CountIsSame
<1> QED
  BY <1>1, <1>3 DEF Admit, Same

LEMMA WithPlayerIsSame ==
    ASSUME NEW g, NEW n, NEW p, Keyed(g) PROVE Same(WithPlayer(g, n, p), g)
BY DEF Same, Keyed, WithPlayer

(* A settled transfer takes its end away.                                   *)
LEMMA ConsumedLoses ==
    ASSUME NEW g, Keyed(g), NEW x \in g.transfers
    PROVE  Fewer(Consumed(g, x), g) /\ (Unique(g) => x.to \notin Ends(Consumed(g, x)))
<1>1. /\ "transfers" \in DOMAIN Consumed(g, x)
      /\ Consumed(g, x).transfers = g.transfers \ {x}
  BY DEF Keyed, Consumed
<1> QED
  BY <1>1, SubsetIsFewer DEF Ends, Unique

(* A renaming keeps where the transfers lead to.                            *)
LEMMA RekeyIsFewer ==
    ASSUME NEW g, NEW s, NEW d, NEW p, Keyed(g) PROVE Fewer(Rekey(g, s, d, p), g)
<1> DEFINE name(n) == IF n = s THEN d ELSE n
           others == {x \in g.transfers : x.from # s \/ x.to # d}
           renamed(x) == [x EXCEPT !.from = name(@)]
           h == Rekey(g, s, d, p)
<1>1. "transfers" \in DOMAIN h /\ h.transfers = {renamed(x) : x \in others}
  BY DEF Keyed, Rekey
<1>2. ASSUME NEW x \in others PROVE "to" \in DOMAIN renamed(x) /\ renamed(x).to = x.to
  BY DEF Keyed
<1>3. Keyed(h)
  BY <1>1, <1>2 DEF Keyed
<1>4. ASSUME NEW n \in Ends(h) PROVE n \in Ends(g)
  <2>1. PICK y \in h.transfers : n = y.to
    BY <1>4 DEF Ends
  <2>2. PICK x \in others : y = renamed(x)
    BY <2>1, <1>1
  <2> QED
    BY <2>1, <2>2, <1>2 DEF Ends
<1> QED
  BY <1>3, <1>4 DEF Fewer

(* A settlement keeps a part of what is left.                               *)
LEMMA ResolveIsFewer ==
    ASSUME NEW g, Keyed(g), NEW x \in g.transfers
    PROVE  Fewer(Resolve(g, x), Consumed(g, x))
<1>1. Keyed(Consumed(g, x))
  BY ConsumedLoses DEF Fewer
<1>2. CASE ~Known(g, x.from)
  BY <1>1, <1>2, FewerThanItself DEF Resolve
<1>3. CASE Known(g, x.from) /\ ~Known(g, x.to)
  BY <1>1, <1>3, RekeyIsFewer DEF Resolve
<1>4. CASE Known(g, x.from) /\ Known(g, x.to)
  BY <1>1, <1>4, RekeyIsFewer DEF Resolve
<1> QED
  BY <1>2, <1>3, <1>4

(* A change of nicknames takes the end it leaves away and adds the one it  *)
(* leads to, if any.                                                       *)
LEMMA TrackFollows ==
    ASSUME NEW g, NEW old, NEW new, old # new, Keyed(g)
    PROVE  /\ Keyed(Track(g, old, new))
           /\ Ends(Track(g, old, new)) \subseteq (Ends(g) \ {old}) \union {new}
<1> DEFINE inherited == Pending(g, old)
           source == IF inherited = {} THEN old ELSE (CHOOSE x \in inherited : TRUE).from
           rest == g.transfers \ inherited
           noted == inherited # {} \/ Known(g, old) \/ Known(g, new)
           added == [from |-> source, to |-> new, expires |-> g.now + TransferLife]
           h == Track(g, old, new)
<1>1. CASE source = new
  <2>1. "transfers" \in DOMAIN h /\ h.transfers = rest
    BY <1>1 DEF Keyed, Track
  <2> QED
    BY <2>1 DEF Keyed, Ends, Pending
<1>2. CASE source # new /\ noted
  <2>1. "transfers" \in DOMAIN h /\ h.transfers = {x \in rest : x.to # new} \union {added}
    BY <1>2 DEF Keyed, Track
  <2>2. "to" \in DOMAIN added /\ added.to = new
    OBVIOUS
  <2> QED
    BY <2>1, <2>2 DEF Keyed, Ends, Pending
<1>3. CASE source # new /\ ~noted
  <2>1. "transfers" \in DOMAIN h /\ h.transfers = rest
    BY <1>3 DEF Keyed, Track
  <2> QED
    BY <2>1 DEF Keyed, Ends, Pending
<1> QED
  BY <1>1, <1>2, <1>3

(* A cancellation takes the end away.                                       *)
LEMMA CancelLoses ==
    ASSUME NEW g, NEW n, Keyed(g)
    PROVE  Keyed(Cancel(g, n)) /\ Ends(Cancel(g, n)) \subseteq Ends(g) \ {n}
<1>1. "transfers" \in DOMAIN Cancel(g, n) /\ Cancel(g, n).transfers = g.transfers \ Pending(g, n)
  BY DEF Keyed, Cancel
<1> QED
  BY <1>1 DEF Keyed, Ends, Pending

(* A nickname no transfer leads to is no end.                               *)
LEMMA NothingPending == ASSUME NEW g, NEW n, Pending(g, n) = {} PROVE n \notin Ends(g)
BY DEF Pending, Ends

-----------------------------------------------------------------------------
(* What a command does to its book. *)

Book(b) == "game" \in DOMAIN b /\ Keyed(b.game)

(* The transfer to the hunter is settled. *)
LEMMA Settles ==
    ASSUME NEW b, NEW n, NEW t, Book(b)
    PROVE  /\ Book(SettleTransfer(b, n, t))
           /\ Fewer(SettleTransfer(b, n, t).game, b.game)
           /\ n # Nobody /\ Unique(b.game) => n \notin Ends(SettleTransfer(b, n, t).game)
<1> DEFINE g == Advance(b.game, t)
           x == Pending(g, n)
           c == SettleTransfer(b, n, t)
<1>1. Fewer(g, b.game) /\ Keyed(g)
  BY AdvanceIsFewer DEF Book, Fewer
<1>2. CASE ~Owes(b, n)
  <2>1. c = b
    BY <1>2 DEF SettleTransfer
  <2> QED
    BY <1>2, <2>1, NothingPending, FewerThanItself DEF Owes, Book
<1>3. CASE Owes(b, n) /\ x = {}
  <2>1. c = [b EXCEPT !.game = g]
    BY <1>3 DEF SettleTransfer
  <2>2. "game" \in DOMAIN c /\ c.game = g
    BY <2>1 DEF Book
  <2> QED
    BY <1>1, <1>3, <2>2, NothingPending DEF Book
<1>4. CASE Owes(b, n) /\ x # {}
  <2> DEFINE y == CHOOSE z \in x : TRUE
  <2>1. y \in x /\ y \in g.transfers /\ y.to = n
    BY <1>4 DEF Pending
  <2>2. c = Inherit(g, y, b)
    BY <1>4 DEF SettleTransfer
  <2>3. "game" \in DOMAIN c /\ c.game = Resolve(g, y)
    BY <2>2 DEF Inherit
  <2>4. Fewer(c.game, Consumed(g, y))
    BY <1>1, <2>1, <2>3, ResolveIsFewer
  <2>5. Fewer(Consumed(g, y), g) /\ (Unique(g) => n \notin Ends(Consumed(g, y)))
    BY <1>1, <2>1, ConsumedLoses
  <2>6. Unique(b.game) => Unique(g)
    <3>1. g.transfers \subseteq b.game.transfers
      BY DEF Advance, Book, Keyed
    <3> QED
      BY <3>1 DEF Unique
  <2>7. Fewer(c.game, b.game)
    BY <1>1, <2>4, <2>5, FewerAndFewer
  <2> QED
    BY <2>3, <2>4, <2>5, <2>6, <2>7 DEF Book, Fewer
<1> QED
  BY <1>2, <1>3, <1>4

(* An admission adds no end.                                                *)
LEMMA Admits ==
    ASSUME NEW b, NEW n, NEW c, NEW t, Book(b)
    PROVE  Fewer(Admission(b, n, c, t).game, b.game)
<1> DEFINE a == Advance(b.game, t)
           g == Prune(a)
           blocking == Blocking(g, n, c)
           h == Admit(g, n, c)
           e == Admission(b, n, c, t)
<1>1. Fewer(a, b.game) /\ Keyed(a)
  BY AdvanceIsFewer DEF Book, Fewer
<1>2. Fewer(g, a) /\ Keyed(g)
  BY <1>1, PruneIsSame, SameIsFewer DEF Fewer
<1>3. Fewer(g, b.game)
  BY <1>1, <1>2, FewerAndFewer
<1>4. CASE blocking = {}
  <2>1. Fewer(h, g) /\ Keyed(h)
    BY <1>2, AdmitIsSame, SameIsFewer DEF Fewer
  <2>2. Fewer(WithPlayer(h, n, Resolved(h, n)), h)
    BY <2>1, WithPlayerIsSame, SameIsFewer
  <2>3. e.game = WithPlayer(h, n, Resolved(h, n))
    BY <1>4 DEF Admission, Book
  <2> QED
    BY <1>3, <2>1, <2>2, <2>3, FewerAndFewer
<1>5. CASE blocking # {}
  <2>1. e.game = Refuse(g, CHOOSE w \in blocking : TRUE)
    BY <1>5 DEF Admission, Book
  <2>2. Fewer(e.game, g)
    BY <1>2, <2>1, RefuseIsSame, SameIsFewer
  <2> QED
    BY <1>3, <2>2, FewerAndFewer
<1> QED
  BY <1>4, <1>5

-----------------------------------------------------------------------------
(* The invariant. *)

(* It holds at the start,                                                   *)
LEMMA InitInv == Init => IInv
<1> SUFFICES ASSUME Init PROVE IInv
  OBVIOUS
<1>1. /\ "transfers" \in DOMAIN game /\ game.transfers = {}
      /\ DOMAIN game.players \subseteq Hunters
  BY IdentityConstants DEF Init, Playable, GameState
<1>2. nick \in [Persons -> Hunters \union {Nobody}]
  BY <1>1 DEF Init
<1>3. NickShape
  BY <1>2 DEF Init, NickShape
<1>4. ASSUME NEW p \in Persons
      PROVE  /\ trail[p] \in SUBSET Hunters /\ IsFiniteSet(trail[p])
             /\ p \in Here => nick[p] \in trail[p]
  <2>1. trail[p] = {nick[p]} \ {Nobody}
    BY DEF Init
  <2>2. IsFiniteSet({nick[p]}) /\ trail[p] \in SUBSET {nick[p]}
    BY <2>1, FS_Singleton
  <2>3. IsFiniteSet(trail[p])
    BY <2>2, FS_Subset
  <2> QED
    BY <1>2, <2>1, <2>3 DEF Here
<1>5. TrailShape
  <2>1. trail \in [Persons -> SUBSET Hunters]
    BY <1>4 DEF Init
  <2> QED
    BY <1>4, <2>1 DEF TrailShape, Here
<1> QED
  BY <1>1, <1>3, <1>5 DEF IInv, Keyed, TransferShape, Unique, Ends

(* A state that is kept is one the model classes accept. *)
LEMMA KeepsShape ==
    ASSUME NEW h, Keyed(h), Keyed(game), Keep(h)
    PROVE  Keyed(game)' /\ (~failed' => game' = h /\ Unique(h))
<1>1. CASE ValidGame(h) /\ ValidWindows(h)
  BY <1>1 DEF Keep, Keyed, ValidGame, ValidTransfers, Unique
<1>2. CASE ~(ValidGame(h) /\ ValidWindows(h))
  BY <1>2 DEF Keep, Keyed
<1> QED
  BY <1>1, <1>2

(* What the bot makes of a nickname that changes hands: the end is missed, *)
(* or it is taken away.                                                    *)
LEMMA Learns ==
    ASSUME NEW n, NEW concerns \in BOOLEAN, NEW h, NEW slot \in BOOLEAN,
           IInv, ~failed, Keyed(h), ~concerns => n \notin Ends(game),
           Learn(n, concerns, h, slot)
    PROVE  /\ Keyed(game)'
           /\ ~failed' =>
                /\ Unique(game)'
                /\ \/ game' = game /\ unseen' \union dropped' = unseen \union dropped \union {n}
                   \/ /\ unseen' \union dropped' = (unseen \union dropped) \ {n}
                      /\ game' = h \/ (game' = game /\ n \notin Ends(game))
<1>1. Keyed(game) /\ Unique(game)
  BY DEF IInv, TransferShape
<1>2. CASE ~watched
  BY <1>1, <1>2 DEF Learn, Keyed, Unique
<1>3. CASE watched /\ concerns /\ ~slot
  BY <1>1, <1>3 DEF Learn, Keyed, Unique
<1>4. CASE watched /\ concerns /\ slot
  <2>1. Keep(h) /\ unseen' = unseen \ {n} /\ dropped' = dropped \ {n}
    BY <1>4 DEF Learn
  <2>2. Keyed(game)' /\ (~failed' => game' = h /\ Unique(h))
    BY <1>1, <2>1, KeepsShape
  <2> QED
    BY <2>1, <2>2 DEF Unique
<1>5. CASE watched /\ ~concerns
  BY <1>1, <1>5 DEF Learn, Keyed, Unique
<1> QED
  BY <1>2, <1>3, <1>4, <1>5

(* A free nickname is nobody's.                                             *)
LEMMA FreeIsNobodys ==
    ASSUME NickShape, NEW n \in Free
    PROVE  n \in Hunters /\ n # Nobody /\ \A p \in Persons : nick[p] # n
BY ProfileConstants DEF Free, NickShape

(* when somebody arrives,                                                   *)
LEMMA ArriveInv == IInv /\ ~failed /\ Arrive => IInv'
<1> SUFFICES ASSUME IInv, ~failed, Arrive PROVE IInv'
  OBVIOUS
<1>1. PICK p \in Persons \ Here, n \in Free :
         /\ Moves(p, n) /\ trail' = [trail EXCEPT ![p] = {n}]
         /\ UNCHANGED <<game, failed, unseen, dropped>>
  BY DEF Arrive
<1>2. n \in Hunters /\ n # Nobody /\ \A q \in Persons : nick[q] # n
  BY FreeIsNobodys DEF IInv
<1>3. NickShape'
  BY <1>1, <1>2 DEF IInv, NickShape, Moves
<1>4. TrailShape'
  <2>1. ASSUME NEW q \in Persons PROVE IsFiniteSet(trail'[q])
    BY <1>1, FS_Singleton DEF IInv, TrailShape
  <2> QED
    BY <1>1, <1>2, <2>1 DEF IInv, TrailShape, NickShape, Here, Moves
<1>5. ASSUME NEW m, Followed(m) PROVE Followed(m)'
  <2>1. PICK q \in Here : nick[q] = m /\ Cardinality(trail[q]) > 1
    BY <1>5 DEF Followed
  <2>2. q # p /\ nick'[q] = nick[q] /\ trail'[q] = trail[q] /\ q \in Here'
    BY <1>1, <2>1 DEF IInv, NickShape, TrailShape, Moves, Here
  <2> QED
    BY <2>1, <2>2 DEF Followed
<1>6. TransferShape'
  BY <1>1, <1>5 DEF IInv, TransferShape, Unique, Ends, Missed
<1> QED
  BY <1>1, <1>3, <1>4, <1>6 DEF IInv, Keyed

(* A trail with a second nickname. *)
LEMMA SecondNickname ==
    ASSUME NEW S, IsFiniteSet(S), NEW old \in S, NEW new, old # new
    PROVE  IsFiniteSet(S \union {new}) /\ Cardinality(S \union {new}) > 1
<1>1. IsFiniteSet({old}) /\ Cardinality({old}) = 1
  BY FS_Singleton
<1>2. IsFiniteSet({old} \union {new}) /\ Cardinality({old} \union {new}) = 2
  BY <1>1, FS_AddElement
<1>3. IsFiniteSet(S \union {new})
  BY FS_AddElement
<1>4. {old} \union {new} \in SUBSET (S \union {new})
  OBVIOUS
<1>5. Cardinality({old} \union {new}) <= Cardinality(S \union {new})
  BY <1>3, <1>4, FS_Subset
<1>6. Cardinality(S \union {new}) \in Nat
  BY <1>3, FS_CardinalityType
<1> QED
  BY <1>2, <1>3, <1>5, <1>6

(* changes nicknames,                                                       *)
LEMMA ChangeNickInv == IInv /\ ~failed /\ ChangeNick => IInv'
<1> SUFFICES ASSUME IInv, ~failed, ChangeNick PROVE IInv'
  OBVIOUS
<1>1. PICK wait \in Waits, p \in Here, new \in Free, slot \in BOOLEAN :
         /\ Learn(nick[p], Tracked(game, nick[p], new), Track(Later(wait), nick[p], new), slot)
         /\ Moves(p, new) /\ trail' = [trail EXCEPT ![p] = trail[p] \union {new}]
  <2>1. PICK wait \in Waits, p \in Here, new \in Free, slot \in BOOLEAN :
          LET old == nick[p]
          IN  /\ Learn(old, Tracked(game, old, new), Track(Later(wait), old, new), slot)
              /\ Moves(p, new) /\ trail' = [trail EXCEPT ![p] = @ \union {new}]
              /\ said' = Said("nick", new, FALSE)
              /\ UNCHANGED watched /\ Unserved
    BY DEF ChangeNick
  <2> QED
    BY <2>1
<1> DEFINE old == nick[p]
           h == Track(Later(wait), old, new)
<1>2. /\ new \in Hunters /\ new # Nobody /\ (\A q \in Persons : nick[q] # new)
      /\ p \in Persons /\ old # new
  BY FreeIsNobodys DEF IInv, Here
<1>3. Keyed(h) /\ Ends(h) \subseteq (Ends(game) \ {old}) \union {new}
  <2>1. Fewer(Later(wait), game) /\ Keyed(Later(wait))
    BY AdvanceIsFewer DEF IInv, Later, Fewer
  <2>2. Keyed(h) /\ Ends(h) \subseteq (Ends(Later(wait)) \ {old}) \union {new}
    BY <1>2, <2>1, TrackFollows
  <2> QED
    BY <2>1, <2>2 DEF Fewer
<1>4. ~Tracked(game, old, new) => old \notin Ends(game)
  BY NothingPending DEF Tracked
<1>5. Tracked(game, old, new) \in BOOLEAN
  BY DEF Tracked, Known
<1>6. /\ Keyed(game)'
      /\ ~failed' =>
           /\ Unique(game)'
           /\ \/ game' = game /\ unseen' \union dropped' = unseen \union dropped \union {old}
              \/ /\ unseen' \union dropped' = (unseen \union dropped) \ {old}
                 /\ game' = h \/ (game' = game /\ old \notin Ends(game))
  BY <1>1, <1>3, <1>4, <1>5, Learns
<1>7. NickShape'
  BY <1>1, <1>2 DEF IInv, NickShape, Moves
<1>8. IsFiniteSet(trail[p] \union {new}) /\ Cardinality(trail[p] \union {new}) > 1
  <2>1. IsFiniteSet(trail[p]) /\ old \in trail[p]
    BY <1>2 DEF IInv, TrailShape
  <2> QED
    BY <1>2, <2>1, SecondNickname
<1>9. TrailShape'
  <2>1. trail'[p] = trail[p] \union {new} /\ \A q \in Persons \ {p} : trail'[q] = trail[q]
    BY <1>1, <1>2 DEF IInv, TrailShape
  <2>2. nick'[p] = new /\ \A q \in Persons \ {p} : nick'[q] = nick[q]
    BY <1>1, <1>2 DEF IInv, NickShape, Moves
  <2>3. trail' \in [Persons -> SUBSET Hunters]
    BY <1>1, <1>2 DEF IInv, TrailShape
  <2>4. ASSUME NEW q \in Persons PROVE IsFiniteSet(trail'[q])
    BY <1>8, <2>1 DEF IInv, TrailShape
  <2>5. ASSUME NEW q \in Here' PROVE nick'[q] \in trail'[q]
    BY <2>1, <2>2 DEF IInv, TrailShape, Here
  <2> QED
    BY <2>3, <2>4, <2>5 DEF TrailShape
<1>10. Followed(new)'
  <2>1. p \in Here' /\ nick'[p] = new /\ Cardinality(trail'[p]) > 1
    BY <1>1, <1>2, <1>8 DEF IInv, NickShape, TrailShape, Moves, Here
  <2> QED
    BY <2>1 DEF Followed
<1>11. ASSUME NEW m, m # old, Followed(m) PROVE Followed(m)'
  <2>1. PICK q \in Here : nick[q] = m /\ Cardinality(trail[q]) > 1
    BY <1>11 DEF Followed
  <2>2. q # p /\ nick'[q] = nick[q] /\ trail'[q] = trail[q] /\ q \in Here'
    BY <1>1, <1>11, <2>1 DEF IInv, NickShape, TrailShape, Moves, Here
  <2> QED
    BY <2>1, <2>2 DEF Followed
<1>12. TransferShape'
  <2> SUFFICES ASSUME ~failed' PROVE Unique(game)' /\ \A m \in Ends(game)' : (Followed(m) \/ Missed(m))'
    BY DEF TransferShape
  <2>1. \A m \in Ends(game) : Followed(m) \/ m \in unseen \union dropped
    BY DEF IInv, TransferShape, Missed
  <2>2. CASE game' = game /\ unseen' \union dropped' = unseen \union dropped \union {old}
    BY <1>6, <1>11, <2>1, <2>2 DEF Ends, Missed
  <2>3. CASE /\ unseen' \union dropped' = (unseen \union dropped) \ {old}
             /\ game' = h \/ (game' = game /\ old \notin Ends(game))
    <3>1. Ends(game)' \subseteq (Ends(game) \ {old}) \union {new}
      BY <1>3, <2>3 DEF Ends
    <3> QED
      BY <1>6, <1>10, <1>11, <2>1, <2>3, <3>1 DEF Missed
  <2> QED
    BY <1>6, <2>2, <2>3
<1> QED
  BY <1>6, <1>7, <1>9, <1>12 DEF IInv

(* or leaves,                                                               *)
LEMMA LeaveInv == IInv /\ ~failed /\ Leave => IInv'
<1> SUFFICES ASSUME IInv, ~failed, Leave PROVE IInv'
  OBVIOUS
<1>1. PICK wait \in Waits, p \in Here, slot \in BOOLEAN :
         /\ Learn(nick[p], Pending(game, nick[p]) # {}, Cancel(Later(wait), nick[p]), slot)
         /\ Moves(p, Nobody) /\ trail' = [trail EXCEPT ![p] = {}]
  BY DEF Leave
<1> DEFINE n == nick[p]
           h == Cancel(Later(wait), n)
<1>2. p \in Persons
  BY DEF Here
<1>3. Keyed(h) /\ Ends(h) \subseteq Ends(game) \ {n}
  <2>1. Fewer(Later(wait), game) /\ Keyed(Later(wait))
    BY AdvanceIsFewer DEF IInv, Later, Fewer
  <2> QED
    BY <2>1, CancelLoses DEF Fewer
<1>4. Pending(game, n) = {} => n \notin Ends(game)
  BY NothingPending
<1>5. /\ Keyed(game)'
      /\ ~failed' =>
           /\ Unique(game)'
           /\ \/ game' = game /\ unseen' \union dropped' = unseen \union dropped \union {n}
              \/ /\ unseen' \union dropped' = (unseen \union dropped) \ {n}
                 /\ game' = h \/ (game' = game /\ n \notin Ends(game))
  BY <1>1, <1>3, <1>4, Learns
<1>6. NickShape'
  BY <1>1, <1>2 DEF IInv, NickShape, Moves
<1>7. TrailShape'
  <2>1. ASSUME NEW q \in Persons PROVE IsFiniteSet(trail'[q])
    BY <1>1, FS_EmptySet DEF IInv, TrailShape
  <2> QED
    BY <1>1, <1>2, <2>1 DEF IInv, TrailShape, NickShape, Here, Moves
<1>8. ASSUME NEW m, m # n, Followed(m) PROVE Followed(m)'
  <2>1. PICK q \in Here : nick[q] = m /\ Cardinality(trail[q]) > 1
    BY <1>8 DEF Followed
  <2>2. q # p /\ nick'[q] = nick[q] /\ trail'[q] = trail[q] /\ q \in Here'
    BY <1>1, <1>8, <2>1 DEF IInv, NickShape, TrailShape, Moves, Here
  <2> QED
    BY <2>1, <2>2 DEF Followed
<1>9. TransferShape'
  <2> SUFFICES ASSUME ~failed' PROVE Unique(game)' /\ \A m \in Ends(game)' : (Followed(m) \/ Missed(m))'
    BY DEF TransferShape
  <2>1. \A m \in Ends(game) : Followed(m) \/ m \in unseen \union dropped
    BY DEF IInv, TransferShape, Missed
  <2>2. CASE game' = game /\ unseen' \union dropped' = unseen \union dropped \union {n}
    BY <1>5, <1>8, <2>1, <2>2 DEF Ends, Missed
  <2>3. CASE /\ unseen' \union dropped' = (unseen \union dropped) \ {n}
             /\ game' = h \/ (game' = game /\ n \notin Ends(game))
    <3>1. Ends(game)' \subseteq Ends(game) \ {n}
      BY <1>3, <2>3 DEF Ends
    <3> QED
      BY <1>5, <1>8, <2>1, <2>3, <3>1 DEF Missed
  <2> QED
    BY <1>5, <2>2, <2>3
<1> QED
  BY <1>5, <1>6, <1>7, <1>9 DEF IInv

(* when the bot comes and goes,                                             *)
LEMMA SightInv == IInv /\ (LoseSight \/ FindSight) => IInv'
BY DEF LoseSight, FindSight, IInv, Keyed, NickShape, TrailShape, TransferShape, Here, Unique, Ends,
       Followed, Missed

(* What a book brings: the ends it kept, and for a hunter who took part    *)
(* none of its own.                                                        *)
LEMMA Recorded ==
    ASSUME IInv, ~failed, NEW p \in Here, NEW h, NEW tired \in BOOLEAN, Fewer(h, game),
           tired => nick[p] \notin Ends(h),
           trail' = [trail EXCEPT ![p] = IF tired THEN {nick[p]} ELSE @],
           Keep(h) \/ (failed' = TRUE /\ game' = h),
           UNCHANGED <<nick, unseen, dropped>>
    PROVE  IInv'
<1>1. p \in Persons /\ Keyed(h) /\ Keyed(game)
  BY DEF Here, Fewer, IInv
<1>2. Keyed(game)' /\ (~failed' => game' = h /\ Unique(h))
  BY <1>1, KeepsShape DEF Keyed
<1>3. NickShape'
  BY DEF IInv, NickShape
<1>4. TrailShape'
  <2>1. ASSUME NEW q \in Persons PROVE IsFiniteSet(trail'[q])
    BY <1>1, FS_Singleton DEF IInv, TrailShape
  <2>2. ASSUME NEW q \in Here PROVE nick[q] \in Hunters
    BY DEF IInv, NickShape, Here
  <2>3. trail' \in [Persons -> SUBSET Hunters]
    BY <1>1, <2>2 DEF IInv, TrailShape
  <2>4. ASSUME NEW q \in Here PROVE nick[q] \in trail'[q]
    BY <1>1 DEF IInv, TrailShape, Here
  <2> QED
    BY <2>1, <2>3, <2>4 DEF TrailShape, Here
<1>5. ASSUME NEW m \in Ends(h), Followed(m) PROVE Followed(m)'
  <2>1. PICK q \in Here : nick[q] = m /\ Cardinality(trail[q]) > 1
    BY <1>5 DEF Followed
  <2>2. trail'[q] = trail[q]
    <3>1. q \in Persons /\ (q = p => ~tired)
      BY <1>5, <2>1 DEF Here
    <3> QED
      BY <1>1, <3>1 DEF IInv, TrailShape
  <2>3. q \in Here' /\ nick'[q] = nick[q]
    BY DEF Here
  <2> QED
    BY <2>1, <2>2, <2>3 DEF Followed
<1>6. TransferShape'
  <2> SUFFICES ASSUME ~failed' PROVE Unique(game)' /\ \A m \in Ends(game)' : (Followed(m) \/ Missed(m))'
    BY DEF TransferShape
  <2>1. game' = h /\ Unique(h)
    BY <1>2
  <2>2. Ends(game)' = Ends(h) /\ Unique(game)'
    BY <2>1 DEF Ends, Unique
  <2>3. \A m \in Ends(h) : Followed(m) \/ Missed(m)
    BY DEF IInv, TransferShape, Fewer
  <2> QED
    BY <1>5, <2>2, <2>3 DEF Missed
<1> QED
  BY <1>2, <1>3, <1>4, <1>6 DEF IInv

(* after every command,                                                     *)
LEMMA CommandInv == IInv /\ ~failed /\ Command => IInv'
<1> SUFFICES ASSUME IInv, ~failed, Command PROVE IInv'
  OBVIOUS
<1>1. PICK wait \in Waits, p \in Here, c \in Commands \union Queries, slots \in 0..3 :
        \E target \in (IF c \in Targeted THEN Hunters \union {Nobody} ELSE {Nobody}) :
          LET n == nick[p]
              t == game.now + wait
              b0 == [game |-> game, served |-> served, merged |-> merged]
              b1 == SettleTransfer(b0, n, t)
              b2 == SettleTransfer(b1, target, t)
              first == IF Owes(b0, n) THEN 1 ELSE 0
              both == first + (IF Owes(b1, target) THEN 1 ELSE 0)
          IN  /\ watched
              /\ trail' = [trail EXCEPT ![p] = IF slots >= first THEN {n} ELSE @]
              /\ CASE slots < first -> Record(b0, Said("busy", n, FALSE))
                   [] slots >= first /\ slots < both -> Record(b1, Said("busy", n, FALSE))
                   [] slots >= both /\ c \in Queries -> Record(b2, Said("query", n, FALSE))
                   [] slots = both /\ c \in Commands -> Record(b2, Said("busy", n, FALSE))
                   [] OTHER ->
                        IF Overfull(b2.game)
                        THEN /\ failed' = TRUE /\ said' = Said("command", n, FALSE)
                             /\ game' = b2.game /\ served' = b2.served /\ merged' = b2.merged
                        ELSE Record(Admission(b2, n, c, t), Said("command", n, FALSE))
              /\ UNCHANGED <<nick, watched, unseen, dropped>>
  BY DEF Command
<1> DEFINE n == nick[p]
           t == game.now + wait
           b0 == [game |-> game, served |-> served, merged |-> merged]
           b1 == SettleTransfer(b0, n, t)
           first == IF Owes(b0, n) THEN 1 ELSE 0
<1>2. PICK target :
          LET b2 == SettleTransfer(b1, target, t)
              both == first + (IF Owes(b1, target) THEN 1 ELSE 0)
          IN  /\ trail' = [trail EXCEPT ![p] = IF slots >= first THEN {n} ELSE @]
              /\ CASE slots < first -> Record(b0, Said("busy", n, FALSE))
                   [] slots >= first /\ slots < both -> Record(b1, Said("busy", n, FALSE))
                   [] slots >= both /\ c \in Queries -> Record(b2, Said("query", n, FALSE))
                   [] slots = both /\ c \in Commands -> Record(b2, Said("busy", n, FALSE))
                   [] OTHER ->
                        IF Overfull(b2.game)
                        THEN /\ failed' = TRUE /\ said' = Said("command", n, FALSE)
                             /\ game' = b2.game /\ served' = b2.served /\ merged' = b2.merged
                        ELSE Record(Admission(b2, n, c, t), Said("command", n, FALSE))
              /\ UNCHANGED <<nick, unseen, dropped>>
  BY <1>1
<1> DEFINE b2 == SettleTransfer(b1, target, t)
           b3 == Admission(b2, n, c, t)
           both == first + (IF Owes(b1, target) THEN 1 ELSE 0)
<1>3. Book(b0) /\ b0.game = game /\ Fewer(b0.game, game) /\ Unique(b0.game) /\ n # Nobody
  BY FewerThanItself DEF IInv, Book, TransferShape, Here
<1>4. Book(b1) /\ Fewer(b1.game, game) /\ n \notin Ends(b1.game)
  BY <1>3, Settles
<1>5. Book(b2) /\ Fewer(b2.game, b1.game)
  BY <1>4, Settles
<1>6. Fewer(b2.game, game) /\ n \notin Ends(b2.game)
  BY <1>4, <1>5, FewerAndFewer DEF Fewer
<1>7. Fewer(b3.game, game) /\ n \notin Ends(b3.game)
  <2>1. Fewer(b3.game, b2.game)
    BY <1>5, Admits
  <2> QED
    BY <1>6, <2>1, FewerAndFewer DEF Fewer
<1> DEFINE tired == slots >= first
<1>8. UNCHANGED <<nick, unseen, dropped>>
  BY <1>2
<1>9. trail' = [trail EXCEPT ![p] = IF tired THEN {nick[p]} ELSE @]
  BY <1>2
<1>10. slots \in Nat /\ first \in {0, 1} /\ both \in {first, first + 1}
  OBVIOUS
<1>11. (CASE slots < first -> Record(b0, Said("busy", n, FALSE))
         [] slots >= first /\ slots < both -> Record(b1, Said("busy", n, FALSE))
         [] slots >= both /\ c \in Queries -> Record(b2, Said("query", n, FALSE))
         [] slots = both /\ c \in Commands -> Record(b2, Said("busy", n, FALSE))
         [] OTHER ->
              IF Overfull(b2.game)
              THEN /\ failed' = TRUE /\ said' = Said("command", n, FALSE)
                   /\ game' = b2.game /\ served' = b2.served /\ merged' = b2.merged
              ELSE Record(b3, Said("command", n, FALSE)))
  BY <1>2
<1> HIDE DEF b0, b1, b2, b3, first, both
<1>12. \E h : /\ Fewer(h, game) /\ (tired => n \notin Ends(h))
              /\ Keep(h) \/ (failed' = TRUE /\ game' = h)
  <2>1. CASE slots < first
    <3>1. ~(slots >= first) /\ ~(slots >= both) /\ slots # both
      BY <1>10, <2>1
    <3>2. Keep(b0.game)
      BY <1>11, <2>1, <3>1, Zenon DEF Record
    <3> QED
      BY <1>3, <3>1, <3>2
  <2>2. CASE slots >= first /\ slots < both
    <3>1. ~(slots < first) /\ ~(slots >= both) /\ slots # both
      BY <1>10, <2>2
    <3>2. Keep(b1.game)
      BY <1>11, <2>2, <3>1, Zenon DEF Record
    <3> QED
      BY <1>4, <3>2
  <2>3. CASE slots >= both
    <3>1. ~(slots < first) /\ ~(slots < both)
      BY <1>10, <2>3
    <3>2. Keep(b2.game) \/ (failed' = TRUE /\ game' = b2.game) \/ Keep(b3.game)
      BY <1>11, <3>1, Zenon DEF Record
    <3> QED
      BY <1>6, <1>7, <3>2
  <2>4. slots < first \/ (slots >= first /\ slots < both) \/ slots >= both
    BY <1>10
  <2> QED
    BY <2>1, <2>2, <2>3, <2>4, Zenon
<1>13. tired \in BOOLEAN
  OBVIOUS
<1> HIDE DEF tired
<1> QED
  BY <1>8, <1>9, <1>12, <1>13, Recorded

(* and so after every step.                                                 *)
LEMMA NextInv == IInv /\ [Next]_vars => IInv'
<1>1. ASSUME IInv, UNCHANGED vars PROVE IInv'
  BY <1>1 DEF vars, IInv, Keyed, NickShape, TrailShape, TransferShape, Here, Unique, Ends,
              Followed, Missed
<1> QED
  BY <1>1, ArriveInv, ChangeNickInv, LeaveInv, SightInv, CommandInv DEF Next

-----------------------------------------------------------------------------
(* Sorted sequences of times.                                              *)

Times == Nat \ {0}
Ordered(s) == s \in Seq(Times) /\ Sorted(s)

(* How many of the times of a sequence have come grows with time.           *)
LEMMA UpToGrows ==
    ASSUME NEW s \in Seq(Times), NEW t \in Nat
    PROVE  /\ UpTo(s, t) \in 0..Len(s)
           /\ \A u \in Nat : t <= u => UpTo(s, t) <= UpTo(s, u)
           /\ (\A i \in DOMAIN s : s[i] <= t) => UpTo(s, t) = Len(s)
<1> DEFINE Come(u) == {i \in DOMAIN s : s[i] <= u}
<1>1. /\ IsFiniteSet(DOMAIN s) /\ Cardinality(DOMAIN s) = Len(s) /\ Len(s) \in Nat
      /\ \A i \in DOMAIN s : s[i] \in Nat
  <2>1. DOMAIN s = 1..Len(s) /\ Len(s) \in Nat /\ \A i \in DOMAIN s : s[i] \in Nat
    BY LenProperties, ElementOfSeq DEF Times
  <2>2. ASSUME NEW n \in Nat PROVE IsFiniteSet(1..n) /\ Cardinality(1..n) = n
    BY FS_Interval
  <2> QED
    BY <2>1, <2>2
<1>2. ASSUME NEW T \in SUBSET DOMAIN s, NEW S \in SUBSET T
      PROVE  /\ Cardinality(T) \in Nat /\ Cardinality(S) \in Nat
             /\ Cardinality(S) <= Cardinality(T)
  <2>1. IsFiniteSet(T)
    BY <1>1, FS_Subset
  <2> QED
    BY <2>1, FS_Subset, FS_CardinalityType
<1>3. \A u \in Nat : t <= u => Come(t) \subseteq Come(u)
  BY <1>1
<1>4. \A u : Come(u) \subseteq DOMAIN s
  OBVIOUS
<1>5. (\A i \in DOMAIN s : s[i] <= t) => Come(t) = DOMAIN s
  OBVIOUS
<1>6. \A u : UpTo(s, u) = Cardinality(Come(u))
  BY DEF UpTo
<1> HIDE DEF Come
<1> QED
  BY <1>1, <1>2, <1>3, <1>4, <1>5, <1>6

(* A part of a sorted sequence is sorted.                                   *)
LEMMA PartOrdered ==
    ASSUME NEW s, Ordered(s), NEW k \in Nat \ {0}, k <= Len(s) + 1
    PROVE  LET r == SubSeq(s, k, Len(s))
           IN  Ordered(r) /\ Len(r) = Len(s) - k + 1
<1> DEFINE r == SubSeq(s, k, Len(s))
<1>1. /\ s \in Seq(Times) /\ Len(s) \in Nat /\ DOMAIN s = 1..Len(s)
      /\ \A i \in 1..Len(s) : s[i] \in Times /\ s[i] \in Nat
      /\ \A i, j \in 1..Len(s) : i < j => s[i] <= s[j]
  <2>1. s \in Seq(Times) /\ Len(s) \in Nat /\ DOMAIN s = 1..Len(s)
    BY LenProperties DEF Ordered
  <2>2. \A i \in 1..Len(s) : s[i] \in Times /\ s[i] \in Nat
    BY <2>1, ElementOfSeq DEF Times
  <2> QED
    BY <2>1, <2>2 DEF Ordered, Sorted
<1>2. PICK n \in Nat : n = Len(s)
  BY <1>1
<1>3. \A i \in k..n : s[i] \in Times
  BY <1>1, <1>2
<1>4. r \in Seq(Times) /\ Len(r) = n - k + 1 /\ \A i \in 1..n-k+1 : r[i] = s[k + i - 1]
  BY <1>2, <1>3, SubSeqProperties
<1>5. DOMAIN r = 1..n-k+1
  BY <1>4, LenProperties
<1> HIDE DEF r
<1>6. Sorted(r)
  <2> SUFFICES ASSUME NEW i \in 1..n-k+1, NEW j \in 1..n-k+1, i < j PROVE r[i] <= r[j]
    BY <1>5 DEF Sorted
  <2>1. k + i - 1 \in 1..n /\ k + j - 1 \in 1..n /\ k + i - 1 < k + j - 1
    BY <1>2
  <2> QED
    BY <1>1, <1>2, <1>4, <2>1
<1> QED
  BY <1>2, <1>4, <1>6 DEF Ordered, r

(* What is still to come of a sorted sequence is sorted, and no longer.     *)
LEMMA LaterOrdered ==
    ASSUME NEW s, Ordered(s), NEW t \in Nat
    PROVE  LET r == SubSeq(s, UpTo(s, t) + 1, Len(s))
           IN  Ordered(r) /\ Len(r) \in 0..Len(s)
<1>1. s \in Seq(Times) /\ Len(s) \in Nat
  BY LenProperties DEF Ordered
<1>2. PICK k \in Nat : k = UpTo(s, t) /\ k <= Len(s)
  BY <1>1, UpToGrows
<1>3. k + 1 \in Nat \ {0} /\ k + 1 <= Len(s) + 1
  BY <1>1, <1>2
<1>4. Ordered(SubSeq(s, k + 1, Len(s))) /\ Len(SubSeq(s, k + 1, Len(s))) = Len(s) - (k + 1) + 1
  BY <1>3, PartOrdered
<1> QED
  BY <1>1, <1>2, <1>4

(* The last of a sorted sequence, as many as a window holds.                *)
LEMMA RecentOrdered ==
    ASSUME NEW s, Ordered(s), Len(s) >= 1
    PROVE  Ordered(Recent(s)) /\ Len(Recent(s)) \in 1..MaxExpirations
<1>1. Len(s) \in Nat
  BY LenProperties DEF Ordered
<1>2. PICK n \in Nat : n = Len(s) /\ n >= 1
  BY <1>1
<1>3. PICK k \in Nat \ {0} : k = Most(1, n - MaxExpirations + 1)
  BY <1>2 DEF Most, MaxExpirations
<1>4. k <= n + 1 /\ n - k + 1 \in 1..MaxExpirations
  <2>1. k <= n + 1 /\ n - k + 1 >= 1 /\ n - k + 1 <= 30
    BY <1>2, <1>3 DEF Most, MaxExpirations
  <2> QED
    BY <2>1 DEF MaxExpirations
<1>5. Ordered(SubSeq(s, k, Len(s))) /\ Len(SubSeq(s, k, Len(s))) = n - k + 1
  BY <1>2, <1>4, PartOrdered
<1> QED
  BY <1>2, <1>3, <1>4, <1>5 DEF Recent

(* A finite set of naturals that is not empty has a greatest element.       *)
LEMMA GreatestNatural ==
    ASSUME NEW T \in SUBSET Nat, T # {}, NEW bound \in Nat, \A u \in T : u <= bound
    PROVE  \E t \in T : \A u \in T : u <= t
<1> DEFINE B == {b \in Nat : \A u \in T : u <= b}
<1>1. PICK b \in B : \A c \in B : b <= c
  <2>1. B \in SUBSET Nat /\ B # {}
    OBVIOUS
  <2> HIDE DEF B
  <2> QED
    BY <2>1, LeastNatural
<1>2. b \in Nat /\ \A u \in T : u \in Nat /\ u <= b
  BY <1>1
<1>3. ASSUME b \notin T PROVE FALSE
  <2>1. PICK a \in T : a \in Nat
    OBVIOUS
  <2>2. a < b
    BY <1>2, <1>3, <2>1
  <2>3. PICK c \in Nat : c = b - 1
    BY <1>2, <2>1, <2>2
  <2>4. \A u \in T : u <= c
    BY <1>2, <1>3, <2>3
  <2>5. b <= c
    BY <1>1, <2>4
  <2> QED
    BY <1>2, <2>3, <2>5
<1> QED
  BY <1>2, <1>3

TimesIn(r) == {r[i] : i \in DOMAIN r}

(* The times of a sorted sequence.                                          *)
LEMMA TimesOf ==
    ASSUME NEW r, Ordered(r)
    PROVE  /\ TimesIn(r) \subseteq Times /\ TimesIn(r) \subseteq Nat
           /\ \E bound \in Nat : \A t \in TimesIn(r) : t <= bound
           /\ Len(r) # 0 => TimesIn(r) # {}
           /\ \A t \in Nat : UpTo(r, t) \in Nat
           /\ \A t \in Nat : (\A u \in TimesIn(r) : u <= t) => UpTo(r, t) = Len(r)
           /\ Len(r) \in Nat
<1>1. /\ Len(r) \in Nat /\ DOMAIN r = 1..Len(r)
      /\ \A i \in DOMAIN r : r[i] \in Times /\ r[i] \in Nat
  BY LenProperties, ElementOfSeq DEF Ordered, Times
<1>2. PICK n \in Nat : n = Len(r)
  BY <1>1
<1>3. n # 0 => n \in DOMAIN r /\ TimesIn(r) # {}
  BY <1>1, <1>2 DEF TimesIn
<1>4. n # 0 => r[n] \in Nat /\ \A i \in DOMAIN r : r[i] <= r[n]
  <2> HAVE n # 0
  <2> SUFFICES ASSUME NEW i \in DOMAIN r PROVE r[i] <= r[n]
    BY <1>1, <1>3
  <2>1. r[n] \in Nat /\ r[i] \in Nat /\ n \in DOMAIN r /\ (i = n \/ i < n)
    BY <1>1, <1>2, <1>3
  <2> QED
    BY <2>1 DEF Ordered, Sorted
<1>5. n = 0 => \A i \in DOMAIN r : r[i] <= 0
  BY <1>1, <1>2
<1>6. \E bound \in Nat : \A t \in TimesIn(r) : t <= bound
  <2>1. CASE n = 0
    BY <1>5, <2>1 DEF TimesIn
  <2>2. CASE n # 0
    BY <1>4, <2>2 DEF TimesIn
  <2> QED
    BY <2>1, <2>2
<1>7. \A t \in Nat : UpTo(r, t) \in Nat
  <2>1. r \in Seq(Times)
    BY DEF Ordered
  <2> QED
    BY <1>1, <2>1, UpToGrows
<1>8. \A t \in Nat : (\A u \in TimesIn(r) : u <= t) => UpTo(r, t) = Len(r)
  BY UpToGrows DEF Ordered, TimesIn
<1> QED
  BY <1>1, <1>2, <1>3, <1>6, <1>7, <1>8 DEF TimesIn

(* Two sorted sequences in one: the k-th time is the first by which k came. *)
LEMMA InOrderIs ==
    ASSUME NEW r, Ordered(r), NEW s, Ordered(s)
    PROVE  /\ Ordered(InOrder(r, s)) /\ Len(InOrder(r, s)) = Len(r) + Len(s)
           /\ \A k \in 1..Len(r) + Len(s) :
                 LET o == InOrder(r, s)[k]
                 IN  /\ o \in TimesIn(r) \union TimesIn(s) /\ UpTo(r, o) + UpTo(s, o) >= k
                     /\ \A t \in TimesIn(r) \union TimesIn(s) :
                           UpTo(r, t) + UpTo(s, t) >= k => o <= t
<1> DEFINE times == TimesIn(r) \union TimesIn(s)
           By(k) == {t \in times : UpTo(r, t) + UpTo(s, t) >= k}
           o == [k \in 1..Len(r) + Len(s) |-> Min(By(k))]
<1>1. PICK n \in Nat : n = Len(r) + Len(s)
  BY TimesOf
<1>2. times \subseteq Times /\ times \subseteq Nat
  BY TimesOf
<1>3. \A t \in Nat : UpTo(r, t) \in Nat /\ UpTo(s, t) \in Nat
  BY TimesOf
<1>4. ASSUME n # 0 PROVE \E t \in times : UpTo(r, t) + UpTo(s, t) = n
  <2>1. PICK b \in Nat : \A t \in TimesIn(r) : t <= b
    BY TimesOf
  <2>2. PICK c \in Nat : \A t \in TimesIn(s) : t <= c
    BY TimesOf
  <2>3. PICK d \in Nat : b <= d /\ c <= d
    BY <2>1, <2>2
  <2>4. \A u \in times : u <= d
    BY <1>2, <2>1, <2>2, <2>3
  <2>5. times # {}
    <3>1. Len(r) # 0 \/ Len(s) # 0
      BY <1>1, <1>4
    <3> QED
      BY <3>1, TimesOf
  <2>6. PICK t \in times : \A u \in times : u <= t
    <3> HIDE DEF times
    <3> QED
      BY <1>2, <2>4, <2>5, GreatestNatural
  <2>7. t \in Nat /\ (\A u \in TimesIn(r) : u <= t) /\ (\A u \in TimesIn(s) : u <= t)
    BY <1>2, <2>6
  <2>8. UpTo(r, t) = Len(r) /\ UpTo(s, t) = Len(s)
    BY <2>7, TimesOf
  <2> QED
    BY <1>1, <2>6, <2>8
<1>5. ASSUME NEW k \in 1..n
      PROVE  o[k] \in By(k) /\ \A t \in By(k) : o[k] <= t
  <2>1. By(k) \subseteq Nat /\ By(k) # {}
    <3>1. PICK t \in times : UpTo(r, t) + UpTo(s, t) = n
      BY <1>4
    <3>2. n >= k
      OBVIOUS
    <3> HIDE DEF times
    <3> QED
      BY <1>2, <3>1, <3>2
  <2>2. o[k] = Min(By(k))
    BY <1>1
  <2> HIDE DEF By, o
  <2>3. \E x \in By(k) : \A y \in By(k) : x <= y
    BY <2>1, LeastNatural
  <2> QED
    BY <2>2, <2>3 DEF Min
<1>6. \A k \in 1..n : o[k] \in Times
  BY <1>2, <1>5
<1>7. o \in [1..n -> Times] /\ DOMAIN o = 1..n
  <2>1. DOMAIN o = 1..n /\ o = [k \in 1..n |-> o[k]]
    BY <1>1
  <2> HIDE DEF o
  <2> QED
    BY <1>6, <2>1
<1> HIDE DEF o
<1>8. o \in Seq(Times) /\ Len(o) = n
  BY <1>7
<1>9. Sorted(o)
  <2> SUFFICES ASSUME NEW i \in 1..n, NEW j \in 1..n, i < j PROVE o[i] <= o[j]
    BY <1>7 DEF Sorted
  <2>1. o[j] \in times /\ UpTo(r, o[j]) + UpTo(s, o[j]) >= j
    BY <1>5
  <2>2. PICK come \in Nat : come = UpTo(r, o[j]) + UpTo(s, o[j])
    <3>1. o[j] \in Nat
      BY <1>2, <2>1
    <3>2. UpTo(r, o[j]) \in Nat /\ UpTo(s, o[j]) \in Nat
      BY <1>3, <3>1
    <3> QED
      BY <3>2
  <2>3. o[j] \in By(i)
    BY <2>1, <2>2
  <2> HIDE DEF By
  <2> QED
    BY <1>5, <2>3
<1>10. InOrder(r, s) = o
  BY DEF InOrder, o, TimesIn
<1>11. \A k \in 1..n : /\ o[k] \in times /\ UpTo(r, o[k]) + UpTo(s, o[k]) >= k
                       /\ \A t \in times : UpTo(r, t) + UpTo(s, t) >= k => o[k] <= t
  BY <1>5
<1> HIDE DEF By
<1> QED
  BY <1>1, <1>8, <1>9, <1>10, <1>11 DEF Ordered

(* Two sorted sequences in one are sorted, with all there is in both.       *)
LEMMA InOrderOrdered ==
    ASSUME NEW r, Ordered(r), NEW s, Ordered(s)
    PROVE  Ordered(InOrder(r, s)) /\ Len(InOrder(r, s)) = Len(r) + Len(s)
BY InOrderIs

-----------------------------------------------------------------------------
(* Games, part by part. *)

FlightRecord == [id : Nat, spawned : Nat, expires : Nat,
                 kind : {"standard", "golden", "mechanical"}, health : Int, reward : Nat,
                 noisy : Nat]
LastRecord == [id : Nat, spawned : Nat, ended : Nat, hit : BOOLEAN]

SoundFlight(g) == ValidFlight(g) /\ g.last.id < g.nextFlight
SoundPlayers(g) == \A n \in DOMAIN g.players : SoundPlayer(g.players[n], g.now)
SoundEffects(g) ==
    /\ \A e \in g.effects :
          /\ ValidEffect(e) /\ e.id < g.nextEffect /\ (e.expires = Never \/ e.expires > g.now)
          /\ e.owner \in DOMAIN g.players \union {Nobody}
          /\ e.source \in DOMAIN g.players \union {Nobody}
    /\ \A e, f \in g.effects : e.id = f.id => e = f
SoundCurses(g) ==
    /\ \A c \in g.curses : c.owner \in DOMAIN g.players /\ c.expires > g.now
    /\ \A c, d \in g.curses : c.id = d.id => c = d
SoundCalls(g) ==
    /\ \A c \in g.calls : c.id < g.nextCall /\ c.source \in DOMAIN g.players \union {Nobody}
    /\ \A c, d \in g.calls : c.id = d.id => c = d

(* A window of the channel, or of a command of one of the hunters known.    *)
Belongs(w, known) ==
    IF w.of = Nobody THEN w.command = Whatever ELSE w.of \in known /\ w.command \in DOMAIN Limits
SoundWindow(w) ==
    w \in ThrottleWindow /\ Sorted(w.expires) /\ Len(w.expires) \in 1..MaxExpirations
Twins(v, w) == v.of = w.of /\ v.command = w.command
SoundWindows(windows, known) ==
    /\ \A w \in windows : SoundWindow(w) /\ Belongs(w, known)
    /\ \A v, w \in windows : Twins(v, w) => v = w
AllFit(windows) == \A w \in windows : Fits(w)

Typed(g) == DOMAIN g.players \subseteq Hunters /\ g \in GameState(DOMAIN g.players)

Sound(g) ==
    /\ Typed(g) /\ SoundPlayers(g) /\ SoundFlight(g) /\ SoundEffects(g) /\ SoundCurses(g)
    /\ SoundCalls(g) /\ ValidTransfers(g) /\ SoundWindows(g.windows, DOMAIN g.players)
    /\ g.lastShooter \in DOMAIN g.players \union {Nobody}

(* The model classes accept a sound game.                                   *)
LEMMA SoundIsValid ==
    ASSUME NEW g, Sound(g) PROVE ValidGame(g) /\ ValidWindows(g)
<1>1. \A n \in DOMAIN g.players : ValidPlayer(g.players[n])
  BY DEF Sound, SoundPlayers, SoundPlayer
<1>2. ValidBelongings(g)
  BY DEF ValidBelongings, Sound, SoundEffects, SoundCurses, SoundCalls, Known
<1>3. ValidWindows(g)
  BY DEF ValidWindows, Sound, SoundWindows, SoundWindow, Twins
<1> QED
  BY <1>1, <1>2, <1>3 DEF ValidGame, Sound, SoundFlight, Known

(* Every game a process may start from is sound.                            *)
LEMMA PlayableIsSound ==
    ASSUME NEW g, Playable(g) PROVE Sound(g) /\ AllFit(g.windows)
<1>1. Typed(g) /\ ValidGame(g) /\ g \in GameState(DOMAIN g.players) /\ ValidWindows(g)
  BY DEF Playable, Typed
<1>2. SoundPlayers(g)
  <2>1. \A n \in DOMAIN g.players : g.players[n] \in PlayerState
    BY <1>1 DEF GameState
  <2> QED
    BY <2>1 DEF SoundPlayers, SoundPlayer, Playable, ValidGame
<1>3. SoundEffects(g) /\ SoundCurses(g) /\ SoundCalls(g)
  BY <1>1 DEF SoundEffects, SoundCurses, SoundCalls, ValidGame, ValidBelongings, Known
<1>4. SoundWindows(g.windows, DOMAIN g.players) /\ AllFit(g.windows)
  <2>1. \A w \in g.windows : w \in ThrottleWindow
    BY <1>1 DEF GameState
  <2>2. \A w \in g.windows : Belongs(w, DOMAIN g.players) /\ Fits(w)
    BY DEF Playable, Belongs, Known
  <2> QED
    BY <1>1, <2>1, <2>2 DEF SoundWindows, SoundWindow, ValidWindows, AllFit, Twins
<1> QED
  BY <1>1, <1>2, <1>3, <1>4 DEF Playable, Sound, SoundFlight, ValidGame, Known

(* No hunter goes by the name of Nobody.                                    *)
LEMMA NobodyHunts == \A n \in Hunters : n # Nobody
BY ProfileConstants

(* What is in the sky of a sound game.                                      *)
LEMMA SkyIs ==
    ASSUME NEW g, Sound(g)
    PROVE  /\ g.flight \in FlightRecord /\ g.last \in LastRecord /\ g.now \in Nat
           /\ g.nextFlight \in Nat /\ SoundFlight(g) /\ NoFlight \in FlightRecord
<1>1. NoFlight \in FlightRecord
  <2>1. PICK none \in Nat, hurt \in Int, kind \in {"standard", "golden", "mechanical"} :
           none = 0 /\ hurt = 0 /\ kind = "standard"
    OBVIOUS
  <2>2. NoFlight = [id |-> none, spawned |-> none, expires |-> none, kind |-> kind,
                    health |-> hurt, reward |-> none, noisy |-> none]
    BY <2>1 DEF NoFlight
  <2> QED
    BY <2>2 DEF FlightRecord
<1>2. g \in GameState(DOMAIN g.players) /\ SoundFlight(g)
  BY DEF Sound, Typed
<1> QED
  BY <1>1, <1>2 DEF GameState, FlightRecord, LastRecord

(* What a game keeps while its transfers or windows change. *)
SameGame(g, h) ==
    /\ h.players = g.players /\ h.now = g.now /\ h.lastShooter = g.lastShooter
    /\ h.flight = g.flight /\ h.last = g.last /\ h.nextFlight = g.nextFlight
    /\ h.effects = g.effects /\ h.nextEffect = g.nextEffect
    /\ h.curses = g.curses /\ h.nextCurse = g.nextCurse
    /\ h.calls = g.calls /\ h.nextCall = g.nextCall

(* Sound transfers and windows are all a game needs to stay sound.          *)
LEMMA SameGameSound ==
    ASSUME NEW g, Sound(g), NEW h, SameGame(g, h), h \in GameState(DOMAIN h.players),
           ValidTransfers(h), SoundWindows(h.windows, DOMAIN g.players)
    PROVE  Sound(h)
<1>1. Typed(h)
  BY DEF Sound, Typed, SameGame
<1>2. SoundPlayers(h) /\ SoundFlight(h)
  BY DEF Sound, SameGame, SoundPlayers, SoundFlight, ValidFlight, LastInTime,
         Flying
<1>3. SoundEffects(h) /\ SoundCurses(h) /\ SoundCalls(h)
  BY DEF Sound, SameGame, SoundEffects, SoundCurses, SoundCalls
<1> QED
  BY <1>1, <1>2, <1>3 DEF Sound, SameGame

(* Other transfers.                                                         *)
LEMMA TransfersSound ==
    ASSUME NEW g, Sound(g), NEW T \in SUBSET PendingTransfer,
           \A x, y \in T : x.to = y.to => x = y,
           \A x \in T : x.from # x.to /\ x.expires > g.now
    PROVE  LET h == [g EXCEPT !.transfers = T]
           IN  Sound(h) /\ SameGame(g, h) /\ h.windows = g.windows /\ h.transfers = T
<1> DEFINE h == [g EXCEPT !.transfers = T]
           D == DOMAIN g.players
<1>1. g \in GameState(D)
  BY DEF Sound, Typed
<1> HIDE DEF D, h
<1>2. SameGame(g, h) /\ h.transfers = T /\ h.windows = g.windows
  BY <1>1 DEF GameState, SameGame, h
<1>3. h \in GameState(D)
  BY <1>1 DEF GameState, h
<1>4. ValidTransfers(h)
  BY <1>2 DEF ValidTransfers, SameGame
<1>5. Sound(h)
  BY <1>2, <1>3, <1>4, SameGameSound DEF Sound, SameGame, D
<1> QED
  BY <1>2, <1>5 DEF h

(* Other windows.                                                           *)
LEMMA WindowsSound ==
    ASSUME NEW g, Sound(g), NEW W, SoundWindows(W, DOMAIN g.players)
    PROVE  LET h == [g EXCEPT !.windows = W]
           IN  Sound(h) /\ SameGame(g, h) /\ h.windows = W /\ h.transfers = g.transfers
<1> DEFINE h == [g EXCEPT !.windows = W]
           D == DOMAIN g.players
<1>1. g \in GameState(D) /\ W \in SUBSET ThrottleWindow
  BY DEF Sound, Typed, SoundWindows, SoundWindow
<1> HIDE DEF D, h
<1>2. SameGame(g, h) /\ h.transfers = g.transfers /\ h.windows = W
  BY <1>1 DEF GameState, SameGame, h
<1>3. h \in GameState(D)
  BY <1>1 DEF GameState, h
<1>4. ValidTransfers(h)
  BY <1>2 DEF Sound, ValidTransfers, SameGame
<1>5. Sound(h)
  BY <1>2, <1>3, <1>4, SameGameSound DEF SameGame, D
<1> QED
  BY <1>2, <1>5 DEF h

(* A sound profile in the place of another, or of none. *)
LEMMA WithPlayerSound ==
    ASSUME NEW g, Sound(g), NEW n \in Hunters, NEW q, SoundPlayer(q, g.now)
    PROVE  LET h == WithPlayer(g, n, q)
           IN  /\ Sound(h) /\ h.now = g.now /\ h.windows = g.windows
               /\ DOMAIN h.players = DOMAIN g.players \union {n}
               /\ h.players[n] = q /\ \A m \in DOMAIN g.players \ {n} : h.players[m] = g.players[m]
<1> DEFINE D == DOMAIN g.players
           F == [m \in D \union {n} |-> IF m = n THEN q ELSE g.players[m]]
           h == WithPlayer(g, n, q)
<1>1. /\ g \in GameState(D) /\ D \subseteq Hunters /\ g.players \in [D -> PlayerState]
      /\ q \in PlayerState
  BY DEF Sound, Typed, GameState, SoundPlayer
<1>2. h = [g EXCEPT !.players = F]
  BY <1>1 DEF WithPlayer, GameState
<1>3. F \in [D \union {n} -> PlayerState]
  BY <1>1
<1>4. DOMAIN F = D \union {n} /\ F[n] = q /\ \A m \in D \ {n} : F[m] = g.players[m]
  OBVIOUS
<1> HIDE DEF F, h, D
<1>5. h \in GameState(D \union {n}) /\ h.players = F
  BY <1>1, <1>2, <1>3 DEF GameState
<1>6. /\ h.now = g.now /\ h.lastShooter = g.lastShooter
      /\ h.flight = g.flight /\ h.last = g.last /\ h.nextFlight = g.nextFlight
      /\ h.effects = g.effects /\ h.nextEffect = g.nextEffect /\ h.curses = g.curses
      /\ h.calls = g.calls /\ h.nextCall = g.nextCall /\ h.transfers = g.transfers
      /\ h.windows = g.windows
  BY <1>1, <1>2 DEF GameState
<1>7. Typed(h) /\ DOMAIN h.players = D \union {n}
  BY <1>1, <1>4, <1>5 DEF Typed
<1>8. SoundPlayers(h)
  BY <1>4, <1>5, <1>6, <1>7 DEF Sound, SoundPlayers, D
<1>9. SoundFlight(h) /\ ValidTransfers(h)
  BY <1>6 DEF Sound, SoundFlight, ValidFlight, LastInTime, Flying, ValidTransfers
<1>10. SoundEffects(h) /\ SoundCurses(h) /\ SoundCalls(h)
  BY <1>6, <1>7 DEF Sound, SoundEffects, SoundCurses, SoundCalls, D
<1>11. SoundWindows(h.windows, DOMAIN h.players) /\ h.lastShooter \in DOMAIN h.players \union {Nobody}
  BY <1>6, <1>7 DEF Sound, SoundWindows, Belongs, D
<1>12. Sound(h)
  BY <1>7, <1>8, <1>9, <1>10, <1>11 DEF Sound
<1> QED
  BY <1>4, <1>5, <1>6, <1>7, <1>12 DEF h, D

-----------------------------------------------------------------------------
(* Time, and the windows it empties. *)

(* Time passes over a sound game.                                           *)
LEMMA AdvanceSound ==
    ASSUME NEW g, Sound(g), NEW t \in Nat, g.now <= t
    PROVE  LET h == Advance(g, t)
           IN  /\ Sound(h) /\ h.now = t /\ DOMAIN h.players = DOMAIN g.players
               /\ h.windows = g.windows
               /\ \A n \in DOMAIN g.players : Ages(g.players[n], h.players[n], t)
<1> DEFINE h == Advance(g, t)
           D == DOMAIN g.players
           over == Flying(g) /\ g.flight.expires <= t
           flight == IF over THEN NoFlight ELSE g.flight
           ended == [id |-> g.flight.id, spawned |-> g.flight.spawned,
                     ended |-> g.flight.expires, hit |-> FALSE]
           last == IF over THEN ended ELSE g.last
           Worn(n) == {e \in Expired(g, t) : e.owner = n /\ e.item = 28}
           Aged(n) == WearOff(NewDay(DecayKarma(g.players[n], t), t), Worn(n))
           players == [n \in D |-> Aged(n)]
           effects == g.effects \ Expired(g, t)
           curses == {c \in g.curses : t < c.expires}
           transfers == {x \in g.transfers : t < x.expires}
<1>1. /\ g \in GameState(D) /\ D \subseteq Hunters /\ SoundFlight(g) /\ g.nextFlight \in Nat
      /\ g.now \in Nat /\ g.last \in LastRecord /\ g.flight \in FlightRecord
      /\ NoFlight \in FlightRecord
      /\ g.effects \subseteq ActiveEffect /\ g.curses \subseteq ActiveCurse
      /\ g.transfers \subseteq PendingTransfer
  BY SkyIs DEF Sound, Typed, GameState
<1>2. \A n \in D : Ages(g.players[n], Aged(n), t)
  <2> SUFFICES ASSUME NEW n \in D PROVE Ages(g.players[n], Aged(n), t)
    OBVIOUS
  <2>1. \A e \in Worn(n) : e.magnitude \in Nat
    BY <1>1 DEF Expired, ActiveEffect
  <2>2. SoundPlayer(g.players[n], g.now)
    BY DEF Sound, SoundPlayers
  <2> HIDE DEF Worn
  <2> QED
    BY <1>1, <2>1, <2>2, AgesFollows
<1>3. /\ flight \in FlightRecord /\ last \in LastRecord /\ last.ended <= t
      /\ last.id < g.nextFlight /\ (last.id # 0 => last.ended > last.spawned)
      /\ flight # NoFlight => /\ flight.expires > t /\ flight.health >= 1
                              /\ flight.expires > flight.spawned
                              /\ flight.id \in last.id+1..g.nextFlight-1
  <2>1. /\ g.flight.id \in Nat /\ g.flight.expires \in Nat /\ g.last.id \in Nat
        /\ g.last.ended \in Nat /\ g.flight.spawned \in Nat
    BY <1>1 DEF FlightRecord, LastRecord
  <2>2. /\ ended \in LastRecord /\ ended.id = g.flight.id /\ ended.ended = g.flight.expires
        /\ ended.spawned = g.flight.spawned
    BY <2>1 DEF LastRecord
  <2>3. CASE over
    <3>1. g.flight.id < g.nextFlight /\ g.flight.expires > g.flight.spawned
      BY <1>1, <2>1, <2>3 DEF SoundFlight, ValidFlight
    <3>2. flight = NoFlight /\ last = ended
      BY <2>3
    <3> HIDE DEF ended, flight, last
    <3> QED
      BY <1>1, <2>2, <2>3, <3>1, <3>2
  <2>4. CASE ~over
    <3>1. flight = g.flight /\ last = g.last
      BY <2>4
    <3>2. /\ g.last.ended <= t /\ g.last.id < g.nextFlight
          /\ g.last.id # 0 => g.last.ended > g.last.spawned
      BY <1>1, <2>1 DEF SoundFlight, ValidFlight, LastInTime
    <3>3. g.flight # NoFlight => /\ g.flight.expires > t /\ g.flight.health >= 1
                                 /\ g.flight.expires > g.flight.spawned
                                 /\ g.flight.id \in g.last.id+1..g.nextFlight-1
      BY <1>1, <2>1, <2>4 DEF SoundFlight, ValidFlight, Flying
    <3> HIDE DEF flight, last
    <3> QED
      BY <1>1, <3>1, <3>2, <3>3
  <2> QED
    BY <2>3, <2>4
<1>4. /\ effects \subseteq ActiveEffect /\ curses \subseteq ActiveCurse
      /\ transfers \subseteq PendingTransfer
  BY <1>1
<1> HIDE DEF flight, last
<1>5. players \in [D -> PlayerState] /\ DOMAIN players = D /\ \A n \in D : players[n] = Aged(n)
  <2>1. \A n \in D : Aged(n) \in PlayerState
    BY <1>2 DEF Ages, SoundPlayer
  <2> HIDE DEF Aged
  <2> QED
    BY <2>1
<1>6. h = [g EXCEPT !.now = t, !.flight = flight, !.last = last, !.players = players,
                    !.effects = effects, !.curses = curses, !.transfers = transfers]
  BY <1>1 DEF Advance, GameState, flight, last
<1> HIDE DEF h, D, players, effects, curses, transfers
<1>7. /\ h.now = t /\ h.flight = flight /\ h.last = last /\ h.players = players
      /\ h.effects = effects /\ h.curses = curses /\ h.transfers = transfers
      /\ h.nextFlight = g.nextFlight /\ h.lastShooter = g.lastShooter
      /\ h.nextEffect = g.nextEffect /\ h.nextCurse = g.nextCurse
      /\ h.calls = g.calls /\ h.nextCall = g.nextCall /\ h.windows = g.windows
  BY <1>1, <1>6 DEF GameState
<1>8. h \in GameState(D)
  BY <1>1, <1>3, <1>4, <1>5, <1>6 DEF GameState, FlightRecord, LastRecord
<1>9. Typed(h) /\ DOMAIN h.players = D
  BY <1>1, <1>5, <1>7, <1>8 DEF Typed
<1> HIDE DEF Aged
<1>10. \A n \in D : Ages(g.players[n], h.players[n], t)
  BY <1>2, <1>5, <1>7
<1>11. SoundPlayers(h)
  BY <1>7, <1>9, <1>10 DEF SoundPlayers, Ages
<1>12. SoundFlight(h)
  BY <1>1, <1>3, <1>7 DEF SoundFlight, ValidFlight, LastInTime, Flying
<1>13. SoundEffects(h)
  <2>1. \A e \in g.effects : e.expires \in Int
    BY <1>1 DEF ActiveEffect
  <2>2. \A e \in h.effects : e \in g.effects /\ (e.expires = Never \/ e.expires > t)
    BY <1>7, <2>1 DEF effects, Expired
  <2> QED
    BY <1>7, <1>9, <2>2 DEF Sound, SoundEffects, D
<1>14. SoundCurses(h)
  <2>1. \A c \in h.curses : c \in g.curses /\ c.expires > t
    BY <1>1, <1>7 DEF curses, ActiveCurse
  <2> QED
    BY <1>7, <1>9, <2>1 DEF Sound, SoundCurses, D
<1>15. SoundCalls(h) /\ h.lastShooter \in DOMAIN h.players \union {Nobody}
       /\ SoundWindows(h.windows, DOMAIN h.players)
  BY <1>7, <1>9 DEF Sound, SoundCalls, D
<1>16. ValidTransfers(h)
  <2>1. \A x \in h.transfers : x \in g.transfers /\ x.expires > t
    BY <1>1, <1>7 DEF transfers, PendingTransfer
  <2> QED
    BY <1>7, <2>1 DEF Sound, ValidTransfers
<1> QED
  BY <1>7, <1>9, <1>10, <1>11, <1>12, <1>13, <1>14, <1>15, <1>16 DEF Sound, h, D

(* The limits, as the constants give them.                                  *)
LEMMA LimitsAre ==
    /\ MaxExpirations \in Nat
    /\ ChannelLimit.maximum \in Nat \ {0} /\ ChannelLimit.maximum <= MaxExpirations
    /\ ChannelLimit.seconds \in Nat \ {0}
    /\ \A c \in DOMAIN Limits : /\ Limits[c].maximum \in Nat \ {0}
                                /\ Limits[c].maximum <= MaxExpirations
                                /\ Limits[c].seconds \in Nat \ {0}
<1>1. MaxExpirations \in Nat
  BY DEF MaxExpirations
<1>2. \A l \in {Limits[c] : c \in DOMAIN Limits} \union {ChannelLimit} :
         l.maximum \in 1..MaxExpirations /\ l.seconds \in Nat \ {0}
  BY IdentityConstants
<1>3. \A m \in 1..MaxExpirations : m \in Nat \ {0} /\ m <= MaxExpirations
  BY <1>1
<1> QED
  BY <1>1, <1>2, <1>3

(* The commands that are no longer counted leave a window, or all of it.    *)
LEMMA PruneSound ==
    ASSUME NEW g, Sound(g)
    PROVE  /\ Sound(Prune(g)) /\ SameGame(g, Prune(g))
           /\ AllFit(g.windows) => AllFit(Prune(g).windows)
<1> DEFINE later(w) == SubSeq(w.expires, UpTo(w.expires, g.now) + 1, Len(w.expires))
           pruned(w) == [w EXCEPT !.expires = later(w),
                                  !.notice = IF Len(later(w)) >= LimitOf(w).maximum THEN @ ELSE 0]
           kept == {v \in g.windows : later(v) # <<>>}
           W == {pruned(w) : w \in kept}
<1>1. g.now \in Nat /\ SoundWindows(g.windows, DOMAIN g.players) /\ "windows" \in DOMAIN g
  BY DEF Sound, Typed, GameState
<1>2. ASSUME NEW w \in kept
      PROVE  /\ SoundWindow(pruned(w)) /\ Twins(w, pruned(w))
             /\ Fits(w) => Fits(pruned(w))
  <2>1. SoundWindow(w) /\ Belongs(w, DOMAIN g.players) /\ Ordered(w.expires)
        /\ w \in ThrottleWindow
    <3>1. SoundWindow(w) /\ Belongs(w, DOMAIN g.players)
      BY <1>1 DEF SoundWindows
    <3> QED
      BY <3>1 DEF SoundWindow, ThrottleWindow, Ordered, Times
  <2>2. Ordered(later(w)) /\ Len(later(w)) \in 0..Len(w.expires)
    BY <1>1, <2>1, LaterOrdered
  <2>3. PICK n \in Nat : n = Len(w.expires) /\ n <= MaxExpirations
    BY <2>1, LimitsAre DEF SoundWindow
  <2>4. Len(later(w)) \in 1..MaxExpirations
    <3>1. later(w) # <<>>
      OBVIOUS
    <3>2. later(w) \in Seq(Times)
      BY <2>2 DEF Ordered
    <3> HIDE DEF later
    <3>3. Len(later(w)) # 0
      BY <3>1, <3>2, EmptySeq
    <3> QED
      BY <2>2, <2>3, <3>3, LimitsAre
  <2>5. PICK notice \in Nat :
           pruned(w) = [w EXCEPT !.expires = later(w), !.notice = notice]
    <3>1. w.notice \in Nat
      BY <2>1 DEF ThrottleWindow
    <3> HIDE DEF later
    <3> QED
      BY <3>1
  <2> DEFINE p == [w EXCEPT !.expires = later(w), !.notice = notice]
  <2>6. /\ p \in ThrottleWindow /\ p.of = w.of /\ p.command = w.command
        /\ p.expires = later(w)
    <3> HIDE DEF later
    <3> QED
      BY <2>1, <2>2 DEF ThrottleWindow, Ordered, Times
  <2> HIDE DEF p, later
  <2>7. LimitOf(p) = LimitOf(w)
    BY <2>6 DEF LimitOf
  <2>8. Fits(w) => Fits(p)
    <3>1. w.of = Nobody \/ w.command \in DOMAIN Limits
      BY <2>1 DEF Belongs
    <3>2. LimitOf(w).maximum \in Nat
      BY <3>1, LimitsAre DEF LimitOf
    <3> QED
      BY <2>2, <2>3, <2>6, <2>7, <3>2 DEF Fits
  <2> HIDE DEF pruned
  <2>9. pruned(w) = p
    BY <2>5 DEF p
  <2> QED
    BY <2>2, <2>4, <2>6, <2>8, <2>9 DEF SoundWindow, Ordered, Twins
<1>3. Prune(g) = [g EXCEPT !.windows = W]
  BY <1>1 DEF Prune
<1> HIDE DEF pruned, later
<1>4. SoundWindows(W, DOMAIN g.players)
  <2>1. ASSUME NEW v \in W PROVE SoundWindow(v) /\ Belongs(v, DOMAIN g.players)
    <3>1. PICK w \in kept : v = pruned(w)
      OBVIOUS
    <3>2. Belongs(w, DOMAIN g.players)
      BY <1>1 DEF SoundWindows
    <3> QED
      BY <1>2, <3>1, <3>2 DEF Twins, Belongs
  <2>2. ASSUME NEW v \in W, NEW w \in W, Twins(v, w) PROVE v = w
    <3>1. PICK x \in kept, y \in kept : v = pruned(x) /\ w = pruned(y)
      OBVIOUS
    <3>2. Twins(x, y)
      BY <1>2, <2>2, <3>1 DEF Twins
    <3> QED
      BY <1>1, <3>1, <3>2 DEF SoundWindows
  <2> QED
    BY <2>1, <2>2 DEF SoundWindows
<1>5. AllFit(g.windows) => AllFit(W)
  BY <1>2 DEF AllFit
<1> HIDE DEF W
<1> QED
  BY <1>3, <1>4, <1>5, WindowsSound

(* A window in the place of the one it is a twin of.                        *)
LEMMA ReplaceSound ==
    ASSUME NEW g, Sound(g), NEW w, SoundWindow(w), Belongs(w, DOMAIN g.players)
    PROVE  /\ Sound(Replace(g, w)) /\ SameGame(g, Replace(g, w))
           /\ Replace(g, w).windows = (g.windows \ Window(g, w.of, w.command)) \union {w}
           /\ AllFit(g.windows) /\ Fits(w) => AllFit(Replace(g, w).windows)
<1> DEFINE W == (g.windows \ Window(g, w.of, w.command)) \union {w}
<1>1. SoundWindows(g.windows, DOMAIN g.players) /\ "windows" \in DOMAIN g
  BY DEF Sound, Typed, GameState
<1>2. SoundWindows(W, DOMAIN g.players)
  BY <1>1 DEF SoundWindows, Twins, Window
<1>3. Replace(g, w) = [g EXCEPT !.windows = W]
  BY <1>1 DEF Replace
<1>4. AllFit(g.windows) /\ Fits(w) => AllFit(W)
  BY DEF AllFit
<1> HIDE DEF W
<1>5. Sound(Replace(g, w)) /\ SameGame(g, Replace(g, w)) /\ Replace(g, w).windows = W
  BY <1>2, <1>3, WindowsSound
<1> QED
  BY <1>4, <1>5 DEF W

-----------------------------------------------------------------------------
(* Admissions and refusals. *)

(* Nothing is sorted, and so is a single time.                              *)
LEMMA ShortOrdered ==
    /\ Ordered(<<>>) /\ Len(<<>>) = 0
    /\ \A t \in Times : Ordered(<<t>>) /\ Len(<<t>>) = 1
<1>1. Ordered(<<>>) /\ Len(<<>>) = 0
  BY EmptySeq DEF Ordered, Sorted
<1>2. ASSUME NEW t \in Times PROVE Ordered(<<t>>) /\ Len(<<t>>) = 1
  <2>1. <<t>> \in Seq(Times) /\ Len(<<t>>) = 1 /\ DOMAIN <<t>> = 1..1
    OBVIOUS
  <2>2. Sorted(<<t>>)
    BY <2>1 DEF Sorted
  <2> QED
    BY <2>1, <2>2 DEF Ordered
<1> QED
  BY <1>1, <1>2

Open(g, n, c) == \A w \in Window(g, n, c) : ~IsFull(w)

(* A command counted where there is room for it.                            *)
LEMMA CountsOnce ==
    ASSUME NEW g, Sound(g), NEW n, NEW c, NEW limit, Open(g, n, c),
           \/ n = Nobody /\ c = Whatever /\ limit = ChannelLimit
           \/ n \in DOMAIN g.players /\ c \in DOMAIN Limits /\ limit = Limits[c]
    PROVE  LET h == Count(g, n, c, limit)
           IN  /\ Sound(h) /\ SameGame(g, h) /\ (AllFit(g.windows) => AllFit(h.windows))
               /\ \A m, d : ~(m = n /\ d = c) => Window(h, m, d) = Window(g, m, d)
               /\ Expirations(h, n, c)
                    = InOrder(Expirations(g, n, c), <<g.now + limit.seconds>>)
<1> DEFINE old == {w.expires : w \in Window(g, n, c)}
           expires == IF old = {} THEN <<>> ELSE CHOOSE x \in old : TRUE
           added == InOrder(expires, <<g.now + limit.seconds>>)
           window == [of |-> n, command |-> c, notice |-> 0, expires |-> added]
           h == Count(g, n, c, limit)
<1>1. /\ g.now \in Nat /\ SoundWindows(g.windows, DOMAIN g.players) /\ "windows" \in DOMAIN g
      /\ DOMAIN g.players \subseteq Hunters
  BY DEF Sound, Typed, GameState
<1>2. /\ limit.maximum \in Nat \ {0} /\ limit.maximum <= MaxExpirations
      /\ limit.seconds \in Nat \ {0} /\ MaxExpirations \in Nat
      /\ \A w : w.of = n /\ w.command = c => LimitOf(w) = limit
      /\ \A w : w.of = n /\ w.command = c => Belongs(w, DOMAIN g.players)
      /\ n \in Hunters \union {Nobody} /\ c \in Commands \union {Whatever}
  <2>1. limit.maximum \in Nat \ {0} /\ limit.maximum <= MaxExpirations
        /\ limit.seconds \in Nat \ {0} /\ MaxExpirations \in Nat
    BY LimitsAre
  <2>2. /\ \A w : w.of = n /\ w.command = c => LimitOf(w) = limit
        /\ \A w : w.of = n /\ w.command = c => Belongs(w, DOMAIN g.players)
    BY <1>1, NobodyHunts DEF LimitOf, Belongs
  <2>3. n \in Hunters \union {Nobody} /\ c \in Commands \union {Whatever}
    BY <1>1, IdentityConstants
  <2> QED
    BY <2>1, <2>2, <2>3
<1>3. Ordered(expires) /\ Len(expires) \in Nat /\ Len(expires) < limit.maximum
  <2>1. CASE old = {}
    <3>1. expires = <<>>
      BY <2>1
    <3> HIDE DEF expires
    <3> QED
      BY <1>2, <3>1, ShortOrdered
  <2>2. CASE old # {}
    <3>1. PICK w \in Window(g, n, c) : expires = w.expires
      BY <2>2
    <3>2. /\ SoundWindow(w) /\ w \in ThrottleWindow /\ w.of = n /\ w.command = c
          /\ ~IsFull(w)
      BY <1>1, <3>1 DEF Window, SoundWindows, SoundWindow, Open
    <3>3. Ordered(w.expires) /\ Len(w.expires) \in Nat
      BY <3>2, LenProperties DEF SoundWindow, ThrottleWindow, Ordered, Times
    <3>4. ~(Len(w.expires) >= limit.maximum)
      BY <1>2, <3>2 DEF IsFull
    <3> HIDE DEF expires
    <3> QED
      BY <1>2, <3>1, <3>3, <3>4
  <2> QED
    BY <2>1, <2>2
<1> HIDE DEF expires
<1>4. Ordered(added) /\ Len(added) \in 1..MaxExpirations /\ Len(added) <= limit.maximum
  <2>1. PICK t \in Times : t = g.now + limit.seconds
    BY <1>1, <1>2 DEF Times
  <2>2. Ordered(InOrder(expires, <<t>>)) /\ Len(InOrder(expires, <<t>>)) = Len(expires) + 1
    <3>1. Ordered(<<t>>) /\ Len(<<t>>) = 1
      BY ShortOrdered
    <3> QED
      BY <1>3, <3>1, InOrderOrdered
  <2> QED
    BY <1>2, <1>3, <2>1, <2>2
<1> HIDE DEF added
<1>5. /\ window.of = n /\ window.command = c /\ window.expires = added
      /\ window \in ThrottleWindow
  BY <1>2, <1>4 DEF ThrottleWindow, Ordered, Times
<1> HIDE DEF window
<1>6. SoundWindow(window) /\ Belongs(window, DOMAIN g.players) /\ Fits(window)
  BY <1>2, <1>4, <1>5 DEF SoundWindow, Ordered, Fits
<1>7. h = Replace(g, window)
  BY DEF Count, Expirations, window, added, expires
<1> HIDE DEF h
<1>8. /\ Sound(h) /\ SameGame(g, h) /\ (AllFit(g.windows) => AllFit(h.windows))
      /\ h.windows = (g.windows \ Window(g, n, c)) \union {window}
  BY <1>5, <1>6, <1>7, ReplaceSound
<1>9. \A m, d : ~(m = n /\ d = c) => Window(h, m, d) = Window(g, m, d)
  BY <1>5, <1>8 DEF Window
<1>10. Expirations(h, n, c) = added
  <2>1. Window(h, n, c) = {window}
    BY <1>5, <1>8 DEF Window
  <2> QED
    BY <1>5, <2>1 DEF Expirations
<1>11. added = InOrder(Expirations(g, n, c), <<g.now + limit.seconds>>)
  BY DEF added, expires, Expirations
<1> QED
  BY <1>8, <1>9, <1>10, <1>11 DEF h

(* A command counted leaves a sound game.                                   *)
LEMMA CountSound ==
    ASSUME NEW g, Sound(g), NEW n, NEW c, NEW limit, Open(g, n, c),
           \/ n = Nobody /\ c = Whatever /\ limit = ChannelLimit
           \/ n \in DOMAIN g.players /\ c \in DOMAIN Limits /\ limit = Limits[c]
    PROVE  LET h == Count(g, n, c, limit)
           IN  /\ Sound(h) /\ SameGame(g, h) /\ (AllFit(g.windows) => AllFit(h.windows))
               /\ \A m, d : ~(m = n /\ d = c) => Window(h, m, d) = Window(g, m, d)
<1>1. LET h == Count(g, n, c, limit)
      IN  /\ Sound(h) /\ SameGame(g, h) /\ (AllFit(g.windows) => AllFit(h.windows))
          /\ \A m, d : ~(m = n /\ d = c) => Window(h, m, d) = Window(g, m, d)
          /\ Expirations(h, n, c) = InOrder(Expirations(g, n, c), <<g.now + limit.seconds>>)
  BY CountsOnce
<1> QED
  BY <1>1

(* Counting a command changes the windows only, and only they decide how.   *)
LEMMA CountIs ==
    ASSUME NEW g, NEW n, NEW c, NEW limit, "windows" \in DOMAIN g,
           NEW k, "windows" \in DOMAIN k, k.windows = g.windows, k.now = g.now
    PROVE  \E W : /\ Count(g, n, c, limit) = [g EXCEPT !.windows = W]
                 /\ Count(k, n, c, limit) = [k EXCEPT !.windows = W]
<1> DEFINE own == {w \in g.windows : w.of = n /\ w.command = c}
           old == {w.expires : w \in own}
           expires == IF old = {} THEN <<>> ELSE CHOOSE x \in old : TRUE
           w == [of |-> n, command |-> c, notice |-> 0,
                 expires |-> InOrder(expires, <<g.now + limit.seconds>>)]
           W == (g.windows \ own) \union {w}
<1>1. Window(g, n, c) = own /\ Window(k, n, c) = own
  BY DEF Window
<1>2. w.of = n /\ w.command = c
  OBVIOUS
<1>3. Count(g, n, c, limit) = Replace(g, w) /\ Count(k, n, c, limit) = Replace(k, w)
  BY <1>1 DEF Count, Expirations
<1> HIDE DEF w, own
<1>4. Replace(g, w) = [g EXCEPT !.windows = W] /\ Replace(k, w) = [k EXCEPT !.windows = W]
  BY <1>1, <1>2 DEF Replace
<1> QED
  BY <1>3, <1>4

WithWindows(g, W) == [g EXCEPT !.windows = W]

(* An admission looks at nothing but the windows and the time.              *)
LEMMA AdmitIs ==
    ASSUME NEW g, Sound(g), NEW k, Sound(k), k.windows = g.windows, k.now = g.now, NEW n, NEW c
    PROVE  \E W : Admit(g, n, c) = WithWindows(g, W) /\ Admit(k, n, c) = WithWindows(k, W)
<1>1. g \in GameState(DOMAIN g.players) /\ k \in GameState(DOMAIN k.players)
  BY DEF Sound, Typed
<1>2. PICK V : /\ (IF c \in DOMAIN Limits THEN Count(g, n, c, Limits[c]) ELSE g)
                     = [g EXCEPT !.windows = V]
               /\ (IF c \in DOMAIN Limits THEN Count(k, n, c, Limits[c]) ELSE k)
                     = [k EXCEPT !.windows = V]
  <2>1. "windows" \in DOMAIN g /\ "windows" \in DOMAIN k
    BY <1>1 DEF GameState
  <2>2. CASE c \in DOMAIN Limits
    BY <2>1, <2>2, CountIs
  <2>3. CASE c \notin DOMAIN Limits
    <3>1. g = [g EXCEPT !.windows = g.windows] /\ k = [k EXCEPT !.windows = g.windows]
      BY <1>1 DEF GameState
    <3> QED
      BY <2>3, <3>1
  <2> QED
    BY <2>2, <2>3
<1> DEFINE i == [g EXCEPT !.windows = V]
           j == [k EXCEPT !.windows = V]
<1>3. /\ "windows" \in DOMAIN i /\ "windows" \in DOMAIN j /\ j.windows = i.windows
      /\ i.now = j.now
  BY <1>1 DEF GameState
<1>4. PICK W : /\ Count(i, Nobody, Whatever, ChannelLimit) = [i EXCEPT !.windows = W]
               /\ Count(j, Nobody, Whatever, ChannelLimit) = [j EXCEPT !.windows = W]
  <2> HIDE DEF i, j
  <2> QED
    BY <1>3, CountIs
<1>5. [i EXCEPT !.windows = W] = [g EXCEPT !.windows = W]
      /\ [j EXCEPT !.windows = W] = [k EXCEPT !.windows = W]
  BY <1>1 DEF GameState
<1> HIDE DEF i, j
<1>6. Admit(g, n, c) = Count(i, Nobody, Whatever, ChannelLimit)
      /\ Admit(k, n, c) = Count(j, Nobody, Whatever, ChannelLimit)
  BY <1>2 DEF Admit, i, j
<1> QED
  BY <1>4, <1>5, <1>6 DEF WithWindows

(* A command that no window stops is counted by the windows.                *)
LEMMA AdmitSound ==
    ASSUME NEW g, Sound(g), NEW n \in DOMAIN g.players, NEW c, Blocking(g, n, c) = {}
    PROVE  LET h == Admit(g, n, c)
           IN  Sound(h) /\ SameGame(g, h) /\ (AllFit(g.windows) => AllFit(h.windows))
<1> DEFINE own == IF c \in DOMAIN Limits THEN Count(g, n, c, Limits[c]) ELSE g
<1>1. Open(g, n, c) /\ Open(g, Nobody, Whatever)
  BY DEF Blocking, Open
<1>2. n # Nobody
  BY NobodyHunts DEF Sound, Typed
<1>3. /\ Sound(own) /\ SameGame(g, own) /\ (AllFit(g.windows) => AllFit(own.windows))
      /\ Open(own, Nobody, Whatever)
  <2>1. CASE c \in DOMAIN Limits
    <3>1. own = Count(g, n, c, Limits[c])
      BY <2>1
    <3>2. /\ Sound(own) /\ SameGame(g, own) /\ (AllFit(g.windows) => AllFit(own.windows))
          /\ \A m, d : ~(m = n /\ d = c) => Window(own, m, d) = Window(g, m, d)
      <4> HIDE DEF own
      <4> QED
        BY <1>1, <2>1, <3>1, CountSound
    <3> HIDE DEF own
    <3> QED
      BY <1>1, <1>2, <3>2 DEF Open
  <2>2. CASE c \notin DOMAIN Limits
    BY <1>1, <2>2 DEF SameGame
  <2> QED
    BY <2>1, <2>2
<1> HIDE DEF own
<1>4. Admit(g, n, c) = Count(own, Nobody, Whatever, ChannelLimit)
  BY DEF Admit, own
<1>5. LET h == Admit(g, n, c)
      IN  Sound(h) /\ SameGame(own, h) /\ (AllFit(own.windows) => AllFit(h.windows))
  BY <1>3, <1>4, CountSound
<1> QED
  BY <1>3, <1>5 DEF SameGame

(* A window that says so keeps its times.                                   *)
LEMMA RefuseSound ==
    ASSUME NEW g, Sound(g), NEW w \in g.windows
    PROVE  LET h == Refuse(g, w)
           IN  Sound(h) /\ SameGame(g, h) /\ (AllFit(g.windows) => AllFit(h.windows))
<1>1. /\ g.now \in Nat /\ SoundWindow(w) /\ Belongs(w, DOMAIN g.players) /\ w \in ThrottleWindow
  BY DEF Sound, Typed, GameState, SoundWindows, SoundWindow
<1>2. PICK notice \in Nat : notice = g.now + NoticeInterval
  BY <1>1 DEF NoticeInterval
<1> DEFINE v == [w EXCEPT !.notice = notice]
<1>3. v \in ThrottleWindow /\ Twins(v, w) /\ v.expires = w.expires
  <2>1. v \in ThrottleWindow
    BY <1>1 DEF ThrottleWindow
  <2>2. Twins(v, w) /\ v.expires = w.expires
    BY <1>1 DEF ThrottleWindow, Twins
  <2> QED
    BY <2>1, <2>2
<1>4. CASE Noticed(g, w)
  <2>1. Refuse(g, w) = Replace(g, v)
    BY <1>2, <1>4 DEF Refuse
  <2> HIDE DEF v
  <2>2. SoundWindow(v) /\ Belongs(v, DOMAIN g.players) /\ (Fits(w) => Fits(v))
    BY <1>1, <1>3 DEF SoundWindow, Belongs, Twins, Fits, LimitOf
  <2> QED
    BY <2>1, <2>2, ReplaceSound DEF AllFit
<1>5. CASE ~Noticed(g, w)
  BY <1>5 DEF Refuse, SameGame
<1> QED
  BY <1>4, <1>5

-----------------------------------------------------------------------------
(* Pending transfers. *)

(* Some of the transfers of a sound game, and perhaps one more.             *)
LEMMA TransfersOf ==
    ASSUME NEW g, Sound(g), NEW T \in SUBSET g.transfers
    PROVE  LET h == [g EXCEPT !.transfers = T]
           IN  Sound(h) /\ SameGame(g, h) /\ h.windows = g.windows /\ h.transfers = T
<1>1. g.transfers \subseteq PendingTransfer
  BY DEF Sound, Typed, GameState
<1> QED
  BY <1>1, TransfersSound DEF Sound, ValidTransfers

(* A transfer that is cancelled, and one that is settled.                   *)
LEMMA CancelSound ==
    ASSUME NEW g, Sound(g), NEW n
    PROVE  Sound(Cancel(g, n)) /\ Cancel(g, n).windows = g.windows /\ SameGame(g, Cancel(g, n))
<1>1. "transfers" \in DOMAIN g
  BY DEF Sound, Typed, GameState
<1>2. Cancel(g, n) = [g EXCEPT !.transfers = g.transfers \ Pending(g, n)]
  BY <1>1 DEF Cancel
<1> QED
  BY <1>2, TransfersOf

(* A transfer that is settled is not pending any more.                      *)
LEMMA ConsumedSound ==
    ASSUME NEW g, Sound(g), NEW x
    PROVE  LET h == Consumed(g, x)
           IN  Sound(h) /\ SameGame(g, h) /\ h.windows = g.windows /\ h.transfers = g.transfers \ {x}
<1>1. "transfers" \in DOMAIN g
  BY DEF Sound, Typed, GameState
<1>2. Consumed(g, x) = [g EXCEPT !.transfers = g.transfers \ {x}]
  BY <1>1 DEF Consumed
<1> QED
  BY <1>2, TransfersOf

(* A transfer that follows a change of nicknames.                           *)
LEMMA TrackSound ==
    ASSUME NEW g, Sound(g), NEW old \in Hunters, NEW new \in Hunters
    PROVE  Sound(Track(g, old, new)) /\ Track(g, old, new).windows = g.windows
                /\ SameGame(g, Track(g, old, new))
<1> DEFINE inherited == Pending(g, old)
           source == IF inherited = {} THEN old ELSE (CHOOSE x \in inherited : TRUE).from
           rest == g.transfers \ inherited
           noted == inherited # {} \/ Known(g, old) \/ Known(g, new)
           left == [g EXCEPT !.transfers = rest]
           expires == g.now + TransferLife
           T == {x \in rest : x.to # new} \union {[from |-> source, to |-> new, expires |-> expires]}
<1>1. /\ g.now \in Nat /\ g.transfers \subseteq PendingTransfer /\ "transfers" \in DOMAIN g
      /\ ValidTransfers(g)
  BY DEF Sound, Typed, GameState
<1>2. source \in Hunters
  BY <1>1 DEF Pending, PendingTransfer
<1>3. expires \in Nat /\ expires > g.now
  BY <1>1 DEF TransferLife, Hour, Minute
<1> HIDE DEF source, expires
<1>4. Sound(left) /\ left.windows = g.windows /\ SameGame(g, left)
  BY TransfersOf
<1>5. ASSUME source # new
      PROVE  LET h == [g EXCEPT !.transfers = T]
             IN  Sound(h) /\ h.windows = g.windows /\ SameGame(g, h)
  <2>1. T \subseteq PendingTransfer
    BY <1>1, <1>2, <1>3 DEF PendingTransfer
  <2>2. \A x, y \in T : x.to = y.to => x = y
    BY <1>1 DEF ValidTransfers
  <2>3. \A x \in T : x.from # x.to /\ x.expires > g.now
    BY <1>1, <1>3, <1>5 DEF ValidTransfers
  <2> HIDE DEF T
  <2> QED
    BY <2>1, <2>2, <2>3, TransfersSound
<1>6. \/ Track(g, old, new) = left
      \/ source # new /\ Track(g, old, new) = [g EXCEPT !.transfers = T]
  <2>1. Track(g, old, new) = CASE source = new -> left
                               [] source # new /\ noted -> [g EXCEPT !.transfers = T]
                               [] OTHER -> left
    BY <1>1 DEF Track, source, expires
  <2> HIDE DEF left, T, noted
  <2> QED
    BY <2>1
<1> HIDE DEF left, T
<1> QED
  BY <1>4, <1>5, <1>6 DEF T, left

(* A book is sound when its game is, and when its windows fit as long as no *)
(* nickname has inherited those of another.                                 *)
SoundBook(b) == Sound(b.game) /\ (b.merged = {} => AllFit(b.game.windows))

-----------------------------------------------------------------------------
(* Two profiles that become one. *)

(* The level of the merged profile is the one of the experience of both.    *)
LEMMA GrownFollows ==
    ASSUME NEW t \in Nat, NEW p, SoundPlayer(p, t), NEW q, SoundPlayer(q, t)
    PROVE  /\ SoundPlayer(Grown(p, q), t)
           /\ Available(Grown(p, q)) = Available(p) + Available(q)
<1>1. p \in PlayerState /\ q \in PlayerState
  BY DEF SoundPlayer
<1>2. PICK capacity \in Nat \ {0} : capacity = AmmoOf(1) + Most(Bonus(p), Bonus(q))
  <2>1. PICK a \in Nat \ {0} : a = AmmoOf(1)
    BY LevelTables
  <2>2. PICK m \in Nat : m = Most(Bonus(p), Bonus(q))
    <3>1. \A r \in PlayerState : Bonus(r) \in Nat
      <4> SUFFICES ASSUME NEW r \in PlayerState PROVE Bonus(r) \in Nat
        OBVIOUS
      <4>1. r.level \in Nat /\ r.capacity \in Nat
        BY DEF PlayerState
      <4>2. PICK l \in Nat : l = AmmoOf(r.level)
        BY <4>1, LevelTables
      <4> QED
        BY <4>1, <4>2 DEF Bonus, Most
    <3>2. Bonus(p) \in Nat /\ Bonus(q) \in Nat
      BY <1>1, <3>1
    <3> QED
      BY <3>2 DEF Most
  <2> QED
    BY <2>1, <2>2
<1>3. PICK spare \in Nat : spare = MagazinesOf(1) + Most(MagazineBonus(p), MagazineBonus(q))
  <2>1. PICK a \in Nat : a = MagazinesOf(1)
    BY LevelTables
  <2>2. PICK m \in Nat : m = Most(MagazineBonus(p), MagazineBonus(q))
    <3>1. \A r \in PlayerState : MagazineBonus(r) \in Nat
      <4> SUFFICES ASSUME NEW r \in PlayerState PROVE MagazineBonus(r) \in Nat
        OBVIOUS
      <4>1. r.level \in Nat /\ r.magazineCapacity \in Nat
        BY DEF PlayerState
      <4>2. PICK l \in Nat : l = MagazinesOf(r.level)
        BY <4>1, LevelTables
      <4> QED
        BY <4>1, <4>2 DEF MagazineBonus, Most
    <3>2. MagazineBonus(p) \in Nat /\ MagazineBonus(q) \in Nat
      BY <1>1, <3>1
    <3> QED
      BY <3>2 DEF Most
  <2> QED
    BY <2>1, <2>2
<1>4. PICK ammo \in Nat, magazines \in Nat :
        /\ ammo = Least(q.ammo, capacity) /\ ammo <= capacity
        /\ magazines = Least(q.magazines, spare) /\ magazines <= spare
  BY <1>1 DEF PlayerState, Least
<1>5. PICK one \in Nat \ {0}, none \in Nat : one = 1 /\ none = 0 /\ none < Required(one)
  BY RequiredType
<1> DEFINE base == [q EXCEPT !.level = one, !.experience = none,
                             !.capacity = capacity, !.ammo = ammo,
                             !.magazineCapacity = spare, !.magazines = magazines]
<1>6. /\ base \in PlayerState /\ base.level = one /\ base.experience = none
      /\ base.capacity = capacity /\ base.ammo = ammo
      /\ base.magazineCapacity = spare /\ base.magazines = magazines
  BY <1>1 DEF PlayerState
<1>7. /\ base.permanent = q.permanent /\ base.confiscated = q.confiscated
      /\ base.fatigue = q.fatigue /\ base.karma = q.karma /\ base.decays = q.decays
      /\ base.day = q.day /\ base.received = q.received /\ base.survived = q.survived
      /\ base.deaths = q.deaths
  BY <1>1 DEF PlayerState
<1>8. Grown(p, q) = Grant(base, Available(p) + Available(q))
  BY <1>1, <1>2, <1>3, <1>4, <1>5 DEF Grown, PlayerState
<1> HIDE DEF base
<1>9. SoundPlayer(base, t)
  <2>1. SoundRest(q, t)
    BY <1>1, SoundParts
  <2>2. SoundRest(base, t)
    BY <1>7, <2>1 DEF SoundRest, OfToday
  <2>3. SoundWeapon(base) /\ SoundLevel(base)
    BY <1>2, <1>4, <1>5, <1>6 DEF SoundWeapon, SoundLevel
  <2> QED
    BY <1>6, <2>2, <2>3, SoundParts
<1>10. Available(p) \in Nat /\ Available(q) \in Nat
  BY <1>1, BelowEquation DEF Available, PlayerState
<1>11. Available(base) = 0
  BY <1>5, <1>6, BelowEquation DEF Available
<1>12. PICK amount \in Nat : amount = Available(p) + Available(q)
  BY <1>10
<1>13. /\ Follows(base, Grant(base, amount), t)
       /\ Available(Grant(base, amount)) = 0 + amount
  BY <1>9, <1>11, GrantFollows
<1> QED
  BY <1>8, <1>12, <1>13 DEF Follows

Loaded(r, ammo, magazines) == [r EXCEPT !.ammo = ammo, !.magazines = magazines]

(* What is left to fire fits the common weapon.                             *)
LEMMA ReloadedIs ==
    ASSUME NEW r \in PlayerState, r.capacity >= 1, NEW p \in PlayerState, NEW q \in PlayerState
    PROVE  \E ammo \in Nat, magazines \in Nat :
              /\ ammo <= r.capacity /\ magazines <= r.magazineCapacity
              /\ Reloaded(r, p, q) = Loaded(r, ammo, magazines)
<1> DEFINE full(s) == s.capacity * (s.magazineCapacity + 1)
           fired(s) == full(s) - s.ammo - s.magazines * s.capacity
<1>1. \A s \in PlayerState : full(s) \in Int /\ fired(s) \in Int
  <2> SUFFICES ASSUME NEW s \in PlayerState PROVE full(s) \in Int /\ fired(s) \in Int
    OBVIOUS
  <2>1. PICK a \in Nat, c \in Nat, m \in Nat, n \in Nat :
           s.ammo = a /\ s.capacity = c /\ s.magazines = m /\ s.magazineCapacity = n
    BY DEF PlayerState
  <2>2. c * (n + 1) \in Int /\ m * c \in Int
    OBVIOUS
  <2> QED
    BY <2>1, <2>2
<1>2. PICK left \in Int : left = full(r) - fired(p) - fired(q)
  <2> HIDE DEF full, fired
  <2> QED
    BY <1>1
<1>3. PICK c \in Nat \ {0}, spare \in Nat : c = r.capacity /\ spare = r.magazineCapacity
  BY DEF PlayerState
<1>4. PICK ammo \in Nat :
         /\ ammo = (IF left <= 0 THEN 0 ELSE ((left - 1) % c) + 1)
         /\ ammo <= c /\ (left > 0 => ammo <= left)
  <2>1. CASE left <= 0
    BY <1>3, <2>1
  <2>2. CASE left > 0
    <3>1. PICK l \in Nat : l = left - 1
      BY <2>2
    <3>2. l % c \in Nat /\ l % c < c /\ l % c <= l
      OBVIOUS
    <3> QED
      BY <2>2, <3>1, <3>2
  <2> QED
    BY <2>1, <2>2
<1>5. PICK magazines \in Nat :
         /\ magazines = (IF left <= 0 THEN 0 ELSE Least(spare, (left - ammo) \div c))
         /\ magazines <= spare
  <2>1. CASE left <= 0
    BY <2>1
  <2>2. CASE left > 0
    <3>1. PICK l \in Nat : l = left - ammo
      BY <1>4, <2>2
    <3>2. PICK d \in Nat : d = l \div c
      BY <1>3, <3>1
    <3> QED
      BY <1>3, <2>2, <3>1, <3>2 DEF Least
  <2> QED
    BY <2>1, <2>2
<1>6. Reloaded(r, p, q) = Loaded(r, ammo, magazines)
  BY <1>2, <1>3, <1>4, <1>5 DEF Reloaded, Loaded
<1> QED
  BY <1>3, <1>4, <1>5, <1>6

(* The counters of both.                                                    *)
LEMMA PooledIs ==
    ASSUME NEW r \in PlayerState, NEW p \in PlayerState, NEW q \in PlayerState
    PROVE  LET u == Pooled(r, p, q)
           IN  /\ u \in PlayerState
               /\ u.level = r.level /\ u.experience = r.experience
               /\ u.ammo = r.ammo /\ u.capacity = r.capacity
               /\ u.magazines = r.magazines /\ u.magazineCapacity = r.magazineCapacity
               /\ u.hits = p.hits + q.hits /\ u.shots = p.shots + q.shots
               /\ u.deaths = p.deaths + q.deaths /\ u.credit = p.credit + q.credit
<1>1. /\ p.spent + q.spent \in Nat /\ p.credit + q.credit \in Nat /\ p.hits + q.hits \in Nat
      /\ p.shots + q.shots \in Nat /\ p.caused + q.caused \in Nat
      /\ p.received + q.received \in Nat /\ p.survived + q.survived \in Nat
      /\ p.deaths + q.deaths \in Nat /\ p.carried + q.carried \in Nat
  BY DEF PlayerState
<1>2. Pooled(r, p, q) \in PlayerState
  BY <1>1 DEF Pooled, PlayerState
<1> QED
  BY <1>2 DEF Pooled, PlayerState

(* What two sound profiles become is sound, and has all that both had.      *)
LEMMA MergedSound ==
    ASSUME NEW t \in Nat, NEW p, SoundPlayer(p, t), NEW q, SoundPlayer(q, t)
    PROVE  LET m == Merged(p, q)
           IN  /\ SoundPlayer(m, t)
               /\ m.hits = p.hits + q.hits /\ m.shots = p.shots + q.shots
               /\ m.deaths = p.deaths + q.deaths
               /\ Available(m) + m.credit
                    = (Available(p) + p.credit) + (Available(q) + q.credit)
<1> DEFINE karma == Least(MaxKarma, Most(MinKarma, p.karma + q.karma))
           decays == IF karma = 0 THEN Never ELSE Most(p.decays, q.decays)
<1>1. /\ p \in PlayerState /\ q \in PlayerState
      /\ SoundRest(p, t) /\ SoundRest(q, t)
  BY SoundParts DEF SoundPlayer
<1>2. PICK g \in PlayerState : /\ g = Grown(p, q) /\ SoundWeapon(g) /\ SoundLevel(g)
                               /\ Available(g) = Available(p) + Available(q)
  BY GrownFollows, SoundParts DEF SoundPlayer
<1>3. PICK ammo \in Nat, magazines \in Nat :
         /\ ammo <= g.capacity /\ magazines <= g.magazineCapacity
         /\ Reloaded(g, p, q) = Loaded(g, ammo, magazines)
  BY <1>1, <1>2, ReloadedIs DEF SoundWeapon
<1> DEFINE r == Loaded(g, ammo, magazines)
<1>4. /\ r \in PlayerState /\ SoundWeapon(r) /\ SoundLevel(r) /\ r.level = g.level
      /\ r.experience = g.experience
  BY <1>2, <1>3 DEF PlayerState, SoundWeapon, SoundLevel, Loaded
<1> HIDE DEF r
<1> DEFINE u == Pooled(r, p, q)
<1>5. /\ u \in PlayerState /\ SoundWeapon(u) /\ SoundLevel(u) /\ u.level = g.level
      /\ u.experience = g.experience
      /\ u.hits = p.hits + q.hits /\ u.shots = p.shots + q.shots
      /\ u.deaths = p.deaths + q.deaths /\ u.credit = p.credit + q.credit
  BY <1>1, <1>4, PooledIs DEF SoundWeapon, SoundLevel
<1>6. PICK jammed \in BOOLEAN, confiscated \in BOOLEAN, permanent \in BOOLEAN :
         /\ jammed = (p.jammed \/ q.jammed) /\ confiscated = (p.confiscated \/ q.confiscated)
         /\ permanent = (p.permanent \/ q.permanent)
  OBVIOUS
<1>7. permanent => confiscated
  BY <1>1, <1>6 DEF SoundRest
<1>8. PICK fatigue \in Int : /\ fatigue = Most(p.fatigue, q.fatigue)
                             /\ MinFatigue <= fatigue /\ fatigue <= MaxFatigue
  BY <1>1 DEF PlayerState, SoundRest, Most
<1>9. PICK k \in Int, d \in Int :
         /\ k = karma /\ d = decays /\ MinKarma <= k /\ k <= MaxKarma /\ (k = 0 <=> d = Never)
         /\ d = Never \/ d \in t+1..t+KarmaPeriod
  <2>1. /\ p.karma \in Int /\ q.karma \in Int /\ p.decays \in Int /\ q.decays \in Int
        /\ (p.karma = 0 <=> p.decays = Never) /\ (q.karma = 0 <=> q.decays = Never)
        /\ (p.decays = Never \/ p.decays \in t+1..t+KarmaPeriod)
        /\ (q.decays = Never \/ q.decays \in t+1..t+KarmaPeriod)
    BY <1>1 DEF PlayerState, SoundRest, OfToday
  <2>2. PICK k \in Int : /\ k = karma /\ MinKarma <= k /\ k <= MaxKarma
                         /\ (p.karma = 0 /\ q.karma = 0 => k = 0)
    BY <2>1, BoundsAreIntegers DEF Least, Most
  <2>3. PICK d \in Int : d = decays
    BY <2>1 DEF Most, Never
  <2>4. PICK period \in Nat : period = KarmaPeriod
    BY DEF KarmaPeriod, Hour, Minute
  <2>5. k # 0 => d = Most(p.decays, q.decays) /\ d \in t+1..t+period
    BY <2>1, <2>2, <2>3, <2>4 DEF Most, Never
  <2>6. k # 0 => d # Never
    BY <2>4, <2>5 DEF Never
  <2> HIDE DEF karma
  <2> QED
    BY <2>2, <2>3, <2>4, <2>5, <2>6
<1>10. PICK day \in Int : day = Most(p.day, q.day) /\ day = DayOf(t)
  BY <1>1 DEF PlayerState, SoundRest, OfToday, Most
<1>11. PICK upgrades \in SUBSET Upgrades, letters \in SUBSET Letters :
          upgrades = p.upgrades \union q.upgrades /\ letters = p.letters \union q.letters
  BY <1>1 DEF PlayerState
<1> HIDE DEF u
<1> DEFINE m == [u EXCEPT
                    !.jammed = jammed, !.confiscated = confiscated, !.permanent = permanent,
                    !.fatigue = fatigue, !.karma = k, !.decays = d, !.day = day,
                    !.upgrades = upgrades, !.letters = letters]
<1>12. Merged(p, q) = m
  BY <1>2, <1>3, <1>6, <1>8, <1>9, <1>10, <1>11 DEF Merged, u, r
<1> HIDE DEF karma, decays
<1>13. m \in PlayerState
  BY <1>5 DEF PlayerState
<1>14. /\ m.level = u.level /\ m.experience = u.experience /\ m.capacity = u.capacity
       /\ m.ammo = u.ammo /\ m.magazines = u.magazines
       /\ m.magazineCapacity = u.magazineCapacity
  BY <1>5 DEF PlayerState
<1>15. /\ m.credit = u.credit /\ m.hits = u.hits /\ m.shots = u.shots
       /\ m.deaths = u.deaths
       /\ m.confiscated = confiscated /\ m.permanent = permanent
  BY <1>5 DEF PlayerState
<1>16. m.fatigue = fatigue /\ m.karma = k /\ m.decays = d /\ m.day = day
  BY <1>5 DEF PlayerState
<1> HIDE DEF m
<1>17. SoundWeapon(m) /\ SoundLevel(m)
  BY <1>5, <1>14 DEF SoundWeapon, SoundLevel
<1>18. SoundRest(m, t)
  BY <1>5, <1>7, <1>8, <1>9, <1>10, <1>15, <1>16 DEF SoundRest, OfToday
<1>19. Available(m) = Available(p) + Available(q)
  BY <1>2, <1>5, <1>14 DEF Available
<1>20. /\ Available(p) \in Nat /\ Available(q) \in Nat /\ p.credit \in Nat /\ q.credit \in Nat
  BY <1>1, BelowEquation DEF Available, PlayerState
<1> QED
  BY <1>5, <1>12, <1>13, <1>15, <1>17, <1>18, <1>19, <1>20, SoundParts

-----------------------------------------------------------------------------
(* Windows that change hands. *)

(* Two windows joined.                                                      *)
LEMMA JoinedSound ==
    ASSUME NEW v, SoundWindow(v), NEW w, SoundWindow(w)
    PROVE  SoundWindow(Joined(v, w)) /\ Twins(v, Joined(v, w))
<1>1. /\ v \in ThrottleWindow /\ w \in ThrottleWindow
      /\ Ordered(v.expires) /\ Ordered(w.expires)
      /\ Len(v.expires) \in 1..MaxExpirations /\ Len(w.expires) \in 1..MaxExpirations
  BY DEF SoundWindow, ThrottleWindow, Ordered, Times
<1>2. PICK m \in Nat, n \in Nat : /\ m = Len(v.expires) /\ m >= 1 /\ n = Len(w.expires)
  BY <1>1, LimitsAre
<1>3. /\ Ordered(InOrder(v.expires, w.expires)) /\ Len(InOrder(v.expires, w.expires)) >= 1
  BY <1>1, <1>2, InOrderOrdered
<1>4. PICK expires : /\ expires = Recent(InOrder(v.expires, w.expires))
                     /\ Ordered(expires) /\ Len(expires) \in 1..MaxExpirations
  BY <1>3, RecentOrdered
<1>5. PICK notice \in Nat : notice = Most(v.notice, w.notice)
  BY <1>1 DEF ThrottleWindow, Most
<1> DEFINE j == [v EXCEPT !.expires = expires, !.notice = notice]
<1>6. Joined(v, w) = j
  BY <1>4, <1>5 DEF Joined
<1>7. expires \in Seq(Nat \ {0})
  BY <1>4 DEF Ordered, Times
<1>8. j \in ThrottleWindow
  BY <1>1, <1>7 DEF ThrottleWindow
<1>9. Twins(v, j) /\ j.expires = expires
  BY <1>1 DEF ThrottleWindow, Twins
<1> HIDE DEF j
<1> QED
  BY <1>4, <1>6, <1>8, <1>9 DEF SoundWindow, Ordered

MovedTo(w, d) == [w EXCEPT !.of = d]

(* A window under another name.                                             *)
LEMMA MovedSound ==
    ASSUME NEW w, SoundWindow(w), NEW d \in Hunters
    PROVE  /\ SoundWindow(MovedTo(w, d)) /\ MovedTo(w, d).of = d
           /\ MovedTo(w, d).command = w.command /\ MovedTo(w, d).expires = w.expires
<1>1. MovedTo(w, d) \in ThrottleWindow
  BY DEF SoundWindow, ThrottleWindow, MovedTo
<1>2. /\ MovedTo(w, d).of = d
      /\ MovedTo(w, d).command = w.command /\ MovedTo(w, d).expires = w.expires
  BY DEF SoundWindow, ThrottleWindow, MovedTo
<1> QED
  BY <1>1, <1>2 DEF SoundWindow

(* The windows of one hunter moved to another.                              *)
LEMMA WindowsOnceSound ==
    ASSUME NEW D \in SUBSET Hunters, NEW W, SoundWindows(W, D), NEW s \in D, NEW d \in Hunters, s # d
    PROVE  /\ SoundWindows(WindowsOnce(W, s, d), (D \ {s}) \union {d})
           /\ d \notin D /\ AllFit(W) => AllFit(WindowsOnce(W, s, d))
<1> DEFINE kept == {v \in W : v.of # s}
           moved == {MovedTo(w, d) : w \in W \ kept}
           twins(v, w) == v.of = d /\ v.command = w.command
           A == {v \in kept : \A w \in moved : ~twins(v, w)}
           B == {w \in moved : \A v \in kept : ~twins(v, w)}
           C == UNION {{Joined(v, w) : w \in {x \in moved : twins(v, x)}} : v \in kept}
           E == (D \ {s}) \union {d}
<1>1. WindowsOnce(W, s, d) = A \union B \union C
  BY DEF WindowsOnce, MovedTo
<1>2. s # Nobody /\ d # Nobody
  BY NobodyHunts
<1>3. ASSUME NEW v \in kept PROVE SoundWindow(v) /\ Belongs(v, E)
  BY DEF SoundWindows, Belongs
<1>4. ASSUME NEW m \in moved
      PROVE  /\ SoundWindow(m) /\ Belongs(m, E) /\ m.of = d
             /\ \E w \in W : w.of = s /\ m = MovedTo(w, d) /\ m.command = w.command
  <2>1. PICK w \in W : w.of = s /\ m = MovedTo(w, d)
    OBVIOUS
  <2>2. SoundWindow(w) /\ Belongs(w, D)
    BY DEF SoundWindows
  <2> HIDE DEF moved, kept
  <2>3. SoundWindow(m) /\ m.of = d /\ m.command = w.command
    BY <2>1, <2>2, MovedSound
  <2> QED
    BY <1>2, <2>1, <2>2, <2>3 DEF Belongs
<1>5. \A v, w \in kept : Twins(v, w) => v = w
  BY DEF SoundWindows
<1>6. ASSUME NEW m \in moved, NEW n \in moved, Twins(m, n) PROVE m = n
  <2>1. PICK w \in W : w.of = s /\ m = MovedTo(w, d) /\ m.command = w.command
    BY <1>4
  <2>2. PICK x \in W : x.of = s /\ n = MovedTo(x, d) /\ n.command = x.command
    BY <1>4
  <2>3. Twins(w, x)
    BY <1>6, <2>1, <2>2 DEF Twins
  <2> QED
    BY <2>1, <2>2, <2>3 DEF SoundWindows
<1>7. ASSUME NEW c \in C
      PROVE  \E v \in kept, w \in moved : c = Joined(v, w) /\ twins(v, w)
  OBVIOUS
<1> HIDE DEF kept, moved, C
<1>8. ASSUME NEW c \in C
      PROVE  SoundWindow(c) /\ Belongs(c, E)
  <2>1. PICK v \in kept, w \in moved : c = Joined(v, w) /\ twins(v, w)
    BY <1>7
  <2>2. SoundWindow(c) /\ Twins(v, c)
    BY <1>3, <1>4, <2>1, JoinedSound
  <2> QED
    BY <1>3, <2>2 DEF Belongs, Twins
<1>9. ASSUME NEW a \in A \union B \union C PROVE SoundWindow(a) /\ Belongs(a, E)
  BY <1>3, <1>4, <1>8
<1>10. ASSUME NEW c \in C
       PROVE  \E v \in kept, w \in moved : /\ c = Joined(v, w) /\ twins(v, w) /\ Twins(v, c)
                                           /\ Twins(w, c)
  <2>1. PICK v \in kept, w \in moved : c = Joined(v, w) /\ twins(v, w)
    BY <1>7
  <2>2. Twins(v, c) /\ w.of = d
    BY <1>3, <1>4, <2>1, JoinedSound
  <2> QED
    BY <2>1, <2>2 DEF Twins
<1>11. ASSUME NEW a \in A \union B, NEW c \in C PROVE ~Twins(a, c)
  <2>1. PICK v \in kept, w \in moved : twins(v, w) /\ Twins(v, c) /\ Twins(w, c)
    BY <1>10
  <2>2. CASE a \in A
    BY <1>5, <2>1, <2>2 DEF Twins
  <2>3. CASE a \in B
    BY <1>6, <2>1, <2>3 DEF Twins
  <2> QED
    BY <2>2, <2>3
<1>12. ASSUME NEW a \in A, NEW b \in B PROVE ~Twins(a, b)
  BY <1>4 DEF Twins
<1>13. ASSUME NEW b \in C, NEW c \in C, Twins(b, c) PROVE b = c
  <2>1. PICK v \in kept, w \in moved : b = Joined(v, w) /\ Twins(v, b) /\ Twins(w, b)
    BY <1>10
  <2>2. PICK x \in kept, y \in moved : c = Joined(x, y) /\ Twins(x, c) /\ Twins(y, c)
    BY <1>10
  <2>3. v = x /\ w = y
    BY <1>5, <1>6, <1>13, <2>1, <2>2 DEF Twins
  <2> QED
    BY <2>1, <2>2, <2>3
<1>14. ASSUME NEW a \in A \union B \union C, NEW b \in A \union B \union C, Twins(a, b)
       PROVE  a = b
  <2>1. Twins(b, a)
    BY <1>14 DEF Twins
  <2>2. CASE a \in A /\ b \in A
    BY <1>5, <1>14, <2>2
  <2>3. CASE a \in B /\ b \in B
    BY <1>6, <1>14, <2>3
  <2>4. CASE a \in C /\ b \in C
    BY <1>13, <1>14, <2>4
  <2> HIDE DEF A, B
  <2> QED
    BY <1>11, <1>12, <1>14, <2>1, <2>2, <2>3, <2>4
<1>15. SoundWindows(A \union B \union C, E)
  <2> HIDE DEF A, B, E
  <2> QED
    BY <1>9, <1>14 DEF SoundWindows
<1>16. ASSUME d \notin D, AllFit(W) PROVE AllFit(A \union B \union C)
  <2>1. \A v \in kept : v.of # d
    <3>1. \A v \in W : Belongs(v, D)
      BY DEF SoundWindows
    <3> QED
      BY <1>2, <1>16, <3>1 DEF Belongs, kept
  <2>2. C = {}
    BY <1>7, <2>1
  <2>3. \A v \in kept : Fits(v)
    BY <1>16 DEF AllFit, kept
  <2>4. ASSUME NEW m \in moved PROVE Fits(m)
    <3>1. PICK w \in W : w.of = s /\ m = MovedTo(w, d)
      BY <1>4
    <3>2. SoundWindow(w) /\ Fits(w)
      BY <1>16 DEF AllFit, SoundWindows
    <3>3. m.of = d /\ m.command = w.command /\ m.expires = w.expires
      BY <3>1, <3>2, MovedSound
    <3> QED
      BY <1>2, <3>1, <3>2, <3>3 DEF Fits, LimitOf
  <2> QED
    BY <2>2, <2>3, <2>4 DEF AllFit
<1> HIDE DEF A, B, E
<1> QED
  BY <1>1, <1>15, <1>16 DEF E

(* What a name becomes when s is called d.                                  *)
Name(n, s, d) == IF n = s THEN d ELSE n

(* Who is known under the new name.                                         *)
LEMMA NameKnown ==
    ASSUME NEW D, NEW s \in D, NEW d
    PROVE  \A n \in D : Name(n, s, d) \in (D \ {s}) \union {d}
BY DEF Name

EffectNamed(e, s, d) == [e EXCEPT !.owner = Name(@, s, d), !.source = Name(@, s, d)]
CallNamed(c, s, d) == [c EXCEPT !.source = Name(@, s, d)]
CurseNamed(c, s, d) == [c EXCEPT !.owner = Name(@, s, d)]
TransferNamed(x, s, d) == [x EXCEPT !.from = Name(@, s, d)]

(* An effect under another name is the same effect.                         *)
LEMMA EffectNamedSound ==
    ASSUME NEW D \in SUBSET Hunters, NEW s \in D, NEW d \in Hunters, NEW e \in ActiveEffect, ValidEffect(e),
           e.owner \in D \union {Nobody}, e.source \in D \union {Nobody}
    PROVE  LET f == EffectNamed(e, s, d)
               E == (D \ {s}) \union {d} \union {Nobody}
           IN  /\ f \in ActiveEffect /\ ValidEffect(f) /\ f.id = e.id /\ f.expires = e.expires
               /\ f.owner \in E /\ f.source \in E
<1> DEFINE f == EffectNamed(e, s, d)
<1>1. s # Nobody /\ d # Nobody
  BY NobodyHunts
<1>2. Name(e.owner, s, d) \in (D \ {s}) \union {d, Nobody}
      /\ Name(e.source, s, d) \in (D \ {s}) \union {d, Nobody}
      /\ (Name(e.source, s, d) # Nobody <=> e.source # Nobody)
  BY <1>1 DEF Name
<1>3. f \in ActiveEffect
  BY <1>2 DEF EffectNamed, ActiveEffect
<1>4. /\ f.id = e.id /\ f.item = e.item /\ f.at = e.at /\ f.uses = e.uses
      /\ f.magnitude = e.magnitude /\ f.expires = e.expires
      /\ f.owner = Name(e.owner, s, d) /\ f.source = Name(e.source, s, d)
  BY DEF EffectNamed, ActiveEffect
<1> HIDE DEF f
<1>5. ValidEffect(f)
  BY <1>2, <1>4 DEF ValidEffect
<1> QED
  BY <1>2, <1>3, <1>4, <1>5 DEF f

-----------------------------------------------------------------------------
(* A profile that changes hands. *)

(* The belongings of s under the name d.                                    *)
LEMMA EffectsRekeyed ==
    ASSUME NEW g, Sound(g), NEW s \in DOMAIN g.players, NEW d \in Hunters,
           NEW h, h.now = g.now, h.nextEffect = g.nextEffect,
           DOMAIN h.players = (DOMAIN g.players \ {s}) \union {d},
           h.effects = EffectsOnce({EffectNamed(e, s, d) : e \in g.effects})
    PROVE  h.effects \subseteq ActiveEffect /\ SoundEffects(h)
<1> DEFINE D == DOMAIN g.players
<1>1. D \subseteq Hunters /\ g.effects \subseteq ActiveEffect /\ SoundEffects(g)
  BY DEF Sound, Typed, GameState
<1>2. h.effects \subseteq {EffectNamed(e, s, d) : e \in g.effects}
  BY DEF EffectsOnce
<1>3. ASSUME NEW e \in g.effects
      PROVE  LET f == EffectNamed(e, s, d)
             IN  /\ f \in ActiveEffect /\ ValidEffect(f) /\ f.id = e.id /\ f.expires = e.expires
                 /\ f.owner \in DOMAIN h.players \union {Nobody}
                 /\ f.source \in DOMAIN h.players \union {Nobody}
  <2>1. /\ e \in ActiveEffect /\ ValidEffect(e)
        /\ e.owner \in D \union {Nobody} /\ e.source \in D \union {Nobody}
    BY <1>1 DEF SoundEffects
  <2> QED
    BY <1>1, <2>1, EffectNamedSound
<1>4. \A f \in h.effects :
         \E e \in g.effects :
            /\ f = EffectNamed(e, s, d) /\ f \in ActiveEffect /\ ValidEffect(f)
            /\ f.id = e.id /\ f.expires = e.expires
            /\ f.owner \in DOMAIN h.players \union {Nobody}
            /\ f.source \in DOMAIN h.players \union {Nobody}
  BY <1>2, <1>3
<1> QED
  BY <1>1, <1>4 DEF SoundEffects

(* The curses,                                                              *)
LEMMA CursesRekeyed ==
    ASSUME NEW g, Sound(g), NEW s \in DOMAIN g.players, NEW d \in Hunters,
           NEW h, h.now = g.now, DOMAIN h.players = (DOMAIN g.players \ {s}) \union {d},
           h.curses = CursesOnce({CurseNamed(c, s, d) : c \in g.curses})
    PROVE  h.curses \subseteq ActiveCurse /\ SoundCurses(h)
<1>1. DOMAIN g.players \subseteq Hunters /\ g.curses \subseteq ActiveCurse /\ SoundCurses(g)
  BY DEF Sound, Typed, GameState
<1>2. h.curses \subseteq {CurseNamed(c, s, d) : c \in g.curses}
  BY DEF CursesOnce
<1>3. ASSUME NEW c \in g.curses
      PROVE  LET f == CurseNamed(c, s, d)
             IN  /\ f \in ActiveCurse /\ f.id = c.id /\ f.expires = c.expires
                 /\ f.owner \in DOMAIN h.players
  <2>1. Name(c.owner, s, d) \in DOMAIN h.players /\ Name(c.owner, s, d) \in Hunters
    BY <1>1 DEF SoundCurses, Name
  <2> QED
    BY <1>1, <2>1 DEF ActiveCurse, CurseNamed
<1>4. \A f \in h.curses :
         \E c \in g.curses :
            /\ f = CurseNamed(c, s, d) /\ f \in ActiveCurse /\ f.id = c.id
            /\ f.expires = c.expires /\ f.owner \in DOMAIN h.players
  BY <1>2, <1>3
<1> QED
  BY <1>1, <1>4 DEF SoundCurses

(* what is scheduled,                                                       *)
LEMMA CallsRekeyed ==
    ASSUME NEW g, Sound(g), NEW s \in DOMAIN g.players, NEW d \in Hunters,
           NEW h, h.nextCall = g.nextCall, DOMAIN h.players = (DOMAIN g.players \ {s}) \union {d},
           h.calls = {CallNamed(c, s, d) : c \in g.calls}
    PROVE  h.calls \subseteq ScheduledCall /\ SoundCalls(h)
<1>1. DOMAIN g.players \subseteq Hunters /\ g.calls \subseteq ScheduledCall /\ SoundCalls(g)
  BY DEF Sound, Typed, GameState
<1>2. ASSUME NEW c \in g.calls
      PROVE  LET f == CallNamed(c, s, d)
             IN  /\ f \in ScheduledCall /\ f.id = c.id
                 /\ f.source \in DOMAIN h.players \union {Nobody}
  <2>1. /\ Name(c.source, s, d) \in DOMAIN h.players \union {Nobody}
        /\ Name(c.source, s, d) \in Hunters \union {Nobody}
    BY <1>1 DEF SoundCalls, Name
  <2> QED
    BY <1>1, <2>1 DEF ScheduledCall, CallNamed
<1>3. \A f \in h.calls :
         \E c \in g.calls : /\ f = CallNamed(c, s, d) /\ f \in ScheduledCall /\ f.id = c.id
                            /\ f.source \in DOMAIN h.players \union {Nobody}
  BY <1>2
<1> QED
  BY <1>1, <1>3 DEF SoundCalls

(* The transfers from s, and the others, under the names they have then.    *)
Renamed(g, s, d) ==
    {TransferNamed(x, s, d) : x \in {y \in g.transfers : y.from # s \/ y.to # d}}

(* A transfer from s to d is dropped, and the others stay sound.            *)
LEMMA TransfersRekeyed ==
    ASSUME NEW g, Sound(g), NEW s, NEW d \in Hunters, s # d, NEW h, h.now = g.now,
           h.transfers = Renamed(g, s, d)
    PROVE  h.transfers \subseteq PendingTransfer /\ ValidTransfers(h)
<1>1. g.transfers \subseteq PendingTransfer /\ ValidTransfers(g)
  BY DEF Sound, Typed, GameState
<1>2. ASSUME NEW x \in {y \in g.transfers : y.from # s \/ y.to # d}
      PROVE  LET f == TransferNamed(x, s, d)
             IN  f \in PendingTransfer /\ f.to = x.to /\ f.expires = x.expires /\ f.from # f.to
  <2>1. Name(x.from, s, d) \in Hunters /\ Name(x.from, s, d) # x.to
    BY <1>1 DEF ValidTransfers, Name, PendingTransfer
  <2> QED
    BY <1>1, <2>1 DEF PendingTransfer, TransferNamed
<1>3. \A f \in h.transfers :
         \E x \in g.transfers : /\ f = TransferNamed(x, s, d) /\ f \in PendingTransfer
                                /\ f.to = x.to /\ f.expires = x.expires /\ f.from # f.to
  BY <1>2 DEF Renamed
<1> QED
  BY <1>1, <1>3 DEF ValidTransfers

(* All that named s names d.                                                *)
LEMMA RekeySound ==
    ASSUME NEW g, Sound(g), NEW s \in DOMAIN g.players, NEW d \in Hunters, s # d,
           NEW p, SoundPlayer(p, g.now)
    PROVE  LET h == Rekey(g, s, d, p)
           IN  /\ Sound(h) /\ h.now = g.now
               /\ h.players = [n \in (DOMAIN g.players \ {s}) \union {d} |->
                                  IF n = d THEN p ELSE g.players[n]]
               /\ ~Known(g, d) /\ AllFit(g.windows) => AllFit(h.windows)
<1> DEFINE D == DOMAIN g.players
           E == (D \ {s}) \union {d}
           players == [n \in E |-> IF n = d THEN p ELSE g.players[n]]
           effects == EffectsOnce({EffectNamed(e, s, d) : e \in g.effects})
           calls == {CallNamed(c, s, d) : c \in g.calls}
           curses == CursesOnce({CurseNamed(c, s, d) : c \in g.curses})
           transfers == {TransferNamed(x, s, d) : x \in {y \in g.transfers : y.from # s \/ y.to # d}}
           windows == WindowsOnce(g.windows, s, d)
           last == Name(g.lastShooter, s, d)
           h == Rekey(g, s, d, p)
<1>1. /\ D \subseteq Hunters /\ g \in GameState(D) /\ p \in PlayerState
      /\ g.lastShooter \in D \union {Nobody} /\ g.players \in [D -> PlayerState]
  BY DEF Sound, Typed, GameState, SoundPlayer
<1>2. h = [g EXCEPT !.players = players, !.lastShooter = last, !.effects = effects,
                    !.calls = calls, !.curses = curses, !.windows = windows,
                    !.transfers = transfers]
  BY <1>1 DEF Rekey, GameState, Name, EffectNamed, CallNamed, CurseNamed, TransferNamed
<1>3. players \in [E -> PlayerState] /\ DOMAIN players = E
  BY <1>1
<1>4. last \in E \union {Nobody} /\ E \subseteq Hunters
  BY <1>1 DEF Name
<1>5. \A n \in E : SoundPlayer(players[n], g.now)
  BY DEF Sound, SoundPlayers
<1> HIDE DEF players, effects, calls, curses, transfers, windows, last, h, E
<1>6. /\ h.players = players /\ h.lastShooter = last /\ h.effects = effects /\ h.calls = calls
      /\ h.curses = curses /\ h.windows = windows /\ h.transfers = transfers
      /\ h.now = g.now /\ h.flight = g.flight /\ h.last = g.last /\ h.nextFlight = g.nextFlight
      /\ h.nextEffect = g.nextEffect /\ h.nextCurse = g.nextCurse /\ h.nextCall = g.nextCall
  BY <1>1, <1>2 DEF GameState
<1>7. effects \subseteq ActiveEffect /\ SoundEffects(h)
  <2>1. DOMAIN h.players = (DOMAIN g.players \ {s}) \union {d}
    BY <1>3, <1>6 DEF E
  <2>2. h.effects = EffectsOnce({EffectNamed(e, s, d) : e \in g.effects})
    BY <1>6 DEF effects
  <2>3. h.effects \subseteq ActiveEffect /\ SoundEffects(h)
    BY <1>6, <2>1, <2>2, EffectsRekeyed
  <2> QED
    BY <1>6, <2>3
<1>8. curses \subseteq ActiveCurse /\ SoundCurses(h)
  BY <1>3, <1>6, CursesRekeyed DEF curses, E
<1>9. calls \subseteq ScheduledCall /\ SoundCalls(h)
  BY <1>3, <1>6, CallsRekeyed DEF calls, E
<1>10. transfers \subseteq PendingTransfer /\ ValidTransfers(h)
  <2>1. h.transfers = Renamed(g, s, d) /\ h.now = g.now /\ h.transfers = transfers
    BY <1>6 DEF transfers, Renamed
  <2>2. h.transfers \subseteq PendingTransfer /\ ValidTransfers(h)
    BY <2>1, TransfersRekeyed
  <2> QED
    BY <2>1, <2>2
<1>11. SoundWindows(windows, E) /\ (d \notin D /\ AllFit(g.windows) => AllFit(windows))
  BY <1>1, WindowsOnceSound DEF Sound, windows, E
<1>12. windows \subseteq ThrottleWindow
  BY <1>11 DEF SoundWindows, SoundWindow
<1>13. h \in GameState(E)
  BY <1>1, <1>2, <1>3, <1>4, <1>7, <1>8, <1>9, <1>10, <1>12 DEF GameState
<1>14. Typed(h)
  BY <1>3, <1>4, <1>6, <1>13 DEF Typed
<1>15. SoundPlayers(h) /\ SoundFlight(h)
  BY <1>3, <1>5, <1>6 DEF Sound, SoundPlayers, SoundFlight, ValidFlight, LastInTime,
                              Flying
<1>16. Sound(h)
  BY <1>3, <1>4, <1>6, <1>7, <1>8, <1>9, <1>10, <1>11, <1>14, <1>15 DEF Sound
<1> QED
  BY <1>6, <1>11, <1>16 DEF h, players, E, Known

-----------------------------------------------------------------------------
(* Points. *)

(* What counts, of a profile and of a game.                                 *)
Counts == {"hits", "shots", "deaths", "wealth"}
Value(p, f) == IF f = "wealth" THEN Available(p) + p.credit ELSE p[f]
Values(g, f) == [n \in DOMAIN g.players |-> Value(g.players[n], f)]
Tally(g, f) == SumFunction(Values(g, f))
Conserves(g, h) == \A f \in Counts : Tally(h, f) = Tally(g, f)

(* What counts is a natural number.                                         *)
LEMMA ValueIsNatural ==
    ASSUME NEW t, NEW p, SoundPlayer(p, t), NEW f \in Counts PROVE Value(p, f) \in Nat
<1>1. /\ p.hits \in Nat /\ p.shots \in Nat /\ p.deaths \in Nat /\ p.credit \in Nat
      /\ p.experience \in Nat /\ p.level \in Nat \ {0}
  BY SoundParts DEF SoundPlayer, PlayerState, SoundLevel
<1>2. Available(p) \in Nat
  BY <1>1, BelowEquation DEF Available
<1> QED
  BY <1>1, <1>2 DEF Value, Counts

(* The hunters are finitely many, and so are their counts.                  *)
LEMMA ValuesAre ==
    ASSUME NEW g, Sound(g), NEW f \in Counts
    PROVE  /\ IsFiniteSet(DOMAIN g.players)
           /\ Values(g, f) \in [DOMAIN g.players -> Int]
<1>1. DOMAIN g.players \subseteq Hunters
  BY DEF Sound, Typed
<1>2. \A n \in DOMAIN g.players : Value(g.players[n], f) \in Int
  BY ValueIsNatural DEF Sound, SoundPlayers
<1> QED
  BY <1>1, <1>2, FS_Subset, IdentityConstants DEF Values

(* What a renaming does to a sum over the hunters: nothing.                 *)
LEMMA SumMoved ==
    ASSUME NEW D, IsFiniteSet(D), NEW s \in D, NEW d, s # d, NEW F \in [D -> Int],
           NEW G \in [(D \ {s}) \union {d} -> Int],
           \A n \in D \ {s, d} : G[n] = F[n],
           G[d] = F[s] + (IF d \in D THEN F[d] ELSE 0)
    PROVE  SumFunction(G) = SumFunction(F)
<1> DEFINE E == (D \ {s}) \union {d}
           C == D \ {s, d}
           sum(H, S) == SumFunctionOnSet(H, S)
<1>1. IsFiniteSet(D \ {s}) /\ IsFiniteSet(E) /\ IsFiniteSet(C)
  <2>1. IsFiniteSet(D \ {s})
    BY FS_RemoveElement
  <2>2. IsFiniteSet(E)
    BY <2>1, FS_AddElement
  <2> QED
    BY <2>1, <2>2, FS_Subset
<1>2. sum(G, E) = G[d] + sum(G, C)
  <2>1. E \ {d} = C /\ d \in E /\ \A x \in E : G[x] \in Int
    OBVIOUS
  <2> QED
    BY <1>1, <2>1, SumRemove
<1>3. sum(G, C) = sum(F, C)
  <2>1. \A x \in C : F[x] \in Int /\ G[x] = F[x]
    OBVIOUS
  <2> QED
    BY <1>1, <2>1, SumEqual
<1>4. sum(F, D) = F[s] + sum(F, D \ {s})
  <2>1. \A x \in D : F[x] \in Int
    OBVIOUS
  <2> QED
    BY <2>1, SumRemove
<1>5. sum(F, D \ {s}) = (IF d \in D THEN F[d] ELSE 0) + sum(F, C)
  <2>1. sum(F, C) \in Int
    BY <1>1, SumInt
  <2>2. CASE d \in D
    <3>1. d \in D \ {s} /\ (D \ {s}) \ {d} = C /\ \A x \in D \ {s} : F[x] \in Int
      BY <2>2
    <3> QED
      BY <1>1, <2>2, <3>1, SumRemove
  <2>3. CASE d \notin D
    <3>1. D \ {s} = C
      BY <2>3
    <3> QED
      BY <2>1, <2>3, <3>1
  <2> QED
    BY <2>2, <2>3
<1>6. sum(F, C) \in Int /\ F[s] \in Int /\ G[d] \in Int /\ (d \in D => F[d] \in Int)
  BY <1>1, SumInt
<1>7. SumFunction(G) = sum(G, E) /\ SumFunction(F) = sum(F, D)
  BY DEF SumFunction, SumFunctionOnSet, FoldFunction
<1> HIDE DEF sum
<1> QED
  BY <1>2, <1>3, <1>4, <1>5, <1>6, <1>7

(* Hunters that count the same, each for itself, count the same together.   *)
LEMMA SameConserves ==
    ASSUME NEW g, NEW h, DOMAIN h.players = DOMAIN g.players,
           \A n \in DOMAIN g.players, f \in Counts : Value(h.players[n], f) = Value(g.players[n], f)
    PROVE  Conserves(g, h)
<1>1. \A f \in Counts : Values(h, f) = Values(g, f)
  BY DEF Values
<1> QED
  BY <1>1 DEF Conserves, Tally

(* What is conserved twice is conserved.                                    *)
LEMMA ConservesOn ==
    ASSUME NEW g, NEW h, NEW i, Conserves(g, h), Conserves(h, i) PROVE Conserves(g, i)
BY DEF Conserves

(* Time moves no points.                                                    *)
LEMMA AdvanceConserves ==
    ASSUME NEW g, Sound(g), NEW t \in Nat, g.now <= t PROVE Conserves(g, Advance(g, t))
<1>1. /\ DOMAIN Advance(g, t).players = DOMAIN g.players
      /\ \A n \in DOMAIN g.players : Ages(g.players[n], Advance(g, t).players[n], t)
  BY AdvanceSound
<1>2. \A p, q : Ages(p, q, t) => \A f \in Counts : Value(q, f) = Value(p, f)
  BY DEF Ages, SameWealth, Counts, Value, Available
<1> QED
  BY <1>1, <1>2, SameConserves

(* A newcomer brings nothing.                                               *)
LEMMA NewcomerBrings ==
    ASSUME NEW g, Sound(g), NEW n \in Hunters
    PROVE  Conserves(g, WithPlayer(g, n, Resolved(g, n)))
<1> DEFINE D == DOMAIN g.players
           q == Resolved(g, n)
           h == WithPlayer(g, n, q)
<1>1. g.now \in Nat
  BY DEF Sound, Typed, GameState
<1>2. SoundPlayer(q, g.now)
  BY <1>1, NewcomerSound DEF Resolved, Known, Sound, SoundPlayers
<1>3. /\ Sound(h) /\ DOMAIN h.players = D \union {n} /\ h.players[n] = q
      /\ \A m \in D \ {n} : h.players[m] = g.players[m]
  BY <1>2, WithPlayerSound
<1>4. CASE n \in D
  <2>1. q = g.players[n]
    BY <1>4 DEF Resolved, Known
  <2> HIDE DEF h, q, D
  <2>2. DOMAIN h.players = D /\ \A m \in D : h.players[m] = g.players[m]
    BY <1>3, <1>4, <2>1
  <2>3. Conserves(g, h)
    BY <2>2, SameConserves DEF D
  <2> QED
    BY <2>3 DEF h, q
<1>5. CASE n \notin D
  <2>1. \A f \in Counts : Value(q, f) = 0
    BY <1>5, BelowEquation DEF Resolved, Known, Newcomer, Counts, Value, Available
  <2> HIDE DEF h, q
  <2>2. ASSUME NEW f \in Counts PROVE Tally(h, f) = Tally(g, f)
    <3> DEFINE F == Values(g, f)
               G == Values(h, f)
    <3>1. /\ IsFiniteSet(D) /\ F \in [D -> Int]
          /\ IsFiniteSet(D \union {n}) /\ G \in [D \union {n} -> Int]
      BY <1>3, ValuesAre
    <3>2. G[n] = 0 /\ \A m \in D : G[m] = F[m]
      BY <1>3, <1>5, <2>1 DEF Values
    <3> HIDE DEF F, G, D
    <3>3. SumFunctionOnSet(G, D \union {n}) = G[n] + SumFunctionOnSet(G, D)
      <4>1. n \in D \union {n} /\ (D \union {n}) \ {n} = D /\ \A m \in D \union {n} : G[m] \in Int
        BY <1>5, <3>1 DEF D
      <4> QED
        BY <3>1, <4>1, SumRemove
    <3>4. SumFunctionOnSet(F, D) = SumFunctionOnSet(G, D)
      <4>1. \A m \in D : F[m] \in Int /\ F[m] = G[m]
        BY <3>1, <3>2
      <4> QED
        BY <3>1, <4>1, SumEqual
    <3>5. SumFunctionOnSet(G, D) \in Int
      <4>1. \A m \in D : G[m] \in Int
        BY <3>1
      <4> QED
        BY <3>1, <4>1, SumInt
    <3>6. SumFunction(F) = SumFunctionOnSet(F, D) /\ SumFunction(G) = SumFunctionOnSet(G, D \union {n})
      <4>1. DOMAIN F = D /\ DOMAIN G = D \union {n}
        BY <3>1
      <4> QED
        BY <4>1 DEF SumFunction, SumFunctionOnSet, FoldFunction
    <3> QED
      BY <3>2, <3>3, <3>4, <3>5, <3>6 DEF Tally, F, G
  <2> QED
    BY <2>2 DEF Conserves, h, q
<1> QED
  BY <1>4, <1>5

(* Nor does a renaming, or a merge.                                         *)
LEMMA RekeyConserves ==
    ASSUME NEW g, Sound(g), NEW h, Sound(h), NEW s \in DOMAIN g.players, NEW d \in Hunters, s # d,
           NEW p, h.players = [n \in (DOMAIN g.players \ {s}) \union {d} |->
                                  IF n = d THEN p ELSE g.players[n]],
           \A f \in Counts : Value(p, f) = Value(g.players[s], f)
                                + (IF d \in DOMAIN g.players THEN Value(g.players[d], f) ELSE 0)
    PROVE  Conserves(g, h)
<1> SUFFICES ASSUME NEW f \in Counts PROVE Tally(h, f) = Tally(g, f)
  BY DEF Conserves
<1> DEFINE D == DOMAIN g.players
           E == (D \ {s}) \union {d}
           F == Values(g, f)
           G == Values(h, f)
<1>1. IsFiniteSet(D) /\ F \in [D -> Int] /\ G \in [E -> Int]
  <2>1. DOMAIN h.players = E
    OBVIOUS
  <2> QED
    BY <2>1, ValuesAre
<1>2. /\ \A n \in D \ {s, d} : G[n] = F[n]
      /\ G[d] = F[s] + (IF d \in D THEN F[d] ELSE 0)
  BY DEF Values
<1> HIDE DEF F, G, D
<1>3. SumFunction(G) = SumFunction(F)
  BY <1>1, <1>2, SumMoved DEF D
<1> QED
  BY <1>3 DEF Tally, F, G

-----------------------------------------------------------------------------
(* What a command does to a sound book. *)

(* A transfer that is settled.                                              *)
LEMMA ResolveSound ==
    ASSUME NEW g, Sound(g), NEW x \in g.transfers
    PROVE  LET h == Resolve(g, x)
           IN  /\ Sound(h) /\ h.now = g.now /\ Conserves(g, h)
               /\ ~(Known(g, x.from) /\ Known(g, x.to)) /\ AllFit(g.windows) => AllFit(h.windows)
<1> DEFINE rest == Consumed(g, x)
           s == x.from
           d == x.to
           p == g.players[s]
           q == g.players[d]
<1>1. s \in Hunters /\ d \in Hunters /\ s # d /\ g.now \in Nat
  BY DEF Sound, Typed, GameState, ValidTransfers, PendingTransfer
<1>2. /\ Sound(rest) /\ rest.windows = g.windows /\ rest.now = g.now
      /\ rest.players = g.players
  BY ConsumedSound DEF SameGame
<1>3. \A n \in DOMAIN g.players : SoundPlayer(g.players[n], g.now)
  BY DEF Sound, SoundPlayers
<1>4. Conserves(g, rest)
  BY <1>2, SameConserves
<1> HIDE DEF rest, s, d
<1>5. CASE ~Known(g, s)
  <2>1. Resolve(g, x) = rest
    BY <1>5 DEF Resolve, rest, s, d
  <2> QED
    BY <1>2, <1>4, <2>1
<1> DEFINE Heir(r) == LET h == Rekey(rest, s, d, r)
                      IN  /\ Sound(h) /\ h.now = g.now
                          /\ h.players = [n \in (DOMAIN g.players \ {s}) \union {d} |->
                                             IF n = d THEN r ELSE g.players[n]]
                          /\ ~Known(g, d) /\ AllFit(g.windows) => AllFit(h.windows)
<1>6. ASSUME Known(g, s), NEW r, SoundPlayer(r, g.now) PROVE Heir(r)
  <2>1. s \in DOMAIN rest.players /\ SoundPlayer(r, rest.now) /\ (Known(rest, d) <=> Known(g, d))
    BY <1>2, <1>6 DEF Known
  <2> QED
    BY <1>1, <1>2, <2>1, RekeySound
<1>7. CASE Known(g, s) /\ ~Known(g, d)
  <2>1. Resolve(g, x) = Rekey(rest, s, d, p)
    BY <1>7 DEF Resolve, rest, s, d
  <2>2. SoundPlayer(p, g.now)
    BY <1>3, <1>7 DEF Known
  <2>3. Heir(p)
    BY <1>6, <1>7, <2>2
  <2>4. \A f \in Counts : Value(p, f) \in Nat
    BY <2>2, ValueIsNatural
  <2> HIDE DEF p
  <2> DEFINE h == Rekey(rest, s, d, p)
  <2>5. \A f \in Counts : Value(p, f) = Value(g.players[s], f)
                             + (IF d \in DOMAIN g.players THEN Value(g.players[d], f) ELSE 0)
    BY <1>7, <2>4 DEF Known, p
  <2>6. Sound(h) /\ h.players = [n \in (DOMAIN g.players \ {s}) \union {d} |->
                                    IF n = d THEN p ELSE g.players[n]]
    BY <2>3
  <2> HIDE DEF h
  <2>7. Conserves(g, h)
    BY <1>1, <1>7, <2>5, <2>6, RekeyConserves DEF Known
  <2> QED
    BY <1>7, <2>1, <2>3, <2>7 DEF h
<1>8. CASE Known(g, s) /\ Known(g, d)
  <2> DEFINE m == Merged(p, q)
  <2>1. Resolve(g, x) = Rekey(rest, s, d, m)
    BY <1>8 DEF Resolve, rest, s, d
  <2>2. SoundPlayer(p, g.now) /\ SoundPlayer(q, g.now)
    BY <1>3, <1>8 DEF Known
  <2> HIDE DEF p, q
  <2>3. /\ SoundPlayer(m, g.now) /\ m.hits = p.hits + q.hits /\ m.shots = p.shots + q.shots
        /\ m.deaths = p.deaths + q.deaths
        /\ Available(m) + m.credit = (Available(p) + p.credit) + (Available(q) + q.credit)
    BY <1>1, <2>2, MergedSound
  <2> HIDE DEF m
  <2>4. Heir(m)
    BY <1>6, <1>8, <2>3
  <2> DEFINE h == Rekey(rest, s, d, m)
  <2>5. \A f \in Counts : Value(m, f) = Value(g.players[s], f)
                             + (IF d \in DOMAIN g.players THEN Value(g.players[d], f) ELSE 0)
    BY <1>8, <2>3 DEF Counts, Value, Known, p, q
  <2>6. Sound(h) /\ h.players = [n \in (DOMAIN g.players \ {s}) \union {d} |->
                                    IF n = d THEN m ELSE g.players[n]]
    BY <2>4
  <2> HIDE DEF h
  <2>7. Conserves(g, h)
    BY <1>1, <1>8, <2>5, <2>6, RekeyConserves DEF Known
  <2> QED
    BY <1>8, <2>1, <2>4, <2>7 DEF h, s, d
<1> QED
  BY <1>5, <1>7, <1>8

(* A book whose game is sound; nothing but a merge overfills its windows.   *)
Kept(b) == DOMAIN b = {"game", "served", "merged"} /\ SoundBook(b)

(* What a book becomes before the time t, without losing any points.        *)
Continues(b, c, t) ==
    /\ Kept(c) /\ c.game.now <= t /\ b.game.now <= c.game.now /\ Conserves(b.game, c.game)

(* A settlement leaves a sound book, with all the points there were.        *)
LEMMA SettleSound ==
    ASSUME NEW b, Kept(b), NEW n, NEW t \in Nat, b.game.now <= t
    PROVE  Continues(b, SettleTransfer(b, n, t), t)
<1> DEFINE g == Advance(b.game, t)
           X == Pending(g, n)
           c == SettleTransfer(b, n, t)
<1>1. Sound(b.game) /\ b.game.now \in Nat /\ (b.merged = {} => AllFit(b.game.windows))
  BY DEF Kept, SoundBook, Sound, Typed, GameState
<1>2. Sound(g) /\ g.now = t /\ g.windows = b.game.windows /\ Conserves(b.game, g)
  BY <1>1, AdvanceSound, AdvanceConserves
<1> HIDE DEF g
<1>3. CASE ~Owes(b, n)
  <2>1. c = b
    BY <1>3 DEF SettleTransfer
  <2> QED
    BY <1>1, <2>1 DEF Continues, Conserves
<1>4. CASE Owes(b, n) /\ X = {}
  <2>1. c = [b EXCEPT !.game = g]
    BY <1>4 DEF SettleTransfer, g
  <2>2. DOMAIN c = {"game", "served", "merged"} /\ c.game = g /\ c.merged = b.merged
    BY <2>1 DEF Kept
  <2> HIDE DEF c
  <2> QED
    BY <1>1, <1>2, <2>2 DEF Continues, Kept, SoundBook, c
<1>5. CASE Owes(b, n) /\ X # {}
  <2>1. PICK x \in X : x = CHOOSE y \in X : TRUE
    BY <1>5
  <2>2. x \in g.transfers
    BY <2>1 DEF Pending
  <2>3. c = Inherit(g, x, b)
    BY <1>5, <2>1 DEF SettleTransfer, g
  <2>4. /\ DOMAIN c = {"game", "served", "merged"} /\ c.game = Resolve(g, x)
        /\ Known(g, x.from) /\ Known(g, x.to) => c.merged # {}
        /\ c.merged = {} => b.merged = {}
    BY <2>3 DEF Inherit
  <2>5. /\ Sound(c.game) /\ c.game.now = g.now /\ Conserves(g, c.game)
        /\ ~(Known(g, x.from) /\ Known(g, x.to)) /\ AllFit(g.windows) => AllFit(c.game.windows)
    BY <1>2, <2>2, <2>4, ResolveSound
  <2> HIDE DEF c
  <2>6. c.merged = {} => AllFit(c.game.windows)
    BY <1>1, <1>2, <2>4, <2>5
  <2>7. Conserves(b.game, c.game)
    BY <1>2, <2>5, ConservesOn
  <2> QED
    BY <1>1, <1>2, <2>4, <2>5, <2>6, <2>7 DEF Continues, Kept, SoundBook, c
<1> QED
  BY <1>3, <1>4, <1>5

(* An admission, or a refusal, of somebody who becomes known by it.         *)
LEMMA AdmissionSound ==
    ASSUME NEW b, DOMAIN b = {"game", "served", "merged"}, Sound(b.game), AllFit(b.game.windows),
           NEW n \in Hunters, NEW c, NEW t \in Nat, b.game.now <= t
    PROVE  LET a == Admission(b, n, c, t)
           IN  /\ Sound(a.game) /\ AllFit(a.game.windows) /\ a.merged = b.merged
               /\ Conserves(b.game, a.game) /\ a.game.now = t
<1> DEFINE f == Advance(b.game, t)
           g == Prune(f)
           blocking == Blocking(g, n, c)
           h == Admit(g, n, c)
           q == Resolved(g, n)
           k == WithPlayer(g, n, q)
<1>1. Sound(f) /\ AllFit(f.windows) /\ Conserves(b.game, f) /\ f.now = t
  BY AdvanceSound, AdvanceConserves
<1> HIDE DEF f
<1>2. Sound(g) /\ AllFit(g.windows)
  BY <1>1, PruneSound
<1>3. Conserves(f, g) /\ g.now = t
  <2>1. g.players = f.players /\ g.now = f.now
    BY <1>1, PruneSound DEF g, SameGame
  <2> HIDE DEF g
  <2>2. Conserves(f, g)
    BY <2>1, SameConserves
  <2> QED
    BY <1>1, <2>1, <2>2
<1> HIDE DEF g
<1>4. CASE blocking = {}
  <2>1. SoundPlayer(q, g.now)
    <3>1. g.now \in Nat
      BY <1>2 DEF Sound, Typed, GameState
    <3> QED
      BY <1>2, <3>1, NewcomerSound DEF Resolved, Known, Sound, SoundPlayers
  <2>2. /\ Sound(k) /\ k.windows = g.windows /\ k.now = g.now /\ n \in DOMAIN k.players
    BY <1>2, <2>1, WithPlayerSound
  <2>3. Blocking(k, n, c) = {}
    BY <1>4, <2>2 DEF Blocking, Window
  <2>4. Sound(Admit(k, n, c)) /\ (AllFit(k.windows) => AllFit(Admit(k, n, c).windows))
    BY <2>2, <2>3, AdmitSound
  <2>5. WithPlayer(h, n, Resolved(h, n)) = Admit(k, n, c)
    <3>1. PICK W : h = WithWindows(g, W) /\ Admit(k, n, c) = WithWindows(k, W)
      <4>1. ASSUME NEW i, Sound(i), i.windows = g.windows, i.now = g.now
            PROVE  \E W : Admit(g, n, c) = WithWindows(g, W) /\ Admit(i, n, c) = WithWindows(i, W)
        BY <1>2, <4>1, AdmitIs
      <4> HIDE DEF k
      <4> QED
        BY <2>2, <4>1
    <3>2. g \in GameState(DOMAIN g.players)
      BY <1>2 DEF Sound, Typed
    <3>3. h.players = g.players /\ h.now = g.now
      BY <3>1, <3>2 DEF GameState, WithWindows
    <3>4. Resolved(h, n) = q
      BY <3>3 DEF Resolved, Known
    <3> DEFINE P == [m \in DOMAIN g.players \union {n} |-> IF m = n THEN q ELSE g.players[m]]
    <3>5. WithPlayer(h, n, q) = [h EXCEPT !.players = P] /\ k = [g EXCEPT !.players = P]
      <4>1. "players" \in DOMAIN g /\ "players" \in DOMAIN h
        BY <3>1, <3>2 DEF GameState, WithWindows
      <4> HIDE DEF h, q
      <4> QED
        BY <3>3, <4>1 DEF WithPlayer
    <3> HIDE DEF P, q, h, k
    <3>6. [h EXCEPT !.players = P] = [k EXCEPT !.windows = W]
      BY <3>1, <3>2, <3>5 DEF GameState, WithWindows
    <3> QED
      BY <3>1, <3>4, <3>5, <3>6 DEF WithWindows
  <2>6. Admission(b, n, c, t)
          = [b EXCEPT !.game = WithPlayer(h, n, Resolved(h, n)),
                      !.served = @ \union {Serving(n, steps, c, t),
                                           Serving(Nobody, steps, Whatever, t)}]
    BY <1>4 DEF Admission, f, g
  <2>7. Conserves(g, k)
    BY <1>2, NewcomerBrings
  <2>8. Conserves(k, Admit(k, n, c)) /\ Admit(k, n, c).now = k.now
    <3>1. Admit(k, n, c).players = k.players /\ Admit(k, n, c).now = k.now
      BY <2>2, <2>3, AdmitSound DEF SameGame
    <3> QED
      BY <3>1, SameConserves
  <2>9. Conserves(b.game, Admit(k, n, c))
    BY <1>1, <1>3, <2>7, <2>8, ConservesOn
  <2> HIDE DEF h, k
  <2> QED
    BY <1>2, <1>3, <2>2, <2>4, <2>5, <2>6, <2>8, <2>9
<1>5. CASE blocking # {}
  <2>1. PICK w \in blocking : w = CHOOSE v \in blocking : TRUE
    BY <1>5
  <2>2. w \in g.windows
    BY <2>1 DEF Blocking, Window
  <2>3. Admission(b, n, c, t) = [b EXCEPT !.game = Refuse(g, w)]
    BY <1>5, <2>1 DEF Admission, f, g
  <2> HIDE DEF blocking
  <2>4. Sound(Refuse(g, w)) /\ SameGame(g, Refuse(g, w)) /\ AllFit(Refuse(g, w).windows)
    BY <1>2, <2>2, RefuseSound
  <2>5. Conserves(g, Refuse(g, w))
    BY <2>4, SameConserves DEF SameGame
  <2>6. Conserves(b.game, Refuse(g, w))
    BY <1>1, <1>3, <2>5, ConservesOn
  <2> QED
    BY <1>3, <2>3, <2>4, <2>6 DEF SameGame
<1> QED
  BY <1>4, <1>5

-----------------------------------------------------------------------------
(* What is still to come of a sorted sequence of times.                     *)

After(s, t) == Len(s) - UpTo(s, t)

(* The times that have come are the first.                                  *)
LEMMA UpToIs ==
    ASSUME NEW s, Ordered(s), NEW t \in Nat, NEW k \in 0..Len(s),
           \A i \in 1..Len(s) : s[i] <= t <=> i <= k
    PROVE  UpTo(s, t) = k
<1>1. Len(s) \in Nat /\ DOMAIN s = 1..Len(s)
  BY LenProperties DEF Ordered
<1>2. k \in Nat /\ k <= Len(s)
  BY <1>1
<1>3. {i \in DOMAIN s : s[i] <= t} = 1..k
  BY <1>1, <1>2
<1>4. Cardinality(1..k) = IF 1 > k THEN 0 ELSE k - 1 + 1
  BY <1>2, FS_Interval
<1>5. Cardinality(1..k) = k
  BY <1>2, <1>4
<1> QED
  BY <1>3, <1>5 DEF UpTo

(* Up to some place they have come, and from there they are to come.        *)
LEMMA UpToSplits ==
    ASSUME NEW s, Ordered(s), NEW t \in Nat
    PROVE  /\ UpTo(s, t) \in 0..Len(s) /\ Len(s) \in Nat
           /\ \A i \in 1..Len(s) : s[i] <= t <=> i <= UpTo(s, t)
<1>1. /\ Len(s) \in Nat /\ DOMAIN s = 1..Len(s) /\ \A i \in DOMAIN s : s[i] \in Nat
      /\ \A i, j \in 1..Len(s) : i < j => s[i] <= s[j]
  <2>1. Len(s) \in Nat /\ DOMAIN s = 1..Len(s) /\ \A i \in DOMAIN s : s[i] \in Nat
    BY LenProperties, ElementOfSeq DEF Ordered, Times
  <2> QED
    BY <2>1 DEF Ordered, Sorted
<1> DEFINE D == {i \in 1..Len(s) : s[i] <= t}
<1>2. \E k \in 0..Len(s) : \A i \in 1..Len(s) : s[i] <= t <=> i <= k
  <2>1. CASE D = {}
    <3>1. \A i \in 1..Len(s) : ~(s[i] <= t) /\ ~(i <= 0)
      BY <1>1, <2>1
    <3>2. 0 \in 0..Len(s)
      BY <1>1
    <3> QED
      BY <3>1, <3>2
  <2>2. CASE D # {}
    <3>1. PICK m \in D : \A u \in D : u <= m
      <4>1. D \in SUBSET Nat /\ \A u \in D : u <= Len(s)
        BY <1>1
      <4> HIDE DEF D
      <4> QED
        BY <1>1, <2>2, <4>1, GreatestNatural
    <3>2. m \in 0..Len(s) /\ m \in Nat /\ m \in 1..Len(s) /\ s[m] <= t
      BY <1>1, <3>1
    <3>3. ASSUME NEW i \in 1..Len(s) PROVE s[i] <= t <=> i <= m
      <4>1. s[i] <= t => i <= m
        BY <3>1
      <4>2. i <= m => s[i] <= s[m]
        BY <1>1, <3>2
      <4> QED
        BY <1>1, <3>2, <4>1, <4>2
    <3> QED
      BY <3>2, <3>3
  <2> QED
    BY <2>1, <2>2
<1>3. PICK k \in 0..Len(s) : \A i \in 1..Len(s) : s[i] <= t <=> i <= k
  BY <1>2
<1>4. UpTo(s, t) = k
  BY <1>3, UpToIs
<1> QED
  BY <1>1, <1>3, <1>4

(* Less and less is still to come.                                          *)
LEMMA AfterIs ==
    ASSUME NEW s, Ordered(s), NEW t \in Nat
    PROVE  /\ After(s, t) \in Nat /\ After(s, t) <= Len(s) /\ Len(s) \in Nat
           /\ \A u \in Nat : t <= u => After(s, u) <= After(s, t)
<1>1. UpTo(s, t) \in 0..Len(s) /\ Len(s) \in Nat
  BY UpToSplits
<1>2. ASSUME NEW u \in Nat, t <= u PROVE After(s, u) <= After(s, t)
  <2>1. UpTo(s, u) \in 0..Len(s) /\ UpTo(s, t) <= UpTo(s, u)
    BY <1>2, UpToSplits, UpToGrows DEF Ordered
  <2> QED
    BY <1>1, <2>1 DEF After
<1> QED
  BY <1>1, <1>2 DEF After

(* Of the last ones, those still to come.                                   *)
LEMMA TailCounts ==
    ASSUME NEW s, Ordered(s), NEW k \in Nat, k <= Len(s), NEW t \in Nat
    PROVE  LET r == SubSeq(s, k + 1, Len(s))
           IN  Ordered(r) /\ Len(r) = Len(s) - k /\ After(r, t) = Least(Len(s) - k, After(s, t))
<1> DEFINE r == SubSeq(s, k + 1, Len(s))
<1>1. /\ UpTo(s, t) \in 0..Len(s) /\ Len(s) \in Nat
      /\ \A i \in 1..Len(s) : s[i] <= t <=> i <= UpTo(s, t)
  BY UpToSplits
<1>2. PICK n \in Nat, u \in Nat : n = Len(s) /\ u = UpTo(s, t) /\ u <= n
  BY <1>1
<1>3. Ordered(r) /\ Len(r) = n - k
  <2>1. k + 1 \in Nat \ {0} /\ k + 1 <= Len(s) + 1
    BY <1>1
  <2>2. Ordered(r) /\ Len(r) = Len(s) - (k + 1) + 1
    BY <2>1, PartOrdered
  <2> QED
    BY <1>2, <2>2
<1>4. \A i \in 1..n-k : r[i] = s[k + i]
  <2>1. s \in Seq(Times) /\ \A i \in 1..n : s[i] \in Times
    <3>1. s \in Seq(Times) /\ DOMAIN s = 1..Len(s)
      BY LenProperties DEF Ordered
    <3> QED
      BY <1>2, <3>1, ElementOfSeq
  <2>2. \A i \in k+1..n : s[i] \in Times
    BY <2>1
  <2>3. \A i \in 1..n-(k+1)+1 : r[i] = s[(k + 1) + i - 1]
    BY <1>2, <2>2, SubSeqProperties
  <2> SUFFICES ASSUME NEW i \in 1..n-k PROVE r[i] = s[k + i]
    OBVIOUS
  <2>4. i \in 1..n-(k+1)+1 /\ (k + 1) + i - 1 = k + i
    BY <1>2
  <2> QED
    BY <2>3, <2>4
<1> HIDE DEF r
<1>5. ASSUME NEW i \in 1..n-k PROVE r[i] <= t <=> i <= u - k
  <2>1. k + i \in 1..n /\ i \in Int
    BY <1>2
  <2> QED
    BY <1>1, <1>2, <1>4, <2>1
<1>6. CASE u <= k
  <2>1. UpTo(r, t) = 0
    <3>1. \A i \in 1..Len(r) : r[i] <= t <=> i <= 0
      BY <1>2, <1>3, <1>5, <1>6
    <3>2. 0 \in 0..Len(r)
      BY <1>2, <1>3
    <3> QED
      BY <1>3, <3>1, <3>2, UpToIs
  <2> QED
    BY <1>2, <1>3, <1>6, <2>1 DEF After, Least, r
<1>7. CASE u > k
  <2>1. UpTo(r, t) = u - k
    <3>1. u - k \in 0..Len(r)
      BY <1>2, <1>3, <1>7
    <3> QED
      BY <1>3, <1>5, <3>1, UpToIs
  <2> QED
    BY <1>2, <1>3, <1>7, <2>1 DEF After, Least, r
<1> QED
  BY <1>2, <1>6, <1>7

(* A time between which and another nothing comes.                          *)
LEMMA NothingBetween ==
    ASSUME NEW r, Ordered(r), NEW u \in Nat, NEW t \in Nat, u <= t,
           \A x \in TimesIn(r) : x <= t => x <= u
    PROVE  UpTo(r, u) = UpTo(r, t)
<1>1. \A i \in DOMAIN r : r[i] \in Nat /\ r[i] \in TimesIn(r)
  <2>1. \A i \in DOMAIN r : r[i] \in Nat
    BY LenProperties, ElementOfSeq DEF Ordered, Times
  <2> QED
    BY <2>1 DEF TimesIn
<1>2. {i \in DOMAIN r : r[i] <= u} = {i \in DOMAIN r : r[i] <= t}
  BY <1>1
<1> QED
  BY <1>2 DEF UpTo

(* Of two in one, as many have come and are to come as of both.             *)
LEMMA InOrderCounts ==
    ASSUME NEW r, Ordered(r), NEW s, Ordered(s), NEW t \in Nat
    PROVE  /\ UpTo(InOrder(r, s), t) = UpTo(r, t) + UpTo(s, t)
           /\ After(InOrder(r, s), t) = After(r, t) + After(s, t)
<1> DEFINE o == InOrder(r, s)
           times == TimesIn(r) \union TimesIn(s)
<1>1. /\ UpTo(r, t) \in 0..Len(r) /\ Len(r) \in Nat /\ UpTo(s, t) \in 0..Len(s) /\ Len(s) \in Nat
      /\ \A i \in 1..Len(r) : r[i] <= t <=> i <= UpTo(r, t)
      /\ \A i \in 1..Len(s) : s[i] <= t <=> i <= UpTo(s, t)
  BY UpToSplits
<1>2. PICK n \in Nat, c \in Nat : n = Len(r) + Len(s) /\ c = UpTo(r, t) + UpTo(s, t) /\ c <= n
  BY <1>1
<1>3. /\ Ordered(o) /\ Len(o) = n
      /\ \A k \in 1..n : /\ o[k] \in times /\ UpTo(r, o[k]) + UpTo(s, o[k]) >= k
                         /\ \A x \in times : UpTo(r, x) + UpTo(s, x) >= k => o[k] <= x
  BY <1>2, InOrderIs
<1> HIDE DEF o
<1>4. times \subseteq Nat
  BY TimesOf
<1>5. ASSUME NEW k \in 1..n, o[k] <= t PROVE k <= c
  <2>1. o[k] \in Nat
    BY <1>3, <1>4
  <2>2. /\ UpTo(r, o[k]) <= UpTo(r, t) /\ UpTo(s, o[k]) <= UpTo(s, t)
        /\ UpTo(r, o[k]) \in Nat /\ UpTo(s, o[k]) \in Nat
    BY <1>5, <2>1, UpToGrows, TimesOf DEF Ordered
  <2>3. UpTo(r, o[k]) + UpTo(s, o[k]) >= k
    BY <1>3
  <2> QED
    BY <1>1, <1>2, <2>2, <2>3
<1>6. ASSUME NEW k \in 1..n, k <= c PROVE o[k] <= t
  <2> DEFINE come == {x \in times : x <= t}
  <2>1. come # {}
    <3>1. UpTo(r, t) >= 1 \/ UpTo(s, t) >= 1
      BY <1>1, <1>2, <1>6
    <3>2. CASE UpTo(r, t) >= 1
      <4>1. 1 \in 1..Len(r) /\ r[1] <= t /\ DOMAIN r = 1..Len(r)
        BY <1>1, <3>2, LenProperties DEF Ordered
      <4> QED
        BY <4>1 DEF TimesIn
    <3>3. CASE UpTo(s, t) >= 1
      <4>1. 1 \in 1..Len(s) /\ s[1] <= t /\ DOMAIN s = 1..Len(s)
        BY <1>1, <3>3, LenProperties DEF Ordered
      <4> QED
        BY <4>1 DEF TimesIn
    <3> QED
      BY <3>1, <3>2, <3>3
  <2>2. PICK u \in come : \A x \in come : x <= u
    <3>1. come \in SUBSET Nat /\ \A x \in come : x <= t
      BY <1>4
    <3> HIDE DEF come
    <3> QED
      BY <2>1, <3>1, GreatestNatural
  <2>3. u \in Nat /\ u <= t /\ u \in times /\ \A x \in times : x <= t => x <= u
    BY <1>4, <2>2
  <2>4. UpTo(r, u) = UpTo(r, t) /\ UpTo(s, u) = UpTo(s, t)
    BY <2>3, NothingBetween
  <2>5. UpTo(r, u) + UpTo(s, u) >= k
    BY <1>2, <1>6, <2>4
  <2>6. o[k] <= u /\ o[k] \in Nat
    BY <1>3, <1>4, <2>3, <2>5
  <2> QED
    BY <2>3, <2>6
<1>7. UpTo(o, t) = c
  <2>1. \A i \in 1..Len(o) : o[i] <= t <=> i <= c
    BY <1>3, <1>5, <1>6
  <2>2. c \in 0..Len(o)
    BY <1>2, <1>3
  <2> QED
    BY <1>3, <2>1, <2>2, UpToIs
<1> QED
  BY <1>1, <1>2, <1>3, <1>7 DEF After, o

(* Of nothing, and of a single time.                                        *)
LEMMA ShortCounts ==
    /\ \A t \in Nat : After(<<>>, t) = 0
    /\ \A x \in Times, t \in Nat : After(<<x>>, t) = IF x > t THEN 1 ELSE 0
<1>1. ASSUME NEW t \in Nat PROVE After(<<>>, t) = 0
  <2>1. Ordered(<<>>) /\ Len(<<>>) = 0
    BY ShortOrdered
  <2>2. After(<<>>, t) \in Nat /\ After(<<>>, t) <= Len(<<>>)
    BY <2>1, AfterIs
  <2> QED
    BY <2>1, <2>2
<1>2. ASSUME NEW x \in Times, NEW t \in Nat PROVE After(<<x>>, t) = IF x > t THEN 1 ELSE 0
  <2> DEFINE s == <<x>>
  <2>1. Ordered(s) /\ Len(s) = 1 /\ s[1] = x /\ x \in Nat
    BY ShortOrdered DEF Times
  <2> HIDE DEF s
  <2>2. \A i \in 1..1 : i = 1
    OBVIOUS
  <2>3. UpTo(s, t) = IF x > t THEN 0 ELSE 1
    <3>1. CASE x > t
      <4>1. \A i \in 1..Len(s) : s[i] <= t <=> i <= 0
        BY <2>1, <2>2, <3>1
      <4>2. UpTo(s, t) = 0
        BY <2>1, <4>1, UpToIs
      <4> QED
        BY <3>1, <4>2
    <3>2. CASE ~(x > t)
      <4>1. \A i \in 1..Len(s) : s[i] <= t <=> i <= 1
        BY <2>1, <2>2, <3>2
      <4>2. UpTo(s, t) = 1
        BY <2>1, <4>1, UpToIs
      <4> QED
        BY <3>2, <4>2
    <3> QED
      BY <3>1, <3>2
  <2> QED
    BY <2>1, <2>3 DEF After, s
<1> QED
  BY <1>1, <1>2

-----------------------------------------------------------------------------
(* What the history says of a hunter and a command, or of the channel.      *)

Slot(n, c) == (n = Nobody /\ c = Whatever) \/ (n \in Hunters /\ c \in DOMAIN Limits)
Limit(n, c) == IF n = Nobody THEN ChannelLimit ELSE Limits[c]

LiveAt(S, n, c, t) == {e \in S : e.of = n /\ e.command = c /\ e.at + Limit(n, c).seconds > t}

Names == Hunters \union {Nobody}
Services == [by : Names, nth : Int, of : Names, command : Commands \union {Whatever}, at : Int]

(* Every command is counted once for each it counts for. *)
ServedShape(S, k) ==
    /\ IsFiniteSet(S) /\ S \subseteq Services /\ \A e \in S : e.nth < k
    /\ \A e, f \in S : e.by = f.by /\ e.nth = f.nth /\ e.command = f.command => e = f

(* A window has the commands that count now, and will count for the same    *)
(* time, or as many as it holds.                                            *)
Remembers(g, S, n, c) ==
    \A t \in Nat : t >= g.now =>
        After(Expirations(g, n, c), t) = Least(MaxExpirations, Cardinality(LiveAt(S, n, c, t)))

Within(g, S, M, n, c) ==
    Cardinality(LiveAt(S, n, c, g.now)) <= Limit(n, c).maximum \/ n \in M

MemoryOf(g, S, M, k) ==
    /\ ServedShape(S, k) /\ Nobody \notin M
    /\ \A n, c : Slot(n, c) => Remembers(g, S, n, c) /\ Within(g, S, M, n, c)

(* The limit of a slot, as the constants give it.                           *)
LEMMA SlotLimits ==
    ASSUME NEW n, NEW c, Slot(n, c)
    PROVE  /\ Limit(n, c).maximum \in Nat \ {0} /\ Limit(n, c).seconds \in Nat \ {0}
           /\ Limit(n, c).maximum <= MaxExpirations /\ MaxExpirations \in Nat
           /\ n \in Names /\ c \in Commands \union {Whatever}
<1>1. CASE n = Nobody /\ c = Whatever
  BY <1>1, LimitsAre DEF Limit, Names
<1>2. CASE n \in Hunters /\ c \in DOMAIN Limits
  BY <1>2, LimitsAre, NobodyHunts, IdentityConstants DEF Limit, Names
<1> QED
  BY <1>1, <1>2 DEF Slot

(* What counts is finite, and less and less counts.                         *)
LEMMA LiveIs ==
    ASSUME NEW S, NEW k, ServedShape(S, k), NEW n, NEW c, Slot(n, c), NEW t \in Nat
    PROVE  /\ IsFiniteSet(LiveAt(S, n, c, t)) /\ Cardinality(LiveAt(S, n, c, t)) \in Nat
           /\ LiveAt(S, n, c, t) \subseteq S
           /\ \A u \in Nat : t <= u =>
                 /\ LiveAt(S, n, c, u) \subseteq LiveAt(S, n, c, t)
                 /\ Cardinality(LiveAt(S, n, c, u)) \in Nat
                 /\ Cardinality(LiveAt(S, n, c, u)) <= Cardinality(LiveAt(S, n, c, t))
<1>1. LiveAt(S, n, c, t) \in SUBSET S
  BY DEF LiveAt
<1>2. IsFiniteSet(LiveAt(S, n, c, t))
  BY <1>1, FS_Subset DEF ServedShape
<1>3. ASSUME NEW u \in Nat, t <= u
      PROVE  /\ LiveAt(S, n, c, u) \in SUBSET LiveAt(S, n, c, t)
             /\ Cardinality(LiveAt(S, n, c, u)) \in Nat
             /\ Cardinality(LiveAt(S, n, c, u)) <= Cardinality(LiveAt(S, n, c, t))
  <2>1. Limit(n, c).seconds \in Nat /\ \A e \in S : e.at \in Int
    BY SlotLimits DEF ServedShape, Services
  <2>2. LiveAt(S, n, c, u) \in SUBSET LiveAt(S, n, c, t)
    BY <1>3, <2>1 DEF LiveAt
  <2> QED
    BY <1>2, <2>2, FS_Subset, FS_CardinalityType
<1> QED
  BY <1>1, <1>2, <1>3, FS_CardinalityType

(* The times of a window, of a sound game. *)
LEMMA ExpirationsAre ==
    ASSUME NEW g, NEW D, SoundWindows(g.windows, D), NEW n, NEW c
    PROVE  /\ Ordered(Expirations(g, n, c)) /\ Len(Expirations(g, n, c)) \in 0..MaxExpirations
           /\ \A w \in Window(g, n, c) : Expirations(g, n, c) = w.expires
           /\ Window(g, n, c) = {} => Expirations(g, n, c) = <<>>
<1> DEFINE old == {w.expires : w \in Window(g, n, c)}
<1>1. \A v, w \in Window(g, n, c) : v = w
  BY DEF Window, SoundWindows, Twins
<1>2. ASSUME NEW w \in Window(g, n, c)
      PROVE  /\ Expirations(g, n, c) = w.expires /\ Ordered(w.expires)
             /\ Len(w.expires) \in 0..MaxExpirations
  <2>1. old = {w.expires}
    BY <1>1
  <2>2. Expirations(g, n, c) = w.expires
    BY <2>1 DEF Expirations
  <2>3. SoundWindow(w)
    BY DEF Window, SoundWindows
  <2> QED
    BY <2>2, <2>3, LimitsAre DEF SoundWindow, ThrottleWindow, Ordered, Times
<1>3. CASE Window(g, n, c) = {}
  <2>1. Expirations(g, n, c) = <<>>
    BY <1>3 DEF Expirations
  <2> QED
    BY <1>3, <2>1, ShortOrdered, LimitsAre
<1> QED
  BY <1>2, <1>3

(* A game whose windows say the same, at this time or later. *)
SameTimes(g, h) ==
    /\ h.now \in Nat /\ g.now \in Nat /\ g.now <= h.now
    /\ \A n, c, t : Slot(n, c) /\ t \in Nat /\ t >= h.now
          => After(Expirations(h, n, c), t) = After(Expirations(g, n, c), t)

(* Such a game remembers as much.                                           *)
LEMMA SameTimesRemember ==
    ASSUME NEW g, NEW h, NEW S, NEW M, NEW k, MemoryOf(g, S, M, k), SameTimes(g, h)
    PROVE  MemoryOf(h, S, M, k)
<1> SUFFICES ASSUME NEW n, NEW c, Slot(n, c)
             PROVE  Remembers(h, S, n, c) /\ Within(h, S, M, n, c)
  BY DEF MemoryOf
<1>1. g.now \in Nat /\ h.now \in Nat /\ g.now <= h.now
  BY DEF SameTimes
<1>2. Remembers(g, S, n, c) /\ Within(g, S, M, n, c) /\ ServedShape(S, k)
  BY DEF MemoryOf
<1>3. Remembers(h, S, n, c)
  <2> SUFFICES ASSUME NEW t \in Nat, t >= h.now
               PROVE  After(Expirations(h, n, c), t)
                        = Least(MaxExpirations, Cardinality(LiveAt(S, n, c, t)))
    BY DEF Remembers
  <2>1. t >= g.now
    BY <1>1
  <2>2. After(Expirations(h, n, c), t) = After(Expirations(g, n, c), t)
    BY DEF SameTimes
  <2> QED
    BY <1>2, <2>1, <2>2 DEF Remembers
<1>4. Within(h, S, M, n, c)
  <2>1. /\ Cardinality(LiveAt(S, n, c, h.now)) \in Nat /\ Cardinality(LiveAt(S, n, c, g.now)) \in Nat
        /\ Cardinality(LiveAt(S, n, c, h.now)) <= Cardinality(LiveAt(S, n, c, g.now))
    BY <1>1, <1>2, LiveIs
  <2>2. Limit(n, c).maximum \in Nat
    BY SlotLimits
  <2> QED
    BY <1>2, <2>1, <2>2 DEF Within
<1> QED
  BY <1>3, <1>4

(* Time, and what does not touch the windows. *)
LEMMA SameWindowsTimes ==
    ASSUME NEW g, NEW h, h.windows = g.windows, g.now \in Nat, h.now \in Nat, g.now <= h.now
    PROVE  SameTimes(g, h)
BY DEF SameTimes, Expirations, Window

(* A window that says it is full keeps its times. *)
LEMMA RefuseTimes ==
    ASSUME NEW g, Sound(g), NEW w \in g.windows
    PROVE  SameTimes(g, Refuse(g, w))
<1> DEFINE h == Refuse(g, w)
           v == [w EXCEPT !.notice = g.now + NoticeInterval]
<1>1. /\ g.now \in Nat /\ SoundWindows(g.windows, DOMAIN g.players) /\ w \in ThrottleWindow
      /\ "windows" \in DOMAIN g
  BY DEF Sound, Typed, GameState, SoundWindows, SoundWindow
<1>2. v.of = w.of /\ v.command = w.command /\ v.expires = w.expires
  BY <1>1 DEF ThrottleWindow
<1> HIDE DEF v
<1>3. CASE Noticed(g, w)
  <2>1. h = Replace(g, v)
    BY <1>3 DEF Refuse, v
  <2> HIDE DEF h
  <2>2. h.windows = (g.windows \ Window(g, v.of, v.command)) \union {v} /\ h.now = g.now
    BY <1>1, <2>1 DEF Replace
  <2>3. Window(g, v.of, v.command) = {w}
    BY <1>1, <1>2 DEF Window, SoundWindows, Twins
  <2>4. ASSUME NEW n, NEW c PROVE Expirations(h, n, c) = Expirations(g, n, c)
    <3>1. CASE n = w.of /\ c = w.command
      <4>1. Window(h, n, c) = {v} /\ Window(g, n, c) = {w}
        BY <1>2, <2>2, <2>3, <3>1 DEF Window
      <4> QED
        BY <1>2, <4>1 DEF Expirations
    <3>2. CASE ~(n = w.of /\ c = w.command)
      <4>1. Window(h, n, c) = Window(g, n, c)
        BY <1>2, <2>2, <3>2 DEF Window
      <4> QED
        BY <4>1 DEF Expirations
    <3> QED
      BY <3>1, <3>2
  <2> QED
    BY <1>1, <2>2, <2>4 DEF SameTimes, h
<1>4. CASE ~Noticed(g, w)
  <2>1. h = g
    BY <1>4 DEF Refuse
  <2> QED
    BY <1>1, <2>1 DEF SameTimes
<1> QED
  BY <1>3, <1>4

(* What has expired counts for nothing. *)
LEMMA PruneTimes ==
    ASSUME NEW g, Sound(g)
    PROVE  SameTimes(g, Prune(g))
<1> DEFINE later(w) == SubSeq(w.expires, UpTo(w.expires, g.now) + 1, Len(w.expires))
           pruned(w) == [w EXCEPT !.expires = later(w),
                                  !.notice = IF Len(later(w)) >= LimitOf(w).maximum THEN @ ELSE 0]
           kept == {v \in g.windows : later(v) # <<>>}
           h == Prune(g)
<1>1. /\ g.now \in Nat /\ SoundWindows(g.windows, DOMAIN g.players) /\ "windows" \in DOMAIN g
      /\ h.now = g.now
  BY DEF Sound, Typed, GameState, Prune
<1>2. h.windows = {pruned(w) : w \in kept}
  BY <1>1 DEF Prune
<1>3. ASSUME NEW w \in g.windows
      PROVE  /\ pruned(w).of = w.of /\ pruned(w).command = w.command
             /\ pruned(w).expires = later(w)
             /\ \A t \in Nat : t >= g.now => After(later(w), t) = After(w.expires, t)
  <2>1. w \in ThrottleWindow /\ Ordered(w.expires)
    BY <1>1 DEF SoundWindows, SoundWindow, ThrottleWindow, Ordered, Times
  <2>2. /\ pruned(w).of = w.of /\ pruned(w).command = w.command
        /\ pruned(w).expires = later(w)
    <3> HIDE DEF later
    <3> QED
      BY <2>1 DEF ThrottleWindow
  <2>3. ASSUME NEW t \in Nat, t >= g.now PROVE After(later(w), t) = After(w.expires, t)
    <3>1. UpTo(w.expires, g.now) \in 0..Len(w.expires) /\ Len(w.expires) \in Nat
      BY <1>1, <2>1, UpToSplits
    <3>2. PICK k \in Nat : k = UpTo(w.expires, g.now) /\ k <= Len(w.expires)
      BY <3>1
    <3>3. After(SubSeq(w.expires, k + 1, Len(w.expires)), t) = Least(Len(w.expires) - k, After(w.expires, t))
      BY <2>1, <3>2, TailCounts
    <3>4. Len(w.expires) - k = After(w.expires, g.now)
      BY <3>2 DEF After
    <3>5. /\ After(w.expires, t) <= After(w.expires, g.now)
          /\ After(w.expires, t) \in Nat /\ After(w.expires, g.now) \in Nat
      BY <1>1, <2>1, <2>3, AfterIs
    <3>6. Least(Len(w.expires) - k, After(w.expires, t)) = After(w.expires, t)
      BY <3>4, <3>5 DEF Least
    <3> QED
      BY <3>2, <3>3, <3>6
  <2> QED
    BY <2>2, <2>3
<1> HIDE DEF pruned, later, h
<1>4. ASSUME NEW n, NEW c, NEW t \in Nat, t >= g.now
      PROVE  After(Expirations(h, n, c), t) = After(Expirations(g, n, c), t)
  <2>1. CASE Window(g, n, c) = {}
    <3>1. Window(h, n, c) = {}
      BY <1>2, <1>3, <2>1 DEF Window
    <3> QED
      BY <2>1, <3>1 DEF Expirations
  <2>2. CASE Window(g, n, c) # {}
    <3>1. PICK w \in Window(g, n, c) : TRUE
      BY <2>2
    <3>2. Window(g, n, c) = {w} /\ w \in g.windows /\ w.of = n /\ w.command = c
      BY <1>1, <3>1 DEF Window, SoundWindows, Twins
    <3>3. Expirations(g, n, c) = w.expires
      BY <3>2 DEF Expirations
    <3>4. CASE w \in kept
      <4>1. Window(h, n, c) = {pruned(w)}
        BY <1>2, <1>3, <3>2, <3>4 DEF Window
      <4>2. Expirations(h, n, c) = later(w)
        BY <1>3, <3>2, <4>1 DEF Expirations
      <4> QED
        BY <1>3, <1>4, <3>2, <3>3, <4>2
    <3>5. CASE w \notin kept
      <4>1. Window(h, n, c) = {}
        BY <1>2, <1>3, <3>2, <3>5 DEF Window
      <4>2. Expirations(h, n, c) = <<>> /\ later(w) = <<>>
        BY <3>2, <3>5, <4>1 DEF Expirations
      <4> QED
        BY <1>3, <1>4, <3>2, <3>3, <4>2
    <3> QED
      BY <3>4, <3>5
  <2> QED
    BY <2>1, <2>2
<1> QED
  BY <1>1, <1>4 DEF SameTimes, h

(* A command counted, by a window with room for it, and in the history.     *)
LEMMA CountRemembers ==
    ASSUME NEW g, NEW h, g.now \in Nat, h.now = g.now, NEW S, NEW k, ServedShape(S, k),
           NEW n, NEW c, Slot(n, c), Remembers(g, S, n, c),
           Ordered(Expirations(g, n, c)), Len(Expirations(g, n, c)) < Limit(n, c).maximum,
           Expirations(h, n, c) = InOrder(Expirations(g, n, c), <<g.now + Limit(n, c).seconds>>),
           NEW e, e \notin S, e.of = n, e.command = c, e.at = g.now,
           NEW F, \A f \in F : ~(f.of = n /\ f.command = c), NEW M
    PROVE  LET T == S \union {e} \union F
           IN  Remembers(h, T, n, c) /\ Within(h, T, M, n, c)
<1> DEFINE s == Expirations(g, n, c)
           sec == Limit(n, c).seconds
           max == Limit(n, c).maximum
           T == S \union {e} \union F
           live(t) == Cardinality(LiveAt(S, n, c, t))
<1>1. /\ max \in Nat /\ sec \in Nat \ {0} /\ max <= MaxExpirations /\ MaxExpirations \in Nat
      /\ g.now + sec \in Times
  BY SlotLimits DEF Times
<1>2. \A t \in Nat : live(t) \in Nat /\ IsFiniteSet(LiveAt(S, n, c, t))
  BY LiveIs
<1>3. live(g.now) < max
  <2>1. After(s, g.now) = Least(MaxExpirations, live(g.now))
    BY DEF Remembers
  <2>2. After(s, g.now) \in Nat /\ After(s, g.now) <= Len(s) /\ Len(s) \in Nat
    BY AfterIs
  <2> HIDE DEF s, live, max
  <2>3. live(g.now) \in Nat
    BY <1>2
  <2> QED
    BY <1>1, <2>1, <2>2, <2>3 DEF Least, s, max
<1>4. ASSUME NEW t \in Nat, t >= g.now PROVE live(t) < max
  <2>1. g.now <= t
    BY <1>4
  <2>2. Cardinality(LiveAt(S, n, c, t)) <= Cardinality(LiveAt(S, n, c, g.now))
    BY <2>1, LiveIs
  <2>3. PICK i \in Nat, j \in Nat : /\ i = Cardinality(LiveAt(S, n, c, t))
                                    /\ j = Cardinality(LiveAt(S, n, c, g.now))
    BY <1>2
  <2>4. j < max /\ i <= j
    BY <1>3, <2>2, <2>3
  <2> HIDE DEF max
  <2> QED
    BY <1>1, <2>3, <2>4
<1>5. ASSUME NEW t \in Nat, t >= g.now
      PROVE  Cardinality(LiveAt(T, n, c, t)) = live(t) + (IF g.now + sec > t THEN 1 ELSE 0)
  <2>1. CASE g.now + sec > t
    <3>1. LiveAt(T, n, c, t) = LiveAt(S, n, c, t) \union {e}
      BY <2>1 DEF LiveAt
    <3>2. e \notin LiveAt(S, n, c, t)
      BY DEF LiveAt
    <3>3. Cardinality(LiveAt(S, n, c, t) \union {e}) = Cardinality(LiveAt(S, n, c, t)) + 1
      BY <1>2, <3>2, FS_AddElement
    <3> QED
      BY <2>1, <3>1, <3>3
  <2>2. CASE ~(g.now + sec > t)
    <3>1. LiveAt(T, n, c, t) = LiveAt(S, n, c, t)
      BY <2>2 DEF LiveAt
    <3> HIDE DEF T
    <3>2. live(t) \in Nat
      BY <1>2
    <3> QED
      BY <2>2, <3>1, <3>2
  <2> QED
    BY <2>1, <2>2
<1>6. ASSUME NEW t \in Nat, t >= g.now
      PROVE  After(Expirations(h, n, c), t) = live(t) + (IF g.now + sec > t THEN 1 ELSE 0)
  <2>1. PICK x \in Times : x = g.now + sec
    BY <1>1
  <2>2. Ordered(<<x>>) /\ After(<<x>>, t) = IF x > t THEN 1 ELSE 0
    BY ShortOrdered, ShortCounts
  <2>3. After(InOrder(s, <<x>>), t) = After(s, t) + After(<<x>>, t)
    BY <2>2, InOrderCounts
  <2>4. After(s, t) = Least(MaxExpirations, live(t))
    BY <1>6 DEF Remembers
  <2>5. live(t) \in Nat /\ live(t) < max
    BY <1>2, <1>4, <1>6
  <2> HIDE DEF s, live, max
  <2>6. After(s, t) = live(t)
    BY <1>1, <2>4, <2>5 DEF Least
  <2>7. Expirations(h, n, c) = InOrder(s, <<x>>)
    BY <2>1 DEF s
  <2> QED
    BY <2>1, <2>2, <2>3, <2>6, <2>7
<1> HIDE DEF T, live, s, sec, max
<1>7. Remembers(h, T, n, c)
  <2> SUFFICES ASSUME NEW t \in Nat, t >= h.now
               PROVE  After(Expirations(h, n, c), t)
                        = Least(MaxExpirations, Cardinality(LiveAt(T, n, c, t)))
    BY DEF Remembers
  <2>1. PICK i \in Nat : i = live(t) + (IF g.now + sec > t THEN 1 ELSE 0) /\ i <= max
    <3>1. live(t) \in Nat /\ live(t) < max
      BY <1>2, <1>4
    <3> QED
      BY <1>1, <3>1
  <2>2. After(Expirations(h, n, c), t) = i /\ Cardinality(LiveAt(T, n, c, t)) = i
    BY <1>5, <1>6, <2>1
  <2>3. i <= MaxExpirations
    BY <1>1, <2>1
  <2> QED
    BY <1>1, <2>2, <2>3 DEF Least
<1>8. Within(h, T, M, n, c)
  <2>1. live(g.now) \in Nat /\ live(g.now) < max
    BY <1>2, <1>3
  <2>2. Cardinality(LiveAt(T, n, c, g.now)) = live(g.now) + (IF g.now + sec > g.now THEN 1 ELSE 0)
    BY <1>5
  <2>3. Cardinality(LiveAt(T, n, c, g.now)) <= max
    BY <1>1, <2>1, <2>2
  <2> QED
    BY <2>3 DEF Within, max
<1> QED
  BY <1>7, <1>8 DEF T

(* A command that does not count for a hunter leaves its windows alone.     *)
LEMMA OthersRemember ==
    ASSUME NEW g, NEW h, h.now = g.now, NEW n, NEW c, Window(h, n, c) = Window(g, n, c),
           NEW S, NEW T, \A t : LiveAt(T, n, c, t) = LiveAt(S, n, c, t),
           NEW M, NEW N, M \subseteq N, Remembers(g, S, n, c), Within(g, S, M, n, c)
    PROVE  Remembers(h, T, n, c) /\ Within(h, T, N, n, c)
<1>1. Expirations(h, n, c) = Expirations(g, n, c)
  BY DEF Expirations
<1> QED
  BY <1>1 DEF Remembers, Within

(* A window with room has less than its limit. *)
LEMMA OpenHasRoom ==
    ASSUME NEW g, Sound(g), NEW n, NEW c, Slot(n, c), Open(g, n, c)
    PROVE  Len(Expirations(g, n, c)) < Limit(n, c).maximum
<1>1. /\ SoundWindows(g.windows, DOMAIN g.players)
      /\ Limit(n, c).maximum \in Nat \ {0} /\ MaxExpirations \in Nat
  BY SlotLimits DEF Sound
<1>2. CASE Window(g, n, c) = {}
  <2>1. Expirations(g, n, c) = <<>> /\ Len(<<>>) = 0
    BY <1>1, <1>2, ExpirationsAre
  <2> QED
    BY <1>1, <2>1
<1>3. CASE Window(g, n, c) # {}
  <2>1. PICK w \in Window(g, n, c) : TRUE
    BY <1>3
  <2>2. Expirations(g, n, c) = w.expires /\ Len(Expirations(g, n, c)) \in 0..MaxExpirations
    BY <1>1, ExpirationsAre
  <2>3. w.of = n /\ w.command = c /\ ~IsFull(w)
    BY DEF Window, Open
  <2>4. LimitOf(w) = Limit(n, c)
    BY <2>3 DEF LimitOf, Limit
  <2>5. ~(Len(w.expires) >= Limit(n, c).maximum) /\ Len(w.expires) \in Nat
    BY <1>1, <2>2, <2>3, <2>4 DEF IsFull
  <2> QED
    BY <1>1, <2>2, <2>5
<1> QED
  BY <1>2, <1>3

(* A command admitted.                                                      *)
LEMMA AdmitRemembers ==
    ASSUME NEW g, Sound(g), NEW n \in DOMAIN g.players, NEW c \in Commands, Blocking(g, n, c) = {},
           NEW S, NEW M, NEW k \in Nat, MemoryOf(g, S, M, k)
    PROVE  MemoryOf(Admit(g, n, c),
                    S \union {Serving(n, k, c, g.now), Serving(Nobody, k, Whatever, g.now)},
                    M, k + 1)
<1> DEFINE own == IF c \in DOMAIN Limits THEN Count(g, n, c, Limits[c]) ELSE g
           h == Admit(g, n, c)
           e == Serving(n, k, c, g.now)
           f == Serving(Nobody, k, Whatever, g.now)
           T == S \union {e, f}
<1>1. Open(g, n, c) /\ Open(g, Nobody, Whatever)
  BY DEF Blocking, Open
<1>2. n \in Hunters /\ n # Nobody /\ g.now \in Nat /\ SoundWindows(g.windows, DOMAIN g.players)
  BY NobodyHunts DEF Sound, Typed, GameState
<1>3. ServedShape(S, k) /\ Nobody \notin M
  BY DEF MemoryOf
<1>4. /\ e.by = n /\ e.nth = k /\ e.of = n /\ e.command = c /\ e.at = g.now
      /\ f.by = Nobody /\ f.nth = k /\ f.of = Nobody /\ f.command = Whatever /\ f.at = g.now
      /\ e \in Services /\ f \in Services
  BY <1>2 DEF Serving, Services, Names
<1> HIDE DEF e, f
<1>5. e \notin S /\ f \notin S
  BY <1>3, <1>4 DEF ServedShape
<1>6. ServedShape(T, k + 1)
  <2>1. IsFiniteSet(T)
    <3>1. IsFiniteSet(S \union {e})
      BY <1>3, FS_AddElement DEF ServedShape
    <3>2. IsFiniteSet((S \union {e}) \union {f})
      BY <3>1, FS_AddElement
    <3>3. (S \union {e}) \union {f} = T
      OBVIOUS
    <3> QED
      BY <3>2, <3>3
  <2>2. T \subseteq Services /\ \A x \in T : x.nth < k + 1
    <3>1. \A x \in S : x.nth \in Int /\ x.nth < k
      BY <1>3 DEF ServedShape, Services
    <3>2. \A x \in T : x = e \/ x = f \/ x \in S
      OBVIOUS
    <3> QED
      BY <1>3, <1>4, <3>1, <3>2 DEF ServedShape
  <2>3. ASSUME NEW x \in T, NEW y \in T, x.by = y.by, x.nth = y.nth, x.command = y.command
        PROVE  x = y
    <3>1. \A z \in S : z.nth # k
      BY <1>3 DEF ServedShape, Services
    <3> QED
      BY <1>2, <1>3, <1>4, <2>3, <3>1 DEF ServedShape
  <2> QED
    BY <2>1, <2>2, <2>3 DEF ServedShape
<1>7. /\ Sound(own) /\ SameGame(g, own) /\ Open(own, Nobody, Whatever)
      /\ \A m, d : ~(m = n /\ d = c) \/ c \notin DOMAIN Limits => Window(own, m, d) = Window(g, m, d)
      /\ c \in DOMAIN Limits => Expirations(own, n, c)
                                  = InOrder(Expirations(g, n, c), <<g.now + Limits[c].seconds>>)
  <2>1. CASE c \in DOMAIN Limits
    <3>1. own = Count(g, n, c, Limits[c])
      BY <2>1
    <3>2. /\ Sound(own) /\ SameGame(g, own)
          /\ \A m, d : ~(m = n /\ d = c) => Window(own, m, d) = Window(g, m, d)
          /\ Expirations(own, n, c)
               = InOrder(Expirations(g, n, c), <<g.now + Limits[c].seconds>>)
      <4> HIDE DEF own
      <4> QED
        BY <1>1, <2>1, <3>1, CountsOnce
    <3> HIDE DEF own
    <3> QED
      BY <1>1, <1>2, <2>1, <3>2 DEF Open
  <2>2. CASE c \notin DOMAIN Limits
    BY <1>1, <2>2 DEF SameGame
  <2> QED
    BY <2>1, <2>2
<1> HIDE DEF own
<1>8. h = Count(own, Nobody, Whatever, ChannelLimit)
  BY DEF Admit, own
<1> HIDE DEF h
<1>9. /\ Sound(h) /\ SameGame(own, h)
      /\ \A m, d : ~(m = Nobody /\ d = Whatever) => Window(h, m, d) = Window(own, m, d)
      /\ Expirations(h, Nobody, Whatever)
           = InOrder(Expirations(own, Nobody, Whatever), <<own.now + ChannelLimit.seconds>>)
  BY <1>7, <1>8, CountsOnce
<1>10. own.now = g.now /\ h.now = g.now
  BY <1>7, <1>9 DEF SameGame
<1> DEFINE Right(m, d) == Remembers(h, T, m, d) /\ Within(h, T, M, m, d)
<1>11. Right(Nobody, Whatever)
  <2>1. Slot(Nobody, Whatever)
    BY DEF Slot
  <2>2. Remembers(g, S, Nobody, Whatever)
    BY <2>1 DEF MemoryOf
  <2>3. Window(own, Nobody, Whatever) = Window(g, Nobody, Whatever)
    BY <1>2, <1>7
  <2>4. Expirations(own, Nobody, Whatever) = Expirations(g, Nobody, Whatever)
    BY <2>3 DEF Expirations
  <2>5. Limit(Nobody, Whatever) = ChannelLimit
    BY DEF Limit
  <2>6. Ordered(Expirations(g, Nobody, Whatever))
    BY <1>2, ExpirationsAre
  <2>7. Len(Expirations(g, Nobody, Whatever)) < Limit(Nobody, Whatever).maximum
    BY <1>1, <2>1, OpenHasRoom
  <2>8. Expirations(h, Nobody, Whatever)
           = InOrder(Expirations(g, Nobody, Whatever),
                     <<g.now + Limit(Nobody, Whatever).seconds>>)
    BY <1>9, <1>10, <2>4, <2>5
  <2>9. T = S \union {f} \union {e} /\ \A x \in {e} : ~(x.of = Nobody /\ x.command = Whatever)
    BY <1>2, <1>4
  <2> HIDE DEF T
  <2> QED
    BY <1>2, <1>3, <1>4, <1>5, <1>10, <2>1, <2>2, <2>6, <2>7, <2>8, <2>9, CountRemembers
<1>12. ASSUME c \in DOMAIN Limits PROVE Right(n, c)
  <2>1. Slot(n, c)
    BY <1>2, <1>12 DEF Slot
  <2>2. Remembers(g, S, n, c)
    BY <2>1 DEF MemoryOf
  <2>3. Window(h, n, c) = Window(own, n, c)
    BY <1>2, <1>9
  <2>4. Expirations(h, n, c) = Expirations(own, n, c)
    BY <2>3 DEF Expirations
  <2>5. Limit(n, c) = Limits[c]
    BY <1>2 DEF Limit
  <2>6. Ordered(Expirations(g, n, c))
    BY <1>2, ExpirationsAre
  <2>7. Len(Expirations(g, n, c)) < Limit(n, c).maximum
    BY <1>1, <2>1, OpenHasRoom
  <2>8. Expirations(h, n, c)
           = InOrder(Expirations(g, n, c), <<g.now + Limit(n, c).seconds>>)
    BY <1>7, <1>12, <2>4, <2>5
  <2>9. T = S \union {e} \union {f} /\ \A x \in {f} : ~(x.of = n /\ x.command = c)
    BY <1>2, <1>4
  <2> HIDE DEF T
  <2> QED
    BY <1>2, <1>3, <1>4, <1>5, <1>10, <2>1, <2>2, <2>6, <2>7, <2>8, <2>9, CountRemembers
<1>13. ASSUME NEW m, NEW d, Slot(m, d), ~(m = Nobody /\ d = Whatever), ~(m = n /\ d = c)
       PROVE  Right(m, d)
  <2>1. Window(h, m, d) = Window(g, m, d)
    BY <1>7, <1>9, <1>13
  <2>2. ASSUME NEW t PROVE LiveAt(T, m, d, t) = LiveAt(S, m, d, t)
    BY <1>4, <1>13 DEF LiveAt
  <2>3. Remembers(g, S, m, d) /\ Within(g, S, M, m, d)
    BY <1>13 DEF MemoryOf
  <2> HIDE DEF T
  <2> QED
    BY <1>10, <2>1, <2>2, <2>3, OthersRemember
<1>14. ASSUME NEW m, NEW d, Slot(m, d) PROVE Right(m, d)
  <2>1. m = n /\ d = c => c \in DOMAIN Limits
    BY <1>2, <1>14 DEF Slot
  <2> HIDE DEF Right
  <2> QED
    BY <1>11, <1>12, <1>13, <1>14, <2>1
<1> QED
  BY <1>3, <1>6, <1>14 DEF MemoryOf, T, h, e, f

(* The history of a step is one of the next.                                *)
LEMMA MemoryGrows ==
    ASSUME NEW g, NEW S, NEW M, NEW k \in Nat, MemoryOf(g, S, M, k)
    PROVE  MemoryOf(g, S, M, k + 1)
<1>1. ServedShape(S, k) /\ \A e \in S : e.nth \in Int
  BY DEF MemoryOf, ServedShape, Services
<1>2. ServedShape(S, k + 1)
  BY <1>1 DEF ServedShape
<1> QED
  BY <1>2 DEF MemoryOf

(* An admission, or a refusal, remembers the command it lets through.       *)
LEMMA AdmissionRemembers ==
    ASSUME NEW b, DOMAIN b = {"game", "served", "merged"}, Sound(b.game),
           NEW n \in Hunters, NEW c \in Commands, NEW t \in Nat, b.game.now <= t,
           steps \in Nat, MemoryOf(b.game, b.served, b.merged, steps)
    PROVE  LET a == Admission(b, n, c, t)
           IN  MemoryOf(a.game, a.served, a.merged, steps + 1)
<1> DEFINE f == Advance(b.game, t)
           g == Prune(f)
           blocking == Blocking(g, n, c)
           h == Admit(g, n, c)
           q == Resolved(g, n)
           k == WithPlayer(g, n, q)
           a == Admission(b, n, c, t)
           S == b.served
           M == b.merged
<1>1. Sound(f) /\ f.now = t /\ f.windows = b.game.windows /\ b.game.now \in Nat
  BY AdvanceSound DEF Sound, Typed, GameState
<1>2. MemoryOf(f, S, M, steps)
  <2>1. SameTimes(b.game, f)
    BY <1>1, SameWindowsTimes
  <2> HIDE DEF f
  <2> QED
    BY <2>1, SameTimesRemember
<1> HIDE DEF f
<1>3. Sound(g) /\ g.now = t
  BY <1>1, PruneSound DEF SameGame
<1>4. MemoryOf(g, S, M, steps)
  <2>1. SameTimes(f, g)
    BY <1>1, PruneTimes
  <2> HIDE DEF g
  <2> QED
    BY <1>2, <2>1, SameTimesRemember
<1> HIDE DEF g
<1>5. CASE blocking = {}
  <2>1. SoundPlayer(q, g.now)
    <3>1. g.now \in Nat
      BY <1>3
    <3> QED
      BY <1>3, <3>1, NewcomerSound DEF Resolved, Known, Sound, SoundPlayers
  <2>2. /\ Sound(k) /\ k.windows = g.windows /\ k.now = g.now /\ n \in DOMAIN k.players
    BY <1>3, <2>1, WithPlayerSound
  <2> HIDE DEF k, q
  <2>3. Blocking(k, n, c) = {}
    BY <1>5, <2>2 DEF Blocking, Window
  <2>4. MemoryOf(k, S, M, steps)
    <3>1. SameTimes(g, k)
      BY <1>3, <2>2, SameWindowsTimes
    <3> QED
      BY <1>4, <3>1, SameTimesRemember
  <2> DEFINE T == S \union {Serving(n, steps, c, t), Serving(Nobody, steps, Whatever, t)}
  <2>5. MemoryOf(Admit(k, n, c), T, M, steps + 1)
    BY <1>3, <2>2, <2>3, <2>4, AdmitRemembers
  <2>6. PICK W : h = WithWindows(g, W) /\ Admit(k, n, c) = WithWindows(k, W)
    BY <1>3, <2>2, AdmitIs
  <2>7. a = [b EXCEPT !.game = WithPlayer(h, n, Resolved(h, n)),
                      !.served = @ \union {Serving(n, steps, c, t),
                                           Serving(Nobody, steps, Whatever, t)}]
    BY <1>5 DEF Admission, f, g
  <2>8. /\ a.game = WithPlayer(h, n, Resolved(h, n)) /\ a.served = T /\ a.merged = M
    BY <2>7
  <2>9. g \in GameState(DOMAIN g.players) /\ k \in GameState(DOMAIN k.players)
    BY <1>3, <2>2 DEF Sound, Typed
  <2>10. h.windows = W /\ h.now = t /\ "windows" \in DOMAIN h /\ "now" \in DOMAIN h
    BY <1>3, <2>6, <2>9 DEF GameState, WithWindows
  <2> HIDE DEF h, T, a
  <2>11. a.game.windows = W /\ a.game.now = t
    BY <2>8, <2>10 DEF WithPlayer
  <2>12. Admit(k, n, c).windows = W /\ Admit(k, n, c).now = t
    BY <1>3, <2>2, <2>6, <2>9 DEF GameState, WithWindows
  <2>13. SameTimes(Admit(k, n, c), a.game)
    BY <2>11, <2>12, SameWindowsTimes
  <2>14. MemoryOf(a.game, T, M, steps + 1)
    BY <2>5, <2>13, SameTimesRemember
  <2> QED
    BY <2>8, <2>14 DEF a
<1>6. CASE blocking # {}
  <2>1. PICK w \in blocking : w = CHOOSE v \in blocking : TRUE
    BY <1>6
  <2>2. w \in g.windows
    BY <2>1 DEF Blocking, Window
  <2>3. a = [b EXCEPT !.game = Refuse(g, w)]
    BY <1>6, <2>1 DEF Admission, f, g
  <2>4. a.game = Refuse(g, w) /\ a.served = S /\ a.merged = M
    BY <2>3
  <2> HIDE DEF blocking, a
  <2>5. SameTimes(g, Refuse(g, w))
    BY <1>3, <2>2, RefuseTimes
  <2>6. MemoryOf(Refuse(g, w), S, M, steps)
    BY <1>4, <2>5, SameTimesRemember
  <2> QED
    BY <2>4, <2>6, MemoryGrows DEF a
<1> QED
  BY <1>5, <1>6

-----------------------------------------------------------------------------
(* A profile under another name. *)

(* Two finite sets whose elements go in pairs have as many.                 *)
LEMMA Paired ==
    ASSUME NEW S, IsFiniteSet(S), NEW T, NEW F \in [S -> T],
           \A x, y \in S : F[x] = F[y] => x = y, \A y \in T : \E x \in S : F[x] = y
    PROVE  IsFiniteSet(T) /\ Cardinality(T) = Cardinality(S)
<1>1. F \in Bijection(S, T)
  BY DEF Bijection, Injection, Surjection, IsInjective
<1>2. ExistsBijection(S, T)
  BY <1>1 DEF ExistsBijection
<1> QED
  BY <1>2, FS_Bijection

Recalled(e, s, d) == IF e.of = s THEN [e EXCEPT !.of = d] ELSE e
Recollection(S, s, d) == {Recalled(e, s, d) : e \in S}

(* What counted for s counts for d, and is otherwise what it was.           *)
LEMMA RecalledIs ==
    ASSUME NEW e \in Services, NEW s, NEW d \in Names
    PROVE  LET f == Recalled(e, s, d)
           IN  /\ f \in Services /\ f.of = IF e.of = s THEN d ELSE e.of
               /\ f.by = e.by /\ f.nth = e.nth /\ f.command = e.command /\ f.at = e.at
BY DEF Recalled, Services

(* The commands of both count for the one they have become.                 *)
LEMMA RecollectionCounts ==
    ASSUME NEW S, NEW k, ServedShape(S, k), NEW s \in Hunters, NEW d \in Hunters, s # d
    PROVE  LET T == Recollection(S, s, d)
           IN  /\ ServedShape(T, k)
               /\ \A c, t : LiveAt(T, s, c, t) = {}
               /\ \A n, c, t : n # s /\ n # d => LiveAt(T, n, c, t) = LiveAt(S, n, c, t)
               /\ \A c \in DOMAIN Limits, t \in Nat :
                     Cardinality(LiveAt(T, d, c, t))
                        = Cardinality(LiveAt(S, d, c, t)) + Cardinality(LiveAt(S, s, c, t))
<1> DEFINE T == Recollection(S, s, d)
           name(e) == Recalled(e, s, d)
<1>1. S \subseteq Services /\ d \in Names /\ s # Nobody /\ d # Nobody
  BY NobodyHunts DEF ServedShape, Names
<1>2. ASSUME NEW e \in S
      PROVE  /\ name(e) \in Services /\ name(e).of = IF e.of = s THEN d ELSE e.of
             /\ name(e).by = e.by /\ name(e).nth = e.nth /\ name(e).command = e.command
             /\ name(e).at = e.at /\ name(e) \in T
             /\ e.of # s => name(e) = e
  <2>1. e \in Services
    BY <1>1
  <2>2. name(e) \in T /\ (e.of # s => name(e) = e)
    BY DEF Recollection, Recalled
  <2> QED
    BY <1>1, <2>1, <2>2, RecalledIs
<1>3. ASSUME NEW e \in T PROVE \E o \in S : e = name(o)
  BY DEF Recollection
<1>4. \A e, f \in S : name(e) = name(f) => e = f
  BY <1>2 DEF ServedShape
<1> HIDE DEF T, name
<1>5. ServedShape(T, k)
  <2>1. IsFiniteSet(T)
    <3> DEFINE F == [e \in S |-> name(e)]
    <3>1. F \in [S -> T] /\ \A e \in S : F[e] = name(e)
      BY <1>2
    <3> HIDE DEF F
    <3>2. IsFiniteSet(S)
      BY DEF ServedShape
    <3> QED
      BY <1>3, <1>4, <3>1, <3>2, Paired
  <2>2. T \subseteq Services /\ \A e \in T : e.nth < k
    <3>1. \A e \in S : e.nth < k
      BY DEF ServedShape
    <3> QED
      BY <1>2, <1>3, <3>1
  <2>3. ASSUME NEW e \in T, NEW f \in T, e.by = f.by, e.nth = f.nth, e.command = f.command
        PROVE  e = f
    <3>1. PICK o \in S, p \in S : e = name(o) /\ f = name(p)
      BY <1>3
    <3>2. o.by = p.by /\ o.nth = p.nth /\ o.command = p.command
      BY <1>2, <2>3, <3>1
    <3>3. o = p
      BY <3>2 DEF ServedShape
    <3> QED
      BY <3>1, <3>3
  <2> QED
    BY <2>1, <2>2, <2>3 DEF ServedShape
<1>6. ASSUME NEW c, NEW t PROVE LiveAt(T, s, c, t) = {}
  BY <1>2, <1>3 DEF LiveAt
<1>7. ASSUME NEW n, NEW c, NEW t, n # s, n # d PROVE LiveAt(T, n, c, t) = LiveAt(S, n, c, t)
  <2>1. ASSUME NEW e \in LiveAt(T, n, c, t) PROVE e \in LiveAt(S, n, c, t)
    <3>1. e \in T /\ e.of = n /\ e.command = c /\ e.at + Limit(n, c).seconds > t
      BY DEF LiveAt
    <3>2. PICK o \in S : e = name(o)
      BY <1>3, <3>1
    <3>3. e = o
      BY <1>2, <1>7, <3>1, <3>2
    <3> QED
      BY <3>1, <3>3 DEF LiveAt
  <2>2. ASSUME NEW e \in LiveAt(S, n, c, t) PROVE e \in LiveAt(T, n, c, t)
    <3>1. e \in S /\ e.of = n /\ e.command = c /\ e.at + Limit(n, c).seconds > t
      BY DEF LiveAt
    <3>2. e \in T
      BY <1>2, <1>7, <3>1
    <3> QED
      BY <3>1, <3>2 DEF LiveAt
  <2> QED
    BY <2>1, <2>2
<1>8. ASSUME NEW c \in DOMAIN Limits, NEW t \in Nat
      PROVE  Cardinality(LiveAt(T, d, c, t))
                = Cardinality(LiveAt(S, d, c, t)) + Cardinality(LiveAt(S, s, c, t))
  <2> DEFINE A == LiveAt(S, d, c, t)
             B == LiveAt(S, s, c, t)
             C == LiveAt(T, d, c, t)
  <2>1. Limit(d, c) = Limit(s, c) /\ Slot(d, c) /\ Slot(s, c)
    BY <1>1 DEF Limit, Slot
  <2>2. IsFiniteSet(A) /\ IsFiniteSet(B) /\ Cardinality(A) \in Nat /\ Cardinality(B) \in Nat
    BY <2>1, LiveIs
  <2>3. A \intersect B = {}
    BY DEF LiveAt
  <2>4. IsFiniteSet(A \union B) /\ Cardinality(A \union B) = Cardinality(A) + Cardinality(B)
    <3>1. IsFiniteSet(A \union B)
          /\ Cardinality(A \union B) = Cardinality(A) + Cardinality(B) - Cardinality(A \intersect B)
      BY <2>2, FS_Union
    <3>2. Cardinality(A \intersect B) = 0
      BY <2>3, FS_EmptySet
    <3> HIDE DEF A, B
    <3> QED
      BY <2>2, <3>1, <3>2
  <2>5. ASSUME NEW e \in A \union B PROVE e \in S /\ name(e) \in C
    <3>1. e \in S /\ (e.of = d \/ e.of = s) /\ e.command = c /\ e.at + Limit(d, c).seconds > t
      BY <2>1 DEF LiveAt
    <3>2. name(e).of = d /\ name(e).command = c /\ name(e).at = e.at /\ name(e) \in T
      BY <1>2, <3>1
    <3> QED
      BY <3>1, <3>2 DEF LiveAt
  <2>6. ASSUME NEW f \in C PROVE \E e \in A \union B : name(e) = f
    <3>1. f \in T /\ f.of = d /\ f.command = c /\ f.at + Limit(d, c).seconds > t
      BY DEF LiveAt
    <3>2. PICK e \in S : f = name(e)
      BY <1>3, <3>1
    <3>3. (e.of = d \/ e.of = s) /\ e.command = c /\ e.at = f.at
      BY <1>2, <3>1, <3>2
    <3>4. e \in A \union B
      BY <2>1, <3>1, <3>3 DEF LiveAt
    <3> QED
      BY <3>2, <3>4
  <2> DEFINE F == [e \in A \union B |-> name(e)]
  <2> HIDE DEF A, B, C
  <2>7. F \in [A \union B -> C] /\ \A e \in A \union B : F[e] = name(e)
    BY <2>5
  <2> HIDE DEF F
  <2>8. \A x, y \in A \union B : F[x] = F[y] => x = y
    BY <1>4, <2>5, <2>7
  <2>9. Cardinality(C) = Cardinality(A \union B)
    BY <2>4, <2>6, <2>7, <2>8, Paired
  <2> QED
    BY <2>4, <2>9 DEF A, B, C
<1> QED
  BY <1>5, <1>6, <1>7, <1>8 DEF T

(* Of the last times a window keeps, those still to come.                   *)
LEMMA RecentCounts ==
    ASSUME NEW s, Ordered(s), NEW t \in Nat
    PROVE  After(Recent(s), t) = Least(MaxExpirations, After(s, t))
<1>1. Len(s) \in Nat /\ After(s, t) \in Nat /\ After(s, t) <= Len(s)
  BY AfterIs
<1>2. PICK n \in Nat, a \in Nat : n = Len(s) /\ a = After(s, t) /\ a <= n
  BY <1>1
<1>3. PICK k \in Nat : k + 1 = Most(1, n - MaxExpirations + 1) /\ k <= n
  <2>1. PICK m \in Int : m = Most(1, n - MaxExpirations + 1) /\ m >= 1 /\ m - 1 <= n
    BY <1>2 DEF Most, MaxExpirations
  <2>2. m - 1 \in Nat /\ m = (m - 1) + 1
    BY <2>1
  <2> QED
    BY <2>1, <2>2
<1>4. After(SubSeq(s, k + 1, Len(s)), t) = Least(Len(s) - k, After(s, t))
  BY <1>2, <1>3, TailCounts
<1>5. Recent(s) = SubSeq(s, k + 1, Len(s))
  BY <1>2, <1>3 DEF Recent
<1>6. Least(n - k, a) = Least(MaxExpirations, a)
  BY <1>2, <1>3 DEF Most, Least, MaxExpirations
<1> QED
  BY <1>2, <1>4, <1>5, <1>6

(* The windows of s, moved to d.                                            *)
WindowsMoved(g, h, s, d, c) ==
    /\ \A n : n # s /\ n # d => Window(h, n, c) = Window(g, n, c)
    /\ Window(h, s, c) = {}
    /\ Window(g, s, c) = {} => Window(h, d, c) = Window(g, d, c)
    /\ \A w \in Window(g, s, c) :
          /\ Window(g, d, c) = {} => Window(h, d, c) = {MovedTo(w, d)}
          /\ \A v \in Window(g, d, c) : Window(h, d, c) = {Joined(v, MovedTo(w, d))}

(* Every window of s becomes one of d, or joins it.                         *)
LEMMA WindowsOnceAre ==
    ASSUME NEW D \in SUBSET Hunters, NEW g, SoundWindows(g.windows, D), NEW s \in D,
           NEW d \in Hunters, s # d, NEW h, h.windows = WindowsOnce(g.windows, s, d), NEW c
    PROVE  WindowsMoved(g, h, s, d, c)
<1> DEFINE W == g.windows
           kept == {v \in W : v.of # s}
           moved == {MovedTo(w, d) : w \in W \ kept}
           twins(v, w) == v.of = d /\ v.command = w.command
           A == {v \in kept : \A w \in moved : ~twins(v, w)}
           B == {w \in moved : \A v \in kept : ~twins(v, w)}
           C == UNION {{Joined(v, w) : w \in {x \in moved : twins(v, x)}} : v \in kept}
<1>1. h.windows = A \union B \union C
  BY DEF WindowsOnce, MovedTo
<1>2. \A w \in W : SoundWindow(w)
  BY DEF SoundWindows
<1>3. \A v, w \in W : Twins(v, w) => v = w
  BY DEF SoundWindows
<1>4. ASSUME NEW w \in W, w.of = s
      PROVE  /\ MovedTo(w, d) \in moved /\ SoundWindow(MovedTo(w, d))
             /\ MovedTo(w, d).of = d /\ MovedTo(w, d).command = w.command
  <2>1. MovedTo(w, d) \in moved
    BY <1>4
  <2> QED
    BY <1>2, <2>1, MovedSound
<1>5. ASSUME NEW m \in moved PROVE \E w \in W : w.of = s /\ m = MovedTo(w, d)
  OBVIOUS
<1>6. ASSUME NEW x \in C
      PROVE  \E v \in kept, m \in moved : x = Joined(v, m) /\ twins(v, m)
  OBVIOUS
<1>7. ASSUME NEW v \in kept, NEW m \in moved, twins(v, m) PROVE Joined(v, m) \in C
  BY <1>7
<1>8. \A v \in kept : v \in W /\ v.of # s
  OBVIOUS
<1>9. \A v \in W : v.of # s => v \in kept
  OBVIOUS
<1> HIDE DEF kept, moved, C, W
<1>10. ASSUME NEW x \in C
       PROVE  \E v \in W, w \in W : /\ x = Joined(v, MovedTo(w, d)) /\ v.of = d /\ w.of = s
                                    /\ v.command = w.command /\ x.of = d /\ x.command = w.command
  <2>1. PICK v \in kept, m \in moved : x = Joined(v, m) /\ twins(v, m)
    BY <1>6
  <2>2. PICK w \in W : w.of = s /\ m = MovedTo(w, d)
    BY <1>5
  <2>3. SoundWindow(m) /\ m.command = w.command /\ SoundWindow(v) /\ v \in W
    BY <1>2, <1>4, <1>8, <2>2
  <2>4. Twins(v, x)
    BY <2>1, <2>3, JoinedSound
  <2> QED
    BY <2>1, <2>2, <2>3, <2>4 DEF Twins
<1>11. ASSUME NEW n, n # s, n # d PROVE Window(h, n, c) = Window(g, n, c)
  <2>1. ASSUME NEW x \in Window(h, n, c) PROVE x \in Window(g, n, c)
    <3>1. x \in A \union B \union C /\ x.of = n /\ x.command = c
      BY <1>1 DEF Window
    <3>2. x \notin C
      BY <1>10, <1>11, <3>1
    <3>3. x \notin B
      BY <1>4, <1>5, <1>11, <3>1
    <3> QED
      BY <1>8, <3>1, <3>2, <3>3 DEF Window, W
  <2>2. ASSUME NEW x \in Window(g, n, c) PROVE x \in Window(h, n, c)
    <3>1. x \in W /\ x.of = n /\ x.command = c
      BY DEF Window, W
    <3>2. x \in A
      BY <1>9, <1>11, <3>1
    <3> QED
      BY <1>1, <3>1, <3>2 DEF Window
  <2> QED
    BY <2>1, <2>2
<1>12. Window(h, s, c) = {}
  <2> SUFFICES ASSUME NEW x \in h.windows, x.of = s PROVE FALSE
    BY DEF Window
  <2>1. x \notin A
    BY <1>8
  <2>2. x \notin B
    BY <1>4, <1>5
  <2>3. x \notin C
    BY <1>10
  <2> QED
    BY <1>1, <2>1, <2>2, <2>3
<1>13. ASSUME Window(g, s, c) = {} PROVE Window(h, d, c) = Window(g, d, c)
  <2>1. \A w \in W : w.of = s => w.command # c
    BY <1>13 DEF Window, W
  <2>2. ASSUME NEW x \in Window(h, d, c) PROVE x \in Window(g, d, c)
    <3>1. x \in A \union B \union C /\ x.of = d /\ x.command = c
      BY <1>1 DEF Window
    <3>2. x \notin C
      BY <1>10, <2>1, <3>1
    <3>3. x \notin B
      BY <1>4, <1>5, <2>1, <3>1
    <3> QED
      BY <1>8, <3>1, <3>2, <3>3 DEF Window, W
  <2>3. ASSUME NEW x \in Window(g, d, c) PROVE x \in Window(h, d, c)
    <3>1. x \in W /\ x.of = d /\ x.command = c
      BY DEF Window, W
    <3>2. \A m \in moved : m.command # c
      BY <1>4, <1>5, <2>1
    <3>3. x \in A
      BY <1>9, <3>1, <3>2
    <3> QED
      BY <1>1, <3>1, <3>3 DEF Window
  <2> QED
    BY <2>2, <2>3
<1>14. ASSUME NEW w \in Window(g, s, c)
       PROVE  /\ Window(g, d, c) = {} => Window(h, d, c) = {MovedTo(w, d)}
              /\ \A v \in Window(g, d, c) : Window(h, d, c) = {Joined(v, MovedTo(w, d))}
  <2> DEFINE m == MovedTo(w, d)
  <2>1. w \in W /\ w.of = s /\ w.command = c
    BY DEF Window, W
  <2>2. m \in moved /\ SoundWindow(m) /\ m.of = d /\ m.command = c
    BY <1>4, <2>1
  <2>3. \A x \in W : x.of = s /\ x.command = c => x = w
    BY <1>3, <2>1 DEF Twins
  <2>4. ASSUME NEW x \in moved, x.command = c PROVE x = m
    <3>1. PICK y \in W : y.of = s /\ x = MovedTo(y, d)
      BY <1>5
    <3>2. y.command = c
      BY <1>4, <2>4, <3>1
    <3> QED
      BY <2>3, <3>1, <3>2
  <2> HIDE DEF m
  <2>5. ASSUME NEW x \in A, x.of = d, x.command = c PROVE FALSE
    BY <2>2, <2>5
  <2>6. ASSUME Window(g, d, c) = {} PROVE Window(h, d, c) = {m}
    <3>1. \A v \in W : ~(v.of = d /\ v.command = c)
      BY <2>6 DEF Window, W
    <3>2. m \in B
      BY <1>8, <2>2, <3>1
    <3>3. m \in Window(h, d, c)
      BY <1>1, <2>2, <3>2 DEF Window
    <3>4. ASSUME NEW x \in Window(h, d, c) PROVE x = m
      <4>1. x \in A \union B \union C /\ x.of = d /\ x.command = c
        BY <1>1 DEF Window
      <4>2. x \notin C
        BY <1>10, <3>1, <4>1
      <4>3. x \notin A
        BY <2>5, <4>1
      <4> QED
        BY <2>4, <4>1, <4>2, <4>3
    <3> QED
      BY <3>3, <3>4
  <2>7. ASSUME NEW v \in Window(g, d, c) PROVE Window(h, d, c) = {Joined(v, m)}
    <3>1. v \in W /\ v.of = d /\ v.command = c /\ v \in kept
      BY <1>9 DEF Window, W
    <3>2. Joined(v, m) \in C
      BY <1>7, <2>2, <3>1
    <3>3. Twins(v, Joined(v, m))
      BY <1>2, <2>2, <3>1, JoinedSound
    <3>4. Joined(v, m) \in Window(h, d, c)
      BY <1>1, <3>1, <3>2, <3>3 DEF Window, Twins
    <3>5. ASSUME NEW x \in Window(h, d, c) PROVE x = Joined(v, m)
      <4>1. x \in A \union B \union C /\ x.of = d /\ x.command = c
        BY <1>1 DEF Window
      <4>2. x \notin A
        BY <2>5, <4>1
      <4>3. x \notin B
        BY <3>1, <4>1
      <4>4. PICK y \in W, z \in W : /\ x = Joined(y, MovedTo(z, d)) /\ y.of = d /\ z.of = s
                                    /\ y.command = z.command /\ x.command = z.command
        BY <1>10, <4>1, <4>2, <4>3
      <4>5. y = v /\ z = w
        BY <1>3, <2>3, <3>1, <4>1, <4>4 DEF Twins
      <4> QED
        BY <4>4, <4>5 DEF m
    <3> QED
      BY <3>4, <3>5
  <2> QED
    BY <2>6, <2>7 DEF m
<1> QED
  BY <1>11, <1>12, <1>13, <1>14 DEF WindowsMoved

(* What is still to come of two windows that become one.                    *)
LEMMA WindowsOnceCount ==
    ASSUME NEW D \in SUBSET Hunters, NEW g, SoundWindows(g.windows, D), NEW s \in D,
           NEW d \in Hunters, s # d, NEW h, h.windows = WindowsOnce(g.windows, s, d), NEW c,
           NEW t \in Nat
    PROVE  After(Expirations(h, d, c), t)
              = Least(MaxExpirations,
                      After(Expirations(g, d, c), t) + After(Expirations(g, s, c), t))
<1> DEFINE r == Expirations(g, d, c)
           q == Expirations(g, s, c)
           o == Expirations(h, d, c)
<1>1. /\ Ordered(r) /\ Len(r) \in 0..MaxExpirations /\ Ordered(q) /\ Len(q) \in 0..MaxExpirations
      /\ \A w \in Window(g, s, c) : q = w.expires
      /\ \A w \in Window(g, d, c) : r = w.expires
      /\ Window(g, s, c) = {} => q = <<>>
      /\ Window(g, d, c) = {} => r = <<>>
  BY ExpirationsAre
<1>2. PICK a \in Nat, b \in Nat : /\ a = After(r, t) /\ b = After(q, t)
                                  /\ a <= MaxExpirations /\ b <= MaxExpirations
  <2> HIDE DEF r, q
  <2>1. /\ After(r, t) \in Nat /\ After(r, t) <= Len(r) /\ Len(r) \in Nat
        /\ After(q, t) \in Nat /\ After(q, t) <= Len(q) /\ Len(q) \in Nat
    BY <1>1, AfterIs
  <2>2. Len(r) <= MaxExpirations /\ Len(q) <= MaxExpirations /\ MaxExpirations \in Nat
    BY <1>1, LimitsAre
  <2>3. After(r, t) <= MaxExpirations /\ After(q, t) <= MaxExpirations
    BY <2>1, <2>2
  <2> QED
    BY <2>1, <2>3
<1> DEFINE Moved(w) == /\ Window(g, d, c) = {} => Window(h, d, c) = {MovedTo(w, d)}
                       /\ \A v \in Window(g, d, c) : Window(h, d, c) = {Joined(v, MovedTo(w, d))}
<1>3. /\ Window(g, s, c) = {} => Window(h, d, c) = Window(g, d, c)
      /\ \A w \in Window(g, s, c) : Moved(w)
  <2>1. WindowsMoved(g, h, s, d, c)
    BY WindowsOnceAre
  <2> QED
    BY <2>1 DEF WindowsMoved
<1>4. \A w \in g.windows : SoundWindow(w)
  BY DEF SoundWindows
<1>5. CASE Window(g, s, c) = {}
  <2>1. o = r
    BY <1>5, <1>3 DEF Expirations
  <2>2. b = 0
    BY <1>1, <1>2, <1>5, ShortCounts
  <2> HIDE DEF r, q, o
  <2> QED
    BY <1>2, <2>1, <2>2, LimitsAre DEF Least, r, q, o
<1>6. ASSUME NEW w \in Window(g, s, c)
      PROVE  After(o, t) = Least(MaxExpirations, a + b)
  <2> DEFINE m == MovedTo(w, d)
  <2>1. SoundWindow(w) /\ q = w.expires
    BY <1>1, <1>4 DEF Window
  <2>2. Moved(w)
    BY <1>3
  <2>3. m.expires = q
    BY <2>1, MovedSound
  <2> HIDE DEF m
  <2>4. CASE Window(g, d, c) = {}
    <3>1. Window(h, d, c) = {m}
      BY <2>4, <2>2 DEF m
    <3>2. o = q
      BY <2>3, <3>1 DEF Expirations
    <3>3. a = 0
      BY <1>1, <1>2, <2>4, ShortCounts
    <3> HIDE DEF r, q, o
    <3> QED
      BY <1>2, <3>2, <3>3, LimitsAre DEF Least
  <2>5. CASE Window(g, d, c) # {}
    <3>1. PICK v \in Window(g, d, c) : TRUE
      BY <2>5
    <3>2. Window(h, d, c) = {Joined(v, m)}
      BY <2>2, <3>1 DEF m
    <3>3. r = v.expires /\ SoundWindow(v)
      BY <1>1, <1>4, <3>1 DEF Window
    <3>4. Joined(v, m).expires = Recent(InOrder(r, q))
      <4>1. v \in ThrottleWindow
        BY <3>3 DEF SoundWindow
      <4> HIDE DEF r, q
      <4> QED
        BY <2>3, <3>3, <4>1 DEF ThrottleWindow, Joined
    <3>5. o = Recent(InOrder(r, q))
      BY <3>2, <3>4 DEF Expirations
    <3> HIDE DEF r, q, o
    <3>6. Ordered(InOrder(r, q)) /\ After(InOrder(r, q), t) = a + b
      BY <1>1, <1>2, InOrderOrdered, InOrderCounts
    <3> QED
      BY <3>5, <3>6, RecentCounts
  <2> QED
    BY <2>4, <2>5
<1> HIDE DEF r, q, o
<1> QED
  BY <1>2, <1>5, <1>6 DEF r, q, o

(* Who is not known has no windows, and nothing that counts.                *)
LEMMA StrangersRemember ==
    ASSUME NEW g, Sound(g), NEW d \in Hunters, ~Known(g, d), NEW c \in DOMAIN Limits,
           NEW S, NEW M, NEW k, MemoryOf(g, S, M, k)
    PROVE  Cardinality(LiveAt(S, d, c, g.now)) = 0
<1>1. Slot(d, c) /\ g.now \in Nat /\ SoundWindows(g.windows, DOMAIN g.players)
  BY DEF Slot, Sound, Typed, GameState
<1>2. Window(g, d, c) = {}
  <2>1. \A w \in g.windows : Belongs(w, DOMAIN g.players)
    BY <1>1 DEF SoundWindows
  <2> QED
    BY <2>1, NobodyHunts DEF Window, Belongs, Known
<1>3. Expirations(g, d, c) = <<>>
  BY <1>1, <1>2, ExpirationsAre
<1>4. ServedShape(S, k) /\ Remembers(g, S, d, c)
  BY <1>1 DEF MemoryOf
<1>5. Cardinality(LiveAt(S, d, c, g.now)) \in Nat
  BY <1>1, <1>4, LiveIs
<1>6. After(Expirations(g, d, c), g.now) = Least(MaxExpirations, Cardinality(LiveAt(S, d, c, g.now)))
  BY <1>1, <1>4 DEF Remembers
<1>7. After(Expirations(g, d, c), g.now) = 0
  BY <1>1, <1>3, ShortCounts
<1> QED
  BY <1>5, <1>6, <1>7 DEF Least, MaxExpirations

(* Two counts kept up to what a window holds, and their sum.                *)
LEMMA LeastOfBoth ==
    ASSUME NEW i \in Nat, NEW j \in Nat
    PROVE  Least(MaxExpirations, Least(MaxExpirations, i) + Least(MaxExpirations, j))
             = Least(MaxExpirations, i + j)
<1>1. PICK m \in Nat : m = MaxExpirations
  BY DEF MaxExpirations
<1>2. CASE m < i
  BY <1>1, <1>2 DEF Least
<1>3. CASE ~(m < i) /\ m < j
  BY <1>1, <1>3 DEF Least
<1>4. CASE ~(m < i) /\ ~(m < j)
  BY <1>1, <1>4 DEF Least
<1> QED
  BY <1>2, <1>3, <1>4

(* The profile s becomes d, with its windows and what counted for it.       *)
LEMMA RekeyRemembers ==
    ASSUME NEW g, Sound(g), NEW s \in DOMAIN g.players, NEW d \in Hunters, s # d,
           NEW h, h.windows = WindowsOnce(g.windows, s, d), h.now = g.now,
           NEW S, NEW M, NEW k, MemoryOf(g, S, M, k),
           NEW N, N = IF Known(g, d) \/ s \in M THEN M \union {d} ELSE M
    PROVE  MemoryOf(h, Recollection(S, s, d), N, k)
<1> DEFINE T == Recollection(S, s, d)
           D == DOMAIN g.players
<1>1. /\ D \in SUBSET Hunters /\ s \in Hunters /\ SoundWindows(g.windows, D) /\ g.now \in Nat
      /\ s # Nobody /\ d # Nobody /\ s \in D
  BY NobodyHunts DEF Sound, Typed, GameState
<1>2. ServedShape(S, k) /\ Nobody \notin M
  BY DEF MemoryOf
<1>3. /\ ServedShape(T, k)
      /\ \A c, t : LiveAt(T, s, c, t) = {}
      /\ \A n, c, t : n # s /\ n # d => LiveAt(T, n, c, t) = LiveAt(S, n, c, t)
      /\ \A c \in DOMAIN Limits, t \in Nat :
            Cardinality(LiveAt(T, d, c, t))
               = Cardinality(LiveAt(S, d, c, t)) + Cardinality(LiveAt(S, s, c, t))
  BY <1>1, <1>2, RecollectionCounts
<1> HIDE DEF T, D
<1>4. ASSUME NEW c PROVE WindowsMoved(g, h, s, d, c)
  BY <1>1, WindowsOnceAre
<1>5. M \subseteq N /\ Nobody \notin N
  BY <1>1, <1>2
<1> DEFINE Right(n, c) == Remembers(h, T, n, c) /\ Within(h, T, N, n, c)
<1>6. ASSUME NEW n, NEW c, Slot(n, c), n # s, n # d PROVE Right(n, c)
  <2>1. Window(h, n, c) = Window(g, n, c)
    BY <1>4, <1>6 DEF WindowsMoved
  <2>2. \A t : LiveAt(T, n, c, t) = LiveAt(S, n, c, t)
    BY <1>3, <1>6
  <2>3. Remembers(g, S, n, c) /\ Within(g, S, M, n, c)
    BY <1>6 DEF MemoryOf
  <2> QED
    BY <1>5, <2>1, <2>2, <2>3, OthersRemember
<1>7. ASSUME NEW c, Slot(s, c) PROVE Right(s, c)
  <2>1. Window(h, s, c) = {}
    BY <1>4 DEF WindowsMoved
  <2>2. Expirations(h, s, c) = <<>>
    BY <2>1 DEF Expirations
  <2>3. \A t : Cardinality(LiveAt(T, s, c, t)) = 0
    BY <1>3, FS_EmptySet
  <2>4. Limit(s, c).maximum \in Nat
    BY <1>7, SlotLimits
  <2>5. Remembers(h, T, s, c)
    <3>1. Least(MaxExpirations, 0) = 0
      BY DEF Least, MaxExpirations
    <3> QED
      BY <2>2, <2>3, <3>1, ShortCounts DEF Remembers
  <2> QED
    BY <2>3, <2>4, <2>5 DEF Within
<1>8. ASSUME NEW c, Slot(d, c) PROVE Right(d, c)
  <2>1. c \in DOMAIN Limits /\ Slot(s, c)
    BY <1>1, <1>8 DEF Slot
  <2>2. /\ Remembers(g, S, d, c) /\ Within(g, S, M, d, c)
        /\ Remembers(g, S, s, c) /\ Within(g, S, M, s, c)
    BY <1>8, <2>1 DEF MemoryOf
  <2>3. ASSUME NEW t \in Nat, t >= h.now
        PROVE  After(Expirations(h, d, c), t)
                 = Least(MaxExpirations, Cardinality(LiveAt(T, d, c, t)))
    <3>1. PICK i \in Nat, j \in Nat : /\ i = Cardinality(LiveAt(S, d, c, t))
                                      /\ j = Cardinality(LiveAt(S, s, c, t))
      BY <1>2, <1>8, <2>1, LiveIs
    <3>2. /\ After(Expirations(g, d, c), t) = Least(MaxExpirations, i)
          /\ After(Expirations(g, s, c), t) = Least(MaxExpirations, j)
      BY <2>2, <2>3, <3>1 DEF Remembers
    <3>3. After(Expirations(h, d, c), t)
             = Least(MaxExpirations, After(Expirations(g, d, c), t) + After(Expirations(g, s, c), t))
      BY <1>1, WindowsOnceCount
    <3>4. Cardinality(LiveAt(T, d, c, t)) = i + j
      BY <1>3, <2>1, <3>1
    <3>5. Least(MaxExpirations, Least(MaxExpirations, i) + Least(MaxExpirations, j))
             = Least(MaxExpirations, i + j)
      BY LeastOfBoth
    <3> QED
      BY <3>2, <3>3, <3>4, <3>5
  <2>4. Within(h, T, N, d, c)
    <3>1. CASE Known(g, d) \/ s \in M
      BY <3>1 DEF Within
    <3>2. CASE ~Known(g, d) /\ s \notin M
      <4>1. PICK i \in Nat, j \in Nat : /\ i = Cardinality(LiveAt(S, d, c, g.now))
                                        /\ j = Cardinality(LiveAt(S, s, c, g.now))
        BY <1>1, <1>2, <1>8, <2>1, LiveIs
      <4>2. i = 0
        BY <2>1, <3>2, <4>1, StrangersRemember
      <4>3. Limit(d, c) = Limit(s, c) /\ Limit(s, c).maximum \in Nat
        BY <1>1, <2>1, SlotLimits DEF Limit
      <4>4. j <= Limit(s, c).maximum
        BY <2>2, <3>2, <4>1 DEF Within
      <4>5. Cardinality(LiveAt(T, d, c, g.now)) = i + j
        BY <1>1, <1>3, <2>1, <4>1
      <4> QED
        BY <4>1, <4>2, <4>3, <4>4, <4>5 DEF Within
    <3> QED
      BY <3>1, <3>2
  <2> QED
    BY <2>3, <2>4 DEF Remembers
<1>9. \A n, c : Slot(n, c) => Right(n, c)
  <2> HIDE DEF Right
  <2> QED
    BY <1>6, <1>7, <1>8
<1> QED
  BY <1>3, <1>5, <1>9 DEF MemoryOf, T

(* A renaming, by the windows and the time.                                 *)
LEMMA RekeyWindows ==
    ASSUME NEW g, Sound(g), NEW s, NEW d, NEW p
    PROVE  /\ Rekey(g, s, d, p).windows = WindowsOnce(g.windows, s, d)
           /\ Rekey(g, s, d, p).now = g.now
<1>1. g \in GameState(DOMAIN g.players)
  BY DEF Sound, Typed
<1>2. "windows" \in DOMAIN g /\ "now" \in DOMAIN g
  BY <1>1 DEF GameState
<1> QED
  BY <1>2 DEF Rekey

(* A transfer that is settled.                                              *)
LEMMA InheritRemembers ==
    ASSUME NEW g, Sound(g), NEW x \in g.transfers, NEW b, NEW k,
           MemoryOf(g, b.served, b.merged, k)
    PROVE  LET c == Inherit(g, x, b) IN MemoryOf(c.game, c.served, c.merged, k)
<1> DEFINE rest == Consumed(g, x)
           s == x.from
           d == x.to
           c == Inherit(g, x, b)
           S == b.served
           M == b.merged
<1>1. s \in Hunters /\ d \in Hunters /\ s # d /\ g.now \in Nat
  BY DEF Sound, Typed, GameState, ValidTransfers, PendingTransfer
<1>2. /\ Sound(rest) /\ rest.windows = g.windows /\ rest.now = g.now
      /\ rest.players = g.players
  BY ConsumedSound DEF SameGame
<1>3. MemoryOf(rest, S, M, k)
  <2>1. SameTimes(g, rest)
    BY <1>1, <1>2, SameWindowsTimes
  <2> HIDE DEF rest
  <2> QED
    BY <2>1, SameTimesRemember
<1>4. CASE ~Known(g, s)
  <2>1. c.game = rest /\ c.served = S /\ c.merged = M
    BY <1>4 DEF Inherit, Resolve
  <2> HIDE DEF c
  <2> QED
    BY <1>3, <2>1 DEF c
<1>5. CASE Known(g, s)
  <2>1. \E p : c.game = Rekey(rest, s, d, p)
    <3>1. CASE Known(g, d)
      BY <1>5, <3>1 DEF Inherit, Resolve
    <3>2. CASE ~Known(g, d)
      BY <1>5, <3>2 DEF Inherit, Resolve
    <3> QED
      BY <3>1, <3>2
  <2>2. c.served = Recollection(S, s, d)
    BY <1>5 DEF Inherit, Recollection, Recalled
  <2>3. c.merged = IF Known(g, d) \/ s \in M THEN M \union {d} ELSE M
    BY <1>5 DEF Inherit
  <2> HIDE DEF c, rest, s, d
  <2>4. c.game.windows = WindowsOnce(rest.windows, s, d) /\ c.game.now = rest.now
    BY <1>2, <2>1, RekeyWindows
  <2>5. s \in DOMAIN rest.players /\ (Known(rest, d) <=> Known(g, d))
    BY <1>2, <1>5 DEF Known
  <2>6. MemoryOf(c.game, Recollection(S, s, d), c.merged, k)
    BY <1>1, <1>2, <1>3, <2>3, <2>4, <2>5, RekeyRemembers
  <2> QED
    BY <2>2, <2>6 DEF c
<1> QED
  BY <1>4, <1>5

(* A settlement remembers what counts.                                      *)
LEMMA SettleRemembers ==
    ASSUME NEW b, Kept(b), NEW n, NEW t \in Nat, b.game.now <= t, NEW k,
           MemoryOf(b.game, b.served, b.merged, k)
    PROVE  LET c == SettleTransfer(b, n, t) IN MemoryOf(c.game, c.served, c.merged, k)
<1> DEFINE g == Advance(b.game, t)
           X == Pending(g, n)
           c == SettleTransfer(b, n, t)
           S == b.served
           M == b.merged
<1>1. Sound(b.game) /\ b.game.now \in Nat
  BY DEF Kept, SoundBook, Sound, Typed, GameState
<1>2. Sound(g) /\ g.now = t /\ g.windows = b.game.windows
  BY <1>1, AdvanceSound
<1> HIDE DEF g
<1>3. MemoryOf(g, S, M, k)
  <2>1. SameTimes(b.game, g)
    BY <1>1, <1>2, SameWindowsTimes
  <2> QED
    BY <2>1, SameTimesRemember
<1>4. CASE ~Owes(b, n)
  <2>1. c = b
    BY <1>4 DEF SettleTransfer
  <2> QED
    BY <2>1
<1>5. CASE Owes(b, n) /\ X = {}
  <2>1. c = [b EXCEPT !.game = g]
    BY <1>5 DEF SettleTransfer, g
  <2>2. c.game = g /\ c.served = S /\ c.merged = M
    BY <2>1 DEF Kept
  <2> HIDE DEF c
  <2> QED
    BY <1>3, <2>2 DEF c
<1>6. CASE Owes(b, n) /\ X # {}
  <2>1. PICK x \in X : x = CHOOSE y \in X : TRUE
    BY <1>6
  <2>2. x \in g.transfers
    BY <2>1 DEF Pending
  <2>3. c = Inherit(g, x, b)
    BY <1>6, <2>1 DEF SettleTransfer, g
  <2> HIDE DEF c
  <2> QED
    BY <1>2, <1>3, <2>2, <2>3, InheritRemembers DEF c
<1> QED
  BY <1>4, <1>5, <1>6

-----------------------------------------------------------------------------
(* The start. *)

(* A game has as many windows as there are hunters and commands.            *)
LEMMA WindowsAreFinite ==
    ASSUME NEW W, NEW D, SoundWindows(W, D) PROVE IsFiniteSet(W)
<1> DEFINE T == Names \X (Commands \union {Whatever})
           F == [w \in W |-> <<w.of, w.command>>]
<1>1. IsFiniteSet(Names) /\ IsFiniteSet(Commands \union {Whatever})
  BY IdentityConstants, FS_AddElement DEF Names
<1>2. IsFiniteSet(T)
  BY <1>1, FS_Product
<1>3. \A w \in W : w.of \in Names /\ w.command \in Commands \union {Whatever}
  BY DEF SoundWindows, SoundWindow, ThrottleWindow, Names
<1>4. F \in [W -> T] /\ \A w \in W : F[w] = <<w.of, w.command>>
  BY <1>3
<1> HIDE DEF F, T
<1>5. \A v, w \in W : F[v] = F[w] => v = w
  <2>1. \A v, w \in W : F[v] = F[w] => v.of = w.of /\ v.command = w.command
    BY <1>4
  <2> QED
    BY <2>1 DEF SoundWindows, Twins
<1>6. F \in Injection(W, T)
  BY <1>4, <1>5 DEF Injection, IsInjective
<1> QED
  BY <1>2, <1>6, FS_Injection

(* What a window says was served, time by time.                             *)
LEMMA ServedByIs ==
    ASSUME NEW w, SoundWindow(w), NEW D, Belongs(w, D)
    PROVE  /\ Len(w.expires) \in Nat /\ DOMAIN w.expires = 1..Len(w.expires)
           /\ IsFiniteSet(ServedBy(w)) /\ ServedBy(w) \subseteq Services
           /\ Slot(w.of, w.command) /\ LimitOf(w) = Limit(w.of, w.command)
           /\ \A e \in ServedBy(w) : \E i \in 1..Len(w.expires) :
                 /\ e.by = w.of /\ e.nth = -i /\ e.of = w.of /\ e.command = w.command
                 /\ e.at + LimitOf(w).seconds = w.expires[i]
                 /\ e = Serving(w.of, -i, w.command, w.expires[i] - LimitOf(w).seconds)
           /\ \A i \in 1..Len(w.expires) : w.expires[i] \in Nat
                 /\ Serving(w.of, -i, w.command, w.expires[i] - LimitOf(w).seconds) \in ServedBy(w)
<1> DEFINE at(i) == w.expires[i] - LimitOf(w).seconds
           serving(i) == Serving(w.of, -i, w.command, at(i))
<1>1. /\ w \in ThrottleWindow /\ Len(w.expires) \in Nat /\ DOMAIN w.expires = 1..Len(w.expires)
      /\ \A i \in 1..Len(w.expires) : w.expires[i] \in Nat
      /\ w.of \in Names /\ w.command \in Commands \union {Whatever}
  <2>1. w \in ThrottleWindow /\ w.expires \in Seq(Nat \ {0})
    BY DEF SoundWindow, ThrottleWindow
  <2>2. Len(w.expires) \in Nat /\ DOMAIN w.expires = 1..Len(w.expires)
    BY <2>1, LenProperties
  <2>3. \A i \in 1..Len(w.expires) : w.expires[i] \in Nat
    BY <2>1, <2>2, ElementOfSeq
  <2> QED
    BY <2>1, <2>2, <2>3 DEF ThrottleWindow, Names
<1>2. Slot(w.of, w.command) /\ LimitOf(w) = Limit(w.of, w.command)
  <2>1. w.of # Nobody => w.of \in Hunters
    BY <1>1 DEF Names
  <2> QED
    BY <2>1 DEF Belongs, Slot, LimitOf, Limit
<1>3. LimitOf(w).seconds \in Nat
  BY <1>2, SlotLimits
<1>4. ASSUME NEW i \in 1..Len(w.expires)
      PROVE  /\ serving(i) \in Services /\ serving(i).by = w.of /\ serving(i).nth = -i
             /\ serving(i).of = w.of /\ serving(i).command = w.command
             /\ serving(i).at + LimitOf(w).seconds = w.expires[i]
  <2>1. w.expires[i] \in Nat /\ -i \in Int
    BY <1>1
  <2>2. at(i) \in Int /\ at(i) + LimitOf(w).seconds = w.expires[i]
    BY <1>3, <2>1
  <2> HIDE DEF at
  <2> QED
    BY <1>1, <2>1, <2>2 DEF Serving, Services
<1>5. ServedBy(w) = {serving(i) : i \in 1..Len(w.expires)}
  BY <1>1 DEF ServedBy
<1> HIDE DEF serving
<1>6. \A i, j \in 1..Len(w.expires) : serving(i) = serving(j) => i = j
  <2>1. \A i, j \in 1..Len(w.expires) : -i = -j => i = j
    BY <1>1
  <2> QED
    BY <1>4, <2>1
<1>7. IsFiniteSet(ServedBy(w))
  <2> DEFINE F == [i \in 1..Len(w.expires) |-> serving(i)]
  <2>1. F \in [1..Len(w.expires) -> ServedBy(w)] /\ \A i \in 1..Len(w.expires) : F[i] = serving(i)
    BY <1>5
  <2> HIDE DEF F
  <2>2. IsFiniteSet(1..Len(w.expires))
    BY <1>1, FS_Interval
  <2> QED
    BY <1>5, <1>6, <2>1, <2>2, Paired
<1>8. ASSUME NEW e \in ServedBy(w)
      PROVE  \E i \in 1..Len(w.expires) :
                 /\ e.by = w.of /\ e.nth = -i /\ e.of = w.of /\ e.command = w.command
                 /\ e.at + LimitOf(w).seconds = w.expires[i]
                 /\ e = serving(i)
  BY <1>4, <1>5
<1>9. ServedBy(w) \subseteq Services
  BY <1>4, <1>5
<1> QED
  BY <1>1, <1>2, <1>5, <1>7, <1>8, <1>9 DEF serving

(* The windows of a game at the start remember what they say was served.    *)
LEMMA StartRemembers ==
    ASSUME NEW g, Sound(g), AllFit(g.windows)
    PROVE  MemoryOf(g, UNION {ServedBy(w) : w \in g.windows}, {}, 0)
<1> DEFINE S == UNION {ServedBy(w) : w \in g.windows}
           D == DOMAIN g.players
<1>1. SoundWindows(g.windows, D) /\ g.now \in Nat
  BY DEF Sound, Typed, GameState
<1>2. \A w \in g.windows : SoundWindow(w) /\ Belongs(w, D)
  BY <1>1 DEF SoundWindows
<1> HIDE DEF D
<1> DEFINE serving(w, i) == Serving(w.of, -i, w.command, w.expires[i] - LimitOf(w).seconds)
<1>3. ASSUME NEW e \in S
      PROVE  \E w \in g.windows : \E i \in 1..Len(w.expires) :
                /\ e \in Services /\ Len(w.expires) \in Nat
                /\ e.by = w.of /\ e.nth = -i /\ e.of = w.of /\ e.command = w.command
                /\ e.at + LimitOf(w).seconds = w.expires[i]
                /\ e = serving(w, i)
  <2>1. PICK w \in g.windows : e \in ServedBy(w)
    OBVIOUS
  <2>2. SoundWindow(w) /\ Belongs(w, D)
    BY <1>2
  <2>3. e \in Services /\ Len(w.expires) \in Nat
    BY <2>1, <2>2, ServedByIs
  <2>4. \E i \in 1..Len(w.expires) :
           /\ e.by = w.of /\ e.nth = -i /\ e.of = w.of /\ e.command = w.command
           /\ e.at + LimitOf(w).seconds = w.expires[i]
           /\ e = serving(w, i)
    BY <2>1, <2>2, ServedByIs
  <2> HIDE DEF serving, S
  <2> QED
    BY <2>3, <2>4
<1>4. IsFiniteSet(S)
  <2> DEFINE All == {ServedBy(w) : w \in g.windows}
  <2>1. \A T \in All : IsFiniteSet(T)
    BY <1>2, ServedByIs
  <2>2. IsFiniteSet(g.windows)
    BY <1>1, WindowsAreFinite
  <2>3. IsFiniteSet(All)
    <3> DEFINE F == [w \in g.windows |-> ServedBy(w)]
    <3>1. F \in Surjection(g.windows, All)
      BY DEF Surjection
    <3> HIDE DEF F, All
    <3> QED
      BY <2>2, <3>1, FS_Surjection
  <2> HIDE DEF All
  <2>4. IsFiniteSet(UNION All)
    BY <2>1, <2>3, FS_UNION
  <2> QED
    BY <2>4 DEF All
<1>5. ServedShape(S, 0)
  <2>1. \A e \in S : e \in Services /\ e.nth < 0
    BY <1>3
  <2>2. ASSUME NEW e \in S, NEW f \in S, e.by = f.by, e.nth = f.nth, e.command = f.command
        PROVE  e = f
    <3>1. PICK v \in g.windows : \E i \in 1..Len(v.expires) :
             /\ Len(v.expires) \in Nat /\ e.by = v.of /\ e.nth = -i /\ e.command = v.command
             /\ e = serving(v, i)
      BY <1>3
    <3>2. PICK w \in g.windows : \E j \in 1..Len(w.expires) :
             /\ Len(w.expires) \in Nat /\ f.by = w.of /\ f.nth = -j /\ f.command = w.command
             /\ f = serving(w, j)
      BY <1>3
    <3> HIDE DEF serving, S
    <3>3. v = w
      BY <1>1, <2>2, <3>1, <3>2 DEF SoundWindows, Twins
    <3>4. PICK i \in 1..Len(v.expires), j \in 1..Len(w.expires) :
             /\ Len(v.expires) \in Nat /\ e.nth = -i /\ e = serving(v, i)
             /\ Len(w.expires) \in Nat /\ f.nth = -j /\ f = serving(w, j)
      BY <3>1, <3>2
    <3>5. i = j
      <4>1. i \in Int /\ j \in Int
        BY <3>4
      <4>2. -i = -j
        BY <2>2, <3>4, Zenon
      <4> QED
        BY <4>1, <4>2
    <3> QED
      BY <3>3, <3>4, <3>5
  <2> HIDE DEF S
  <2> QED
    BY <1>4, <2>1, <2>2 DEF ServedShape
<1> HIDE DEF S
<1>6. ASSUME NEW n, NEW c, Slot(n, c), NEW t \in Nat, t >= g.now
      PROVE  /\ After(Expirations(g, n, c), t) = Cardinality(LiveAt(S, n, c, t))
             /\ Cardinality(LiveAt(S, n, c, t)) \in Nat
             /\ Cardinality(LiveAt(S, n, c, t)) <= Limit(n, c).maximum
  <2>1. CASE Window(g, n, c) = {}
    <3>1. \A w \in g.windows : ~(w.of = n /\ w.command = c)
      BY <2>1 DEF Window
    <3>2. LiveAt(S, n, c, t) = {}
      <4> SUFFICES ASSUME NEW e \in S, e.of = n, e.command = c PROVE FALSE
        BY DEF LiveAt
      <4>1. PICK w \in g.windows : e.of = w.of /\ e.command = w.command
        BY <1>3
      <4> QED
        BY <3>1, <4>1
    <3>3. Expirations(g, n, c) = <<>>
      BY <1>1, <2>1, ExpirationsAre
    <3>4. Cardinality(LiveAt(S, n, c, t)) = 0 /\ After(Expirations(g, n, c), t) = 0
      BY <3>2, <3>3, FS_EmptySet, ShortCounts
    <3> QED
      BY <1>6, <3>4, SlotLimits
  <2>2. CASE Window(g, n, c) # {}
    <3>1. PICK w \in Window(g, n, c) : TRUE
      BY <2>2
    <3>2. w \in g.windows /\ w.of = n /\ w.command = c /\ Expirations(g, n, c) = w.expires
      <4>1. Expirations(g, n, c) = w.expires
        BY <1>1, <3>1, ExpirationsAre
      <4> QED
        BY <3>1, <4>1 DEF Window
    <3>3. SoundWindow(w) /\ Belongs(w, D) /\ Fits(w) /\ Ordered(w.expires)
      BY <1>1, <1>2, <3>1, <3>2, ExpirationsAre DEF AllFit
    <3>4. /\ Len(w.expires) \in Nat /\ LimitOf(w) = Limit(n, c)
          /\ \A i \in 1..Len(w.expires) : w.expires[i] \in Nat /\ serving(w, i) \in ServedBy(w)
      BY <3>2, <3>3, ServedByIs
    <3> DEFINE k == UpTo(w.expires, t)
               J == k+1..Len(w.expires)
               L == LiveAt(S, n, c, t)
    <3>5. k \in 0..Len(w.expires) /\ \A i \in 1..Len(w.expires) : w.expires[i] <= t <=> i <= k
      BY <3>3, UpToSplits
    <3> HIDE DEF k
    <3>6. \A i \in J : i \in 1..Len(w.expires) /\ w.expires[i] > t
      BY <3>4, <3>5
    <3>7. \A i \in 1..Len(w.expires) : w.expires[i] > t => i \in J
      BY <3>4, <3>5
    <3>8. ASSUME NEW i \in J PROVE serving(w, i) \in L /\ serving(w, i).nth = -i
      <4>1. i \in 1..Len(w.expires) /\ w.expires[i] > t /\ serving(w, i) \in S
        BY <3>2, <3>4, <3>6 DEF S
      <4>2. LimitOf(w).seconds \in Nat /\ w.expires[i] \in Nat
        BY <1>6, <3>4, <4>1, SlotLimits
      <4>3. /\ serving(w, i).of = n /\ serving(w, i).command = c /\ serving(w, i).nth = -i
            /\ serving(w, i).at = w.expires[i] - LimitOf(w).seconds
        BY <3>2 DEF Serving
      <4>4. serving(w, i).at + Limit(n, c).seconds > t
        BY <3>4, <4>1, <4>2, <4>3
      <4> HIDE DEF serving
      <4> QED
        BY <4>1, <4>3, <4>4 DEF LiveAt
    <3>9. ASSUME NEW e \in L PROVE \E i \in J : e = serving(w, i)
      <4>1. e \in S /\ e.of = n /\ e.command = c /\ e.at + Limit(n, c).seconds > t
        BY DEF LiveAt
      <4>2. PICK v \in g.windows : \E i \in 1..Len(v.expires) :
               /\ e.of = v.of /\ e.command = v.command
               /\ e.at + LimitOf(v).seconds = v.expires[i] /\ e = serving(v, i)
        BY <1>3, <4>1
      <4> HIDE DEF serving
      <4>3. v = w
        BY <1>1, <3>2, <4>1, <4>2 DEF SoundWindows, Twins
      <4>4. PICK i \in 1..Len(w.expires) :
               e.at + LimitOf(w).seconds = w.expires[i] /\ e = serving(w, i)
        BY <4>2, <4>3
      <4>5. w.expires[i] > t
        BY <3>4, <4>1, <4>4
      <4> QED
        BY <3>7, <4>4, <4>5
    <3> DEFINE F == [i \in J |-> serving(w, i)]
    <3>10. F \in [J -> L] /\ \A i \in J : F[i] = serving(w, i)
      <4> HIDE DEF serving, L, J
      <4> QED
        BY <3>8
    <3> HIDE DEF F, L, serving
    <3>11. \A i, j \in J : F[i] = F[j] => i = j
      <4>1. \A i, j \in J : -i = -j => i = j
        BY <3>4, <3>5
      <4> QED
        BY <3>8, <3>10, <4>1
    <3>12. IsFiniteSet(J) /\ Cardinality(J) = Len(w.expires) - k
      <4>1. k + 1 \in Int /\ Len(w.expires) \in Int
        BY <3>4, <3>5
      <4>2. IsFiniteSet(J) /\ Cardinality(J) = IF k + 1 > Len(w.expires) THEN 0
                                               ELSE Len(w.expires) - (k + 1) + 1
        BY <4>1, FS_Interval
      <4> QED
        BY <3>4, <3>5, <4>2
    <3> HIDE DEF J
    <3>13. \A e \in L : \E i \in J : F[i] = e
      BY <3>9, <3>10
    <3>14. Cardinality(L) = Cardinality(J)
      BY <3>10, <3>11, <3>12, <3>13, Paired
    <3>15. Cardinality(L) = Len(w.expires) - k
      BY <3>12, <3>14
    <3>16. Len(w.expires) <= Limit(n, c).maximum
      BY <3>3, <3>4 DEF Fits
    <3>17. Limit(n, c).maximum \in Nat
      BY <1>6, SlotLimits
    <3> QED
      BY <3>2, <3>4, <3>5, <3>15, <3>16, <3>17 DEF After, k, L
  <2> QED
    BY <2>1, <2>2
<1>7. ASSUME NEW n, NEW c, Slot(n, c)
      PROVE  Remembers(g, S, n, c) /\ Within(g, S, {}, n, c)
  <2>1. ASSUME NEW t \in Nat, t >= g.now
        PROVE  After(Expirations(g, n, c), t)
                 = Least(MaxExpirations, Cardinality(LiveAt(S, n, c, t)))
    <3>1. PICK i \in Nat : /\ i = Cardinality(LiveAt(S, n, c, t)) /\ i <= Limit(n, c).maximum
                           /\ After(Expirations(g, n, c), t) = i
      BY <1>6, <1>7, <2>1
    <3>2. i <= MaxExpirations /\ MaxExpirations \in Nat
      BY <1>7, <3>1, SlotLimits
    <3> QED
      BY <3>1, <3>2 DEF Least
  <2> QED
    BY <1>1, <1>6, <1>7, <2>1 DEF Remembers, Within
<1> QED
  BY <1>5, <1>7 DEF MemoryOf, S

-----------------------------------------------------------------------------
(* The games of every state. *)

(* The second half of the invariant: the game is sound, and what stops the  *)
(* process is a window of a merge.                                          *)
SoundInv ==
    /\ Sound(game) /\ (merged = {} => AllFit(game.windows))
    /\ failed \in BOOLEAN /\ (failed => Overfull(game) /\ merged # {})
    /\ steps \in 0..MaxSteps

(* The windows and the history agree.                                       *)
MemoryInv == MemoryOf(game, served, merged, steps)

(* What a step makes of the game and of the windows that were merged. *)
Turns ==
    /\ Sound(game)' /\ Conserves(game, game') /\ (merged = {} => AllFit(game.windows))'
    /\ failed' \in BOOLEAN /\ (failed => Overfull(game) /\ merged # {})'

(* The invariant holds at the start.                                        *)
LEMMA InitSound == Init => SoundInv
<1> SUFFICES ASSUME Init PROVE SoundInv
  OBVIOUS
<1>1. Sound(game) /\ AllFit(game.windows)
  BY PlayableIsSound, IdentityConstants DEF Init
<1>2. failed = FALSE /\ steps \in 0..MaxSteps
  BY IdentityConstants DEF Init
<1> QED
  BY <1>1, <1>2 DEF SoundInv

(* A step that leaves the game alone.                                       *)
LEMMA SameTurns ==
    ASSUME SoundInv, ~failed, UNCHANGED <<game, failed, merged>> PROVE Turns
BY DEF SoundInv, Turns, Conserves, Overfull

(* A sound game is kept. *)
LEMMA KeepsSound ==
    ASSUME NEW h, Sound(h), Keep(h) PROVE game' = h /\ failed' = failed
BY SoundIsValid DEF Keep

(* The event of a nickname that changes hands. *)
LEMMA LearnsSound ==
    ASSUME SoundInv, ~failed, NEW h, Sound(h), h.windows = game.windows, Conserves(game, h),
           NEW n, NEW concerns, NEW slot, Learn(n, concerns, h, slot), UNCHANGED merged
    PROVE  Turns
<1>1. failed' = failed /\ (game' = game \/ game' = h)
  BY KeepsSound DEF Learn
<1>2. CASE game' = game
  BY <1>1, <1>2, SameTurns
<1>3. CASE game' = h
  BY <1>1, <1>3 DEF SoundInv, Turns
<1> QED
  BY <1>1, <1>2, <1>3

(* The game by the time of a step.                                          *)
LEMMA LaterSound ==
    ASSUME SoundInv, NEW wait \in Waits
    PROVE  LET h == Later(wait)
           IN  Sound(h) /\ h.windows = game.windows /\ Conserves(game, h)
<1>1. game.now \in Nat /\ game.now + wait \in Nat /\ game.now <= game.now + wait
  <2>1. game.now \in Nat /\ wait \in Nat
    BY IdentityConstants DEF SoundInv, Sound, Typed, GameState
  <2> QED
    BY <2>1
<1> QED
  BY <1>1, AdvanceSound, AdvanceConserves DEF SoundInv, Later

(* A game with the same hunters.                                            *)
LEMMA SameGameConserves ==
    ASSUME NEW g, NEW h, SameGame(g, h) PROVE Conserves(g, h)
BY SameConserves DEF SameGame

(* Nobody who comes or goes unnoticed changes the game.                     *)
LEMMA ArriveSound == SoundInv /\ ~failed /\ Arrive => Turns
BY SameTurns DEF Arrive, Unserved

(* The connection, lost or found.                                           *)
LEMMA SightSound == SoundInv /\ ~failed /\ (LoseSight \/ FindSight) => Turns
BY SameTurns DEF LoseSight, FindSight, Unserved

(* A change of nicknames.                                                   *)
LEMMA ChangeNickSound == NickShape /\ SoundInv /\ ~failed /\ ChangeNick => Turns
<1> SUFFICES ASSUME NickShape, SoundInv, ~failed, ChangeNick PROVE Turns
  OBVIOUS
<1>1. PICK wait \in Waits, p \in Here, new \in Free, slot \in BOOLEAN :
         /\ Learn(nick[p], Tracked(game, nick[p], new), Track(Later(wait), nick[p], new), slot)
         /\ Unserved
  BY DEF ChangeNick
<1> DEFINE g == Later(wait)
           h == Track(g, nick[p], new)
<1>2. Sound(g) /\ g.windows = game.windows /\ Conserves(game, g)
  BY LaterSound
<1>3. nick[p] \in Hunters /\ new \in Hunters
  BY DEF NickShape, Here, Free
<1> HIDE DEF g
<1>4. Sound(h) /\ h.windows = g.windows /\ SameGame(g, h)
  BY <1>2, <1>3, TrackSound
<1> HIDE DEF h
<1>5. Conserves(game, h)
  BY <1>2, <1>4, SameGameConserves, ConservesOn
<1>6. Learn(nick[p], Tracked(game, nick[p], new), h, slot) /\ UNCHANGED merged
  BY <1>1 DEF g, h, Unserved
<1> QED
  BY <1>2, <1>4, <1>5, <1>6, LearnsSound

(* A departure.                                                             *)
LEMMA LeaveSound == SoundInv /\ ~failed /\ Leave => Turns
<1> SUFFICES ASSUME SoundInv, ~failed, Leave PROVE Turns
  OBVIOUS
<1>1. PICK wait \in Waits, p \in Here, slot \in BOOLEAN :
         /\ Learn(nick[p], Pending(game, nick[p]) # {}, Cancel(Later(wait), nick[p]), slot)
         /\ Unserved
  BY DEF Leave
<1> DEFINE g == Later(wait)
           h == Cancel(g, nick[p])
<1>2. Sound(g) /\ g.windows = game.windows /\ Conserves(game, g)
  BY LaterSound
<1> HIDE DEF g
<1>3. Sound(h) /\ h.windows = g.windows /\ SameGame(g, h)
  BY <1>2, CancelSound
<1> HIDE DEF h
<1>4. Conserves(game, h)
  BY <1>2, <1>3, SameGameConserves, ConservesOn
<1>5. Learn(nick[p], Pending(game, nick[p]) # {}, h, slot) /\ UNCHANGED merged
  BY <1>1 DEF g, h, Unserved
<1> QED
  BY <1>2, <1>3, <1>4, <1>5, LearnsSound

(* A book that is recorded, or found to hold a window past its limit.       *)
LEMMA RecordedSound ==
    ASSUME SoundInv, ~failed, NEW b, Kept(b), Conserves(game, b.game), merged' = b.merged,
           Keep(b.game) \/ (failed' = TRUE /\ game' = b.game /\ Overfull(b.game))
    PROVE  Turns
<1>1. Sound(b.game) /\ (b.merged = {} => AllFit(b.game.windows))
  BY DEF Kept, SoundBook
<1>2. CASE Keep(b.game)
  <2>1. game' = b.game /\ failed' = failed
    BY <1>1, <1>2, KeepsSound
  <2> QED
    BY <1>1, <2>1 DEF SoundInv, Turns
<1>3. CASE failed' = TRUE /\ game' = b.game /\ Overfull(b.game)
  <2>1. b.merged # {}
    BY <1>1, <1>3 DEF Overfull, AllFit
  <2> QED
    BY <1>1, <1>3, <2>1 DEF Turns, Overfull
<1> QED
  BY <1>2, <1>3

(* What a command records, admitted or not.                                 *)
Settled(b) ==
    /\ Kept(b) /\ Conserves(game, b.game) /\ merged' = b.merged /\ served' = b.served
    /\ Keep(b.game) \/ (failed' = TRUE /\ game' = b.game /\ Overfull(b.game))
    /\ MemoryInv => MemoryOf(b.game, b.served, b.merged, steps + 1)

(* A command records such a book.                                           *)
LEMMA CommandRecords ==
    ASSUME NickShape, SoundInv, ~failed, Command PROVE \E b : Settled(b)
<1>1. PICK wait \in Waits, p \in Here, c \in Commands \union Queries, slots \in 0..3 :
        \E target \in (IF c \in Targeted THEN Hunters \union {Nobody} ELSE {Nobody}) :
          LET n == nick[p]
              t == game.now + wait
              b0 == [game |-> game, served |-> served, merged |-> merged]
              b1 == SettleTransfer(b0, n, t)
              b2 == SettleTransfer(b1, target, t)
              first == IF Owes(b0, n) THEN 1 ELSE 0
              both == first + (IF Owes(b1, target) THEN 1 ELSE 0)
          IN  /\ watched
              /\ trail' = [trail EXCEPT ![p] = IF slots >= first THEN {n} ELSE @]
              /\ CASE slots < first -> Record(b0, Said("busy", n, FALSE))
                   [] slots >= first /\ slots < both -> Record(b1, Said("busy", n, FALSE))
                   [] slots >= both /\ c \in Queries -> Record(b2, Said("query", n, FALSE))
                   [] slots = both /\ c \in Commands -> Record(b2, Said("busy", n, FALSE))
                   [] OTHER ->
                        IF Overfull(b2.game)
                        THEN /\ failed' = TRUE /\ said' = Said("command", n, FALSE)
                             /\ game' = b2.game /\ served' = b2.served /\ merged' = b2.merged
                        ELSE Record(Admission(b2, n, c, t), Said("command", n, FALSE))
              /\ UNCHANGED <<nick, watched, unseen, dropped>>
  BY DEF Command
<1> DEFINE n == nick[p]
           t == game.now + wait
           b0 == [game |-> game, served |-> served, merged |-> merged]
           b1 == SettleTransfer(b0, n, t)
           first == IF Owes(b0, n) THEN 1 ELSE 0
<1>2. PICK target :
          LET b2 == SettleTransfer(b1, target, t)
              both == first + (IF Owes(b1, target) THEN 1 ELSE 0)
          IN  CASE slots < first -> Record(b0, Said("busy", n, FALSE))
                [] slots >= first /\ slots < both -> Record(b1, Said("busy", n, FALSE))
                [] slots >= both /\ c \in Queries -> Record(b2, Said("query", n, FALSE))
                [] slots = both /\ c \in Commands -> Record(b2, Said("busy", n, FALSE))
                [] OTHER ->
                     IF Overfull(b2.game)
                     THEN /\ failed' = TRUE /\ said' = Said("command", n, FALSE)
                          /\ game' = b2.game /\ served' = b2.served /\ merged' = b2.merged
                     ELSE Record(Admission(b2, n, c, t), Said("command", n, FALSE))
  BY <1>1
<1> DEFINE b2 == SettleTransfer(b1, target, t)
           b3 == Admission(b2, n, c, t)
           both == first + (IF Owes(b1, target) THEN 1 ELSE 0)
<1>3. game.now \in Nat /\ t \in Nat /\ game.now <= t /\ n \in Hunters
  <2>1. game.now \in Nat /\ wait \in Nat
    BY IdentityConstants DEF SoundInv, Sound, Typed, GameState
  <2> QED
    BY <2>1 DEF NickShape, Here
<1>4. /\ Kept(b0) /\ b0.game = game /\ steps \in Nat
      /\ MemoryInv => MemoryOf(b0.game, b0.served, b0.merged, steps)
  BY IdentityConstants DEF Kept, SoundBook, SoundInv, MemoryInv
<1> HIDE DEF t, b0, n
<1>5. /\ Continues(b0, b1, t)
      /\ MemoryInv => MemoryOf(b1.game, b1.served, b1.merged, steps)
  BY <1>3, <1>4, SettleSound, SettleRemembers
<1> HIDE DEF b1
<1>6. /\ Continues(b1, b2, t)
      /\ MemoryInv => MemoryOf(b2.game, b2.served, b2.merged, steps)
  BY <1>3, <1>5, SettleSound, SettleRemembers DEF Continues
<1> HIDE DEF b2
<1>7. Conserves(game, b1.game) /\ Conserves(game, b2.game) /\ Conserves(game, b0.game)
  BY <1>4, <1>5, <1>6, ConservesOn DEF Continues, Conserves
<1>8. ~Overfull(b2.game) => Kept(b3) /\ Conserves(game, b3.game)
  <2> SUFFICES ASSUME ~Overfull(b2.game) PROVE Kept(b3) /\ Conserves(game, b3.game)
    OBVIOUS
  <2>1. /\ DOMAIN b2 = {"game", "served", "merged"} /\ Sound(b2.game)
        /\ AllFit(b2.game.windows) /\ b2.game.now <= t
    BY <1>6 DEF Continues, Kept, SoundBook, Overfull, AllFit
  <2>2. Sound(b3.game) /\ AllFit(b3.game.windows) /\ Conserves(b2.game, b3.game)
    BY <1>3, <2>1, AdmissionSound
  <2>3. DOMAIN b3 = {"game", "served", "merged"}
    BY <2>1 DEF Admission
  <2> HIDE DEF b3
  <2> QED
    BY <1>7, <2>2, <2>3, ConservesOn DEF Kept, SoundBook
<1>9. ASSUME MemoryInv
       PROVE  /\ MemoryOf(b0.game, b0.served, b0.merged, steps + 1)
              /\ MemoryOf(b1.game, b1.served, b1.merged, steps + 1)
              /\ MemoryOf(b2.game, b2.served, b2.merged, steps + 1)
  BY <1>4, <1>5, <1>6, <1>9, MemoryGrows
<1>10. ASSUME MemoryInv, c \in Commands
       PROVE  MemoryOf(b3.game, b3.served, b3.merged, steps + 1)
  <2>1. /\ DOMAIN b2 = {"game", "served", "merged"} /\ Sound(b2.game) /\ b2.game.now <= t
        /\ MemoryOf(b2.game, b2.served, b2.merged, steps)
    BY <1>6, <1>10 DEF Continues, Kept, SoundBook
  <2> QED
    BY <1>3, <1>4, <1>10, <2>1, AdmissionRemembers
<1>11. (slots < first \/ slots >= first) /\ (slots < both \/ slots >= both)
  <2>1. first \in Int /\ both \in Int
    OBVIOUS
  <2> HIDE DEF first, both
  <2> QED
    BY <2>1
<1> HIDE DEF b3, first, both
<1>12. \/ Record(b0, Said("busy", n, FALSE)) \/ Record(b1, Said("busy", n, FALSE))
       \/ Record(b2, Said("query", n, FALSE)) \/ Record(b2, Said("busy", n, FALSE))
       \/ /\ Overfull(b2.game) /\ failed' = TRUE /\ game' = b2.game
          /\ served' = b2.served /\ merged' = b2.merged
       \/ ~Overfull(b2.game) /\ c \in Commands /\ Record(b3, Said("command", n, FALSE))
  BY <1>2, <1>11, Zenon DEF t, n, b0, b1, b2, b3, first, both
<1>13. ASSUME NEW b, NEW what, Record(b, what), Kept(b), Conserves(game, b.game),
              MemoryInv => MemoryOf(b.game, b.served, b.merged, steps + 1)
       PROVE  Settled(b)
  BY <1>13 DEF Record, Settled
<1>14. CASE Record(b0, Said("busy", n, FALSE))
  BY <1>4, <1>7, <1>9, <1>13, <1>14
<1>15. CASE Record(b1, Said("busy", n, FALSE))
  BY <1>5, <1>7, <1>9, <1>13, <1>15 DEF Continues
<1>16. CASE Record(b2, Said("query", n, FALSE)) \/ Record(b2, Said("busy", n, FALSE))
  BY <1>6, <1>7, <1>9, <1>13, <1>16 DEF Continues
<1>17. CASE /\ Overfull(b2.game) /\ failed' = TRUE /\ game' = b2.game
            /\ served' = b2.served /\ merged' = b2.merged
  BY <1>6, <1>7, <1>9, <1>17 DEF Continues, Settled
<1>18. CASE ~Overfull(b2.game) /\ c \in Commands /\ Record(b3, Said("command", n, FALSE))
  BY <1>8, <1>10, <1>13, <1>18
<1> QED
  BY <1>12, <1>14, <1>15, <1>16, <1>17, <1>18

(* A command leaves a sound game.                                           *)
LEMMA CommandSound == NickShape /\ SoundInv /\ ~failed /\ Command => Turns
<1> SUFFICES ASSUME NickShape, SoundInv, ~failed, Command PROVE Turns
  OBVIOUS
<1>1. PICK b : Settled(b)
  BY CommandRecords
<1> QED
  BY <1>1, RecordedSound DEF Settled

(* A step moves points, and leaves a sound game.                            *)
LEMMA NextSound == NickShape /\ SoundInv /\ [Next]_vars => SoundInv' /\ Conserves(game, game')
<1> SUFFICES ASSUME NickShape, SoundInv, [Next]_vars PROVE SoundInv' /\ Conserves(game, game')
  OBVIOUS
<1>1. CASE Next
  <2>1. Turns
    BY <1>1, ArriveSound, SightSound, ChangeNickSound, LeaveSound, CommandSound DEF Next
  <2>2. steps' \in 0..MaxSteps
    BY <1>1, IdentityConstants DEF Next, SoundInv
  <2> QED
    BY <2>1, <2>2 DEF Turns, SoundInv
<1>2. CASE UNCHANGED vars
  BY <1>2 DEF vars, SoundInv, Conserves, Overfull
<1> QED
  BY <1>1, <1>2

(* What the windows remember of the start.                                  *)
LEMMA InitMemory == Init => MemoryInv
<1> SUFFICES ASSUME Init PROVE MemoryInv
  OBVIOUS
<1>1. Sound(game) /\ AllFit(game.windows)
  BY PlayableIsSound, IdentityConstants DEF Init
<1>2. served = UNION {ServedBy(w) : w \in game.windows} /\ merged = {} /\ steps = 0
  BY DEF Init
<1> QED
  BY <1>1, <1>2, StartRemembers DEF MemoryInv

(* A step that counts no command, now or later.                             *)
LEMMA SameMemory ==
    ASSUME SoundInv, MemoryInv, UNCHANGED <<served, merged>>, steps' = steps + 1,
           game' = game \/ (Sound(game)' /\ game'.windows = game.windows /\ game.now <= game'.now)
    PROVE  MemoryInv'
<1>1. steps \in Nat /\ MemoryOf(game, served, merged, steps + 1)
  <2>1. steps \in Nat
    BY IdentityConstants DEF SoundInv
  <2> QED
    BY <2>1, MemoryGrows DEF MemoryInv
<1>2. MemoryOf(game', served, merged, steps + 1)
  <2>1. CASE game' = game
    BY <1>1, <2>1
  <2>2. CASE Sound(game)' /\ game'.windows = game.windows /\ game.now <= game'.now
    <3>1. game.now \in Nat /\ game'.now \in Nat
      BY <2>2 DEF SoundInv, Sound, Typed, GameState
    <3>2. SameTimes(game, game')
      BY <2>2, <3>1, SameWindowsTimes
    <3> QED
      BY <1>1, <3>2, SameTimesRemember
  <2> QED
    BY <2>1, <2>2
<1> QED
  BY <1>2 DEF MemoryInv

(* The game by the time of a step, with other transfers.                    *)
LEMMA LearnsMemory ==
    ASSUME SoundInv, ~failed, NEW wait \in Waits, NEW h, Sound(h), h.windows = Later(wait).windows,
           SameGame(Later(wait), h), NEW n, NEW concerns, NEW slot, Learn(n, concerns, h, slot)
    PROVE  game' = game \/ (Sound(game)' /\ game'.windows = game.windows /\ game.now <= game'.now)
<1>1. game' = game \/ game' = h
  BY KeepsSound DEF Learn
<1>2. h.windows = game.windows
  BY LaterSound
<1>3. game.now \in Nat /\ wait \in Nat
  BY IdentityConstants DEF SoundInv, Sound, Typed, GameState
<1>4. game.now <= game.now + wait /\ game.now + wait \in Nat
  BY <1>3
<1>5. h.now = game.now + wait
  <2>1. Later(wait).now = game.now + wait
    BY <1>4, AdvanceSound DEF Later, SoundInv
  <2> QED
    BY <2>1 DEF SameGame
<1> QED
  BY <1>1, <1>2, <1>4, <1>5

(* A step leaves windows that agree with the history.                       *)
LEMMA NextMemory == NickShape /\ SoundInv /\ MemoryInv /\ [Next]_vars => MemoryInv'
<1> SUFFICES ASSUME NickShape, SoundInv, MemoryInv, [Next]_vars PROVE MemoryInv'
  OBVIOUS
<1>1. CASE Next
  <2>1. ~failed /\ steps' = steps + 1
    BY <1>1 DEF Next
  <2>2. CASE Arrive \/ LoseSight \/ FindSight
    <3>1. game' = game /\ UNCHANGED <<served, merged>>
      BY <2>2 DEF Arrive, LoseSight, FindSight, Unserved
    <3> QED
      BY <2>1, <3>1, SameMemory
  <2>3. CASE ChangeNick
    <3>1. PICK wait \in Waits, p \in Here, new \in Free, slot \in BOOLEAN :
             /\ Learn(nick[p], Tracked(game, nick[p], new), Track(Later(wait), nick[p], new), slot)
             /\ Unserved
      BY <2>3 DEF ChangeNick
    <3> DEFINE h == Track(Later(wait), nick[p], new)
    <3>2. nick[p] \in Hunters /\ new \in Hunters
      BY DEF NickShape, Here, Free
    <3>3. Sound(h) /\ h.windows = Later(wait).windows /\ SameGame(Later(wait), h)
      BY <3>2, LaterSound, TrackSound
    <3> HIDE DEF h
    <3>4. Learn(nick[p], Tracked(game, nick[p], new), h, slot) /\ UNCHANGED <<served, merged>>
      BY <3>1 DEF h, Unserved
    <3>5. game' = game \/ (Sound(game)' /\ game'.windows = game.windows /\ game.now <= game'.now)
      BY <2>1, <3>3, <3>4, LearnsMemory
    <3> QED
      BY <2>1, <3>4, <3>5, SameMemory
  <2>4. CASE Leave
    <3>1. PICK wait \in Waits, p \in Here, slot \in BOOLEAN :
             /\ Learn(nick[p], Pending(game, nick[p]) # {}, Cancel(Later(wait), nick[p]), slot)
             /\ Unserved
      BY <2>4 DEF Leave
    <3> DEFINE h == Cancel(Later(wait), nick[p])
    <3>2. Sound(h) /\ h.windows = Later(wait).windows /\ SameGame(Later(wait), h)
      BY LaterSound, CancelSound
    <3> HIDE DEF h
    <3>3. Learn(nick[p], Pending(game, nick[p]) # {}, h, slot) /\ UNCHANGED <<served, merged>>
      BY <3>1 DEF h, Unserved
    <3>4. game' = game \/ (Sound(game)' /\ game'.windows = game.windows /\ game.now <= game'.now)
      BY <2>1, <3>2, <3>3, LearnsMemory
    <3> QED
      BY <2>1, <3>3, <3>4, SameMemory
  <2>5. CASE Command
    <3>1. PICK b : Settled(b)
      BY <2>1, <2>5, CommandRecords
    <3>2. game' = b.game
      BY <3>1, KeepsSound DEF Settled, Kept, SoundBook
    <3> QED
      BY <2>1, <3>1, <3>2 DEF Settled, MemoryInv
  <2> QED
    BY <1>1, <2>2, <2>3, <2>4, <2>5 DEF Next
<1>2. CASE UNCHANGED vars
  BY <1>2 DEF vars, MemoryInv
<1> QED
  BY <1>1, <1>2

-----------------------------------------------------------------------------
(* Theorems. *)

(* Transfers, nicknames and trails agree in every reachable state. *)
THEOREM IdentityInvariant == Spec => []IInv
BY InitInv, NextInv, PTL DEF Spec

(* A transfer waits for somebody who is there under its nickname and has    *)
(* changed nicknames since it last took part, unless the bot missed the     *)
(* change (application.observe_identity, identity_transfer.py).             *)
THEOREM TransfersHeld == Spec => []TransfersAreHeld
<1>1. IInv => TransfersAreHeld
  <2> SUFFICES ASSUME IInv, ~failed, NEW x \in game.transfers
               PROVE  Held(x) \/ x.to \in unseen \union dropped
    BY DEF TransfersAreHeld
  <2>1. x.to \in Ends(game)
    BY DEF Ends
  <2> QED
    BY <2>1 DEF IInv, TransferShape, Followed, Missed, Held
<1> QED
  BY <1>1, IdentityInvariant, PTL

(* The game is sound in every reachable state, and together with who is     *)
(* there and what is pending nothing more is needed to keep it so.          *)
THEOREM SoundInvariant == Spec => [](IInv /\ SoundInv)
<1>1. IInv /\ SoundInv /\ [Next]_vars => (IInv /\ SoundInv)'
  BY NextInv, NextSound DEF IInv
<1> QED
  BY <1>1, InitInv, InitSound, PTL DEF Spec

(* No chain of renames, transfers, merges and admissions builds a state that *)
(* the model classes reject, and only a window that a merge filled past its  *)
(* limit stops the process (model.py __post_init__, identity_transfer.py,    *)
(* validate_throttle_window).                                                *)
THEOREM StatesSound == Spec => []StatesAreSound
<1>1. IInv /\ SoundInv => StatesAreSound
  <2> SUFFICES ASSUME IInv, SoundInv PROVE StatesAreSound
    OBVIOUS
  <2>1. ValidGame(game) /\ ValidWindows(game) /\ DOMAIN game.players \subseteq Hunters
    BY SoundIsValid DEF SoundInv, Sound, Typed
  <2>2. /\ nick \in [Persons -> Hunters \union {Nobody}]
        /\ \A p, q \in Here : nick[p] = nick[q] => p = q
        /\ \A p \in Here : nick[p] \in trail[p]
    BY DEF IInv, NickShape, TrailShape, Here
  <2> QED
    BY <2>1, <2>2 DEF StatesAreSound, TypeOK, OnlyWindowsRaise, SoundInv
<1> QED
  BY <1>1, SoundInvariant, PTL

(* Renames and merges move hits, shots, deaths and experience with credit    *)
(* from nickname to nickname and neither make nor lose any                   *)
(* (identity_transfer.merge_players, rekey).                                 *)
THEOREM NothingLost == Spec => NothingIsLost
<1> DEFINE Lossless ==
      /\ \A f \in {"hits", "shots", "deaths"} : Total(game', f) = Total(game, f)
      /\ Wealth(game') = Wealth(game)
<1>1. IInv /\ SoundInv /\ [Next]_vars => [Lossless]_vars
  <2> SUFFICES ASSUME IInv, SoundInv, [Next]_vars PROVE Lossless
    OBVIOUS
  <2>1. Conserves(game, game')
    BY NextSound DEF IInv
  <2>2. ASSUME NEW g
        PROVE  /\ \A f \in {"hits", "shots", "deaths"} : Total(g, f) = Tally(g, f)
               /\ Wealth(g) = Tally(g, "wealth")
    <3>1. ASSUME NEW f \in {"hits", "shots", "deaths"} PROVE Total(g, f) = Tally(g, f)
      <4>1. \A n \in DOMAIN g.players : Value(g.players[n], f) = g.players[n][f]
        BY DEF Value
      <4>2. Values(g, f) = [n \in DOMAIN g.players |-> g.players[n][f]]
        BY <4>1 DEF Values
      <4> QED
        BY <4>2 DEF Total, Tally
    <3>2. Wealth(g) = Tally(g, "wealth")
      BY DEF Wealth, Tally, Values, Value
    <3> QED
      BY <3>1, <3>2
  <2>3. \A f \in {"hits", "shots", "deaths"} : Total(game', f) = Total(game, f)
    BY <2>1, <2>2 DEF Conserves, Counts
  <2>4. Wealth(game') = Wealth(game)
    BY <2>1, <2>2 DEF Conserves, Counts
  <2> QED
    BY <2>3, <2>4
<1> QED
  BY <1>1, SoundInvariant, PTL DEF NothingIsLost, Spec

(* The windows remember the commands of the last minutes, or as many as a   *)
(* window holds, whatever names their hunters have taken since, and let no   *)
(* more through than the limits, unless two windows have become one          *)
(* (runtime._admit_command, identity_transfer._merge_throttle_window).       *)
THEOREM WindowsRemembered == Spec => []WindowsRemember
<1>1. IInv /\ SoundInv /\ MemoryInv /\ [Next]_vars => (IInv /\ SoundInv /\ MemoryInv)'
  BY NextInv, NextSound, NextMemory DEF IInv
<1>2. Init => IInv /\ SoundInv /\ MemoryInv
  BY InitInv, InitSound, InitMemory
<1>3. IInv /\ SoundInv /\ MemoryInv => WindowsRemember
  <2> SUFFICES ASSUME SoundInv, MemoryInv PROVE WindowsRemember
    OBVIOUS
  <2> DEFINE right(n, c, limit) ==
        /\ Remembered(n, c) = Least(MaxExpirations, Cardinality(Live(n, c, limit)))
        /\ Cardinality(Live(n, c, limit)) <= limit.maximum \/ n \in merged
  <2>1. ASSUME NEW n, NEW c, Slot(n, c) PROVE right(n, c, Limit(n, c))
    <3>1. game.now \in Nat /\ game.now >= game.now
      BY DEF SoundInv, Sound, Typed, GameState
    <3>2. Remembers(game, served, n, c) /\ Within(game, served, merged, n, c)
      BY <2>1 DEF MemoryInv, MemoryOf
    <3>3. Live(n, c, Limit(n, c)) = LiveAt(served, n, c, game.now)
      BY DEF Live, LiveAt
    <3>4. Remembered(n, c) = After(Expirations(game, n, c), game.now)
      BY DEF Remembered, After
    <3> QED
      BY <3>1, <3>2, <3>3, <3>4 DEF Remembers, Within
  <2>2. right(Nobody, Whatever, ChannelLimit)
    <3>1. Slot(Nobody, Whatever) /\ Limit(Nobody, Whatever) = ChannelLimit
      BY DEF Slot, Limit
    <3>2. right(Nobody, Whatever, Limit(Nobody, Whatever))
      BY <2>1, <3>1
    <3> QED
      BY <3>1, <3>2
  <2>3. ASSUME NEW n \in Hunters, NEW c \in DOMAIN Limits PROVE right(n, c, Limits[c])
    <3>1. Slot(n, c) /\ Limit(n, c) = Limits[c]
      BY NobodyHunts DEF Slot, Limit
    <3>2. right(n, c, Limit(n, c))
      BY <2>1, <3>1
    <3> QED
      BY <3>1, <3>2
  <2> HIDE DEF right
  <2>4. right(Nobody, Whatever, ChannelLimit)
        /\ \A n \in Hunters, c \in DOMAIN Limits : right(n, c, Limits[c])
    BY <2>2, <2>3
  <2> QED
    BY <2>4 DEF WindowsRemember, right
<1> QED
  BY <1>1, <1>2, <1>3, PTL DEF Spec

=============================================================================
