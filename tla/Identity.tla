------------------------------ MODULE Identity ------------------------------
(***************************************************************************)
(* Who is who: nicknames, pending transfers of profiles, merges and the    *)
(* throttle windows of the commands (game/identity_transfer.py, the        *)
(* admission of game/runtime.py, runtime/application.py).                  *)
(* A person is followed by the nickname it has now.  What the bot learns   *)
(* of a change is an event: it needs a slot of the persistence queue, and  *)
(* without one the fact is lost while a command is answered "busy".  An    *)
(* admitted command only makes its hunter known here; the rest of it is    *)
(* the business of Hunters.                                                *)
(***************************************************************************)
EXTENDS Profile, Sequences, FiniteSetsExt, Functions

CONSTANTS
    Persons,      \* who uses the channel
    Starts,       \* the games a behaviour may start from
    Commands,     \* the commands that make an event
    Limits,       \* COMMAND_RATE_LIMITS: the windows of some of the commands
    ChannelLimit, \* GLOBAL_RATE_LIMIT
    Targeted,     \* the commands that may name another hunter
    Queries,      \* the commands answered without an event
    Waits,        \* seconds that may pass before something happens
    MaxSteps      \* bound: what happens in a behaviour

VARIABLES
    game,     \* the game, with its transfers and throttle windows
    nick,     \* the nickname of a person, Nobody when it is not there
    trail,    \* nicknames a person had since it last took part (history)
    watched,  \* the bot is in the channel
    unseen,   \* nicknames that changed hands while the bot was away (history)
    dropped,  \* nicknames that changed hands while the queue was full (history)
    served,   \* the commands admitted, under all they count for (history)
    merged,   \* nicknames that inherited another's windows (history)
    said,     \* what happened last
    failed,   \* the process has stopped on an exception
    steps     \* what happened so far

vars == <<game, nick, trail, watched, unseen, dropped, served, merged, said, failed, steps>>

-----------------------------------------------------------------------------
(* Throttle windows: [of, command, expires, notice]; the one of the channel *)
(* belongs to Nobody.                                                       *)

Whatever == "any"
NoticeInterval == 60
MaxExpirations == 30    \* what a window holds, and a merge keeps

ThrottleWindow ==
    [of : Hunters \union {Nobody}, command : Commands \union {Whatever}, expires : Seq(Nat \ {0}),
     notice : Nat]

Sorted(s) == \A i, j \in DOMAIN s : i < j => s[i] <= s[j]

LimitOf(w) == IF w.of = Nobody THEN ChannelLimit ELSE Limits[w.command]
Fits(w) == Len(w.expires) <= LimitOf(w).maximum

ValidWindows(g) ==
    /\ \A v, w \in g.windows : v.of = w.of /\ v.command = w.command => v = w
    /\ \A w \in g.windows : Len(w.expires) \in 1..MaxExpirations /\ Sorted(w.expires)

(* The state of the channel, and one that a process may start from. *)
GameState(known) ==
    [now : Nat, players : [known -> PlayerState],
     flight : [id : Nat, spawned : Nat, expires : Nat, kind : {"standard", "golden", "mechanical"},
               health : Int, reward : Nat, noisy : Nat],
     last : [id : Nat, spawned : Nat, ended : Nat, hit : BOOLEAN], nextFlight : Nat,
     lastShooter : Hunters \union {Nobody},
     effects : SUBSET ActiveEffect, nextEffect : Nat, curses : SUBSET ActiveCurse,
     nextCurse : Nat, calls : SUBSET ScheduledCall, nextCall : Nat,
     transfers : SUBSET PendingTransfer, windows : SUBSET ThrottleWindow]

Playable(g) ==
    /\ DOMAIN g.players \subseteq Hunters /\ g \in GameState(DOMAIN g.players)
    /\ ValidGame(g) /\ ValidWindows(g) /\ g.last.id < g.nextFlight /\ g.transfers = {}
    /\ \A n \in DOMAIN g.players :
          OfToday(g.players[n], g.now)
    /\ \A w \in g.windows :
          /\ IF w.of = Nobody THEN w.command = Whatever
             ELSE Known(g, w.of) /\ w.command \in DOMAIN Limits
          /\ Fits(w)

ASSUME IdentityConstants ==
    /\ IsFiniteSet(Hunters) /\ IsFiniteSet(Commands) /\ Waits \subseteq Nat /\ MaxSteps \in Nat
    /\ DOMAIN Limits \subseteq Commands /\ Targeted \subseteq Commands
    /\ \A l \in {Limits[c] : c \in DOMAIN Limits} \union {ChannelLimit} :
          l.maximum \in 1..MaxExpirations /\ l.seconds \in Nat \ {0}
    /\ \A g \in Starts : Playable(g)

IsFullLate(w) == Len(w.expires) > LimitOf(w).maximum    \* an off-by-one
IsFull(w) == Len(w.expires) >= LimitOf(w).maximum

Window(g, n, c) == {w \in g.windows : w.of = n /\ w.command = c}

Replace(g, w) == [g EXCEPT !.windows = (@ \ Window(g, w.of, w.command)) \union {w}]

(* How many of the times of s have come by the time t. *)
UpTo(s, t) == Cardinality({i \in DOMAIN s : s[i] <= t})

(* The times of r and of s, sorted: the k-th is the first by which k have come. *)
InOrder(r, s) ==
    LET times == {r[i] : i \in DOMAIN r} \union {s[i] : i \in DOMAIN s}
    IN  [k \in 1..Len(r) + Len(s) |-> Min({t \in times : UpTo(r, t) + UpTo(s, t) >= k})]

(* A window that is not full any more may say so again.                    *)
Prune(g) ==
    LET later(w) == SubSeq(w.expires, UpTo(w.expires, g.now) + 1, Len(w.expires))
        pruned(w) == [w EXCEPT !.expires = later(w),
                               !.notice = IF Len(later(w)) >= LimitOf(w).maximum THEN @ ELSE 0]
    IN  [g EXCEPT !.windows = {pruned(w) : w \in {v \in @ : later(v) # <<>>}}]

(* The window that stops a command: the hunter's own before the channel's. *)
Blocking(g, n, c) ==
    LET own == {w \in Window(g, n, c) : IsFull(w)}
    IN  IF own # {} THEN own ELSE {w \in Window(g, Nobody, Whatever) : IsFull(w)}

Noticed(g, w) == g.now >= w.notice
Refuse(g, w) ==
    IF Noticed(g, w) THEN Replace(g, [w EXCEPT !.notice = g.now + NoticeInterval]) ELSE g

Expirations(g, n, c) ==
    LET old == {w.expires : w \in Window(g, n, c)}
    IN  IF old = {} THEN <<>> ELSE CHOOSE x \in old : TRUE

Count(g, n, c, limit) ==
    Replace(g, [of |-> n, command |-> c, notice |-> 0,
                expires |-> InOrder(Expirations(g, n, c), <<g.now + limit.seconds>>)])

Admit(g, n, c) ==
    LET own == IF c \in DOMAIN Limits THEN Count(g, n, c, Limits[c]) ELSE g
    IN  Count(own, Nobody, Whatever, ChannelLimit)

-----------------------------------------------------------------------------
(* Transfers: [from, to, expires], at most one to a nickname.              *)

TransferLife == Hour

Pending(g, n) == {x \in g.transfers : x.to = n}

Tracked(g, old, new) == Known(g, old) \/ Known(g, new) \/ Pending(g, old) # {}

(* A bug: the transfer to the new nickname is left beside the next one.    *)
TrackBeside(g, old, new) ==
    IF Tracked(g, old, new)
    THEN [g EXCEPT !.transfers = (@ \ Pending(g, old)) \union
                                 {[from |-> old, to |-> new, expires |-> g.now + TransferLife]}]
    ELSE g

(* A chain keeps its first source and follows the last nickname; a return  *)
(* to the source ends it.                                                  *)
Track(g, old, new) ==
    LET inherited == Pending(g, old)
        source == IF inherited = {} THEN old ELSE (CHOOSE x \in inherited : TRUE).from
        rest == g.transfers \ inherited
        noted == inherited # {} \/ Known(g, old) \/ Known(g, new)
    IN  CASE source = new -> [g EXCEPT !.transfers = rest]
          [] source # new /\ noted ->
                [g EXCEPT !.transfers = {x \in rest : x.to # new} \union
                                        {[from |-> source, to |-> new,
                                          expires |-> g.now + TransferLife]}]
          [] OTHER -> [g EXCEPT !.transfers = rest]

CancelSource(g, n) == [g EXCEPT !.transfers = {x \in @ : x.from # n}]    \* the wrong end
Cancel(g, n) == [g EXCEPT !.transfers = @ \ Pending(g, n)]

-----------------------------------------------------------------------------
(* Two profiles that become one.                                           *)

Bonus(p) == Most(0, p.capacity - AmmoOf(p.level))
MagazineBonus(p) == Most(0, p.magazineCapacity - MagazinesOf(p.level))

(* A bug: the levels already climbed are forgotten.                        *)
GrownPartly(p, q) == Grant(q, p.experience)

(* The destination starts again from level 1 with the experience of both.  *)
Grown(p, q) ==
    LET capacity == AmmoOf(1) + Most(Bonus(p), Bonus(q))
        magazines == MagazinesOf(1) + Most(MagazineBonus(p), MagazineBonus(q))
        base == [q EXCEPT !.level = 1, !.experience = 0,
                          !.capacity = capacity, !.ammo = Least(@, capacity),
                          !.magazineCapacity = magazines, !.magazines = Least(@, magazines)]
    IN  Grant(base, Available(p) + Available(q))

(* The rounds both have fired are missing from the common weapon.          *)
Reloaded(grown, p, q) ==
    LET full(r) == r.capacity * (r.magazineCapacity + 1)
        fired(r) == full(r) - r.ammo - r.magazines * r.capacity
        left == full(grown) - fired(p) - fired(q)
        ammo == IF left <= 0 THEN 0 ELSE ((left - 1) % grown.capacity) + 1
    IN  [grown EXCEPT !.ammo = ammo,
                      !.magazines = IF left <= 0 THEN 0
                                    ELSE Least(grown.magazineCapacity,
                                               (left - ammo) \div grown.capacity)]

(* Everything counted is counted for both.                                 *)
Pooled(r, p, q) ==
    [r EXCEPT !.spent = p.spent + q.spent, !.credit = p.credit + q.credit,
              !.hits = p.hits + q.hits, !.shots = p.shots + q.shots,
              !.caused = p.caused + q.caused, !.received = p.received + q.received,
              !.survived = p.survived + q.survived, !.deaths = p.deaths + q.deaths,
              !.carried = p.carried + q.carried]

Merged(p, q) ==
    LET karma == Least(MaxKarma, Most(MinKarma, p.karma + q.karma))
    IN  [Pooled(Reloaded(Grown(p, q), p, q), p, q) EXCEPT
            !.jammed = p.jammed \/ q.jammed,
            !.confiscated = p.confiscated \/ q.confiscated,
            !.permanent = p.permanent \/ q.permanent,
            !.fatigue = Most(p.fatigue, q.fatigue),
            !.karma = karma,
            !.decays = IF karma = 0 THEN Never ELSE Most(p.decays, q.decays),
            !.day = Most(p.day, q.day),
            !.upgrades = p.upgrades \union q.upgrades,
            !.letters = p.letters \union q.letters]

(* Of an effect that would be there twice, the one that lasts.             *)
Prefers(e, f) ==
    LET rank(x) == IF x.expires = Never THEN 1 ELSE 0
    IN  \/ rank(e) > rank(f)
        \/ rank(e) = rank(f) /\ e.expires > f.expires
        \/ rank(e) = rank(f) /\ e.expires = f.expires /\ e.uses > f.uses
        \/ rank(e) = rank(f) /\ e.expires = f.expires /\ e.uses = f.uses /\ e.id < f.id

EffectsOnce(effects) ==
    {e \in effects : e.owner = Nobody \/
        \A f \in effects : f.owner = e.owner /\ f.item = e.item => ~Prefers(f, e)}

CursesOnce(curses) ==
    {c \in curses : \A d \in curses :
        d.owner = c.owner /\ d.curse = c.curse =>
            d.expires < c.expires \/ (d.expires = c.expires /\ d.id >= c.id)}

Recent(s) == SubSeq(s, Most(1, Len(s) - MaxExpirations + 1), Len(s))

Joined(v, w) == [v EXCEPT !.expires = Recent(InOrder(v.expires, w.expires)),
                          !.notice = Most(v.notice, w.notice)]

(* The windows of s go to d, and each joins the one d has for its command. *)
WindowsOnce(windows, s, d) ==
    LET kept == {v \in windows : v.of # s}
        moved == {[w EXCEPT !.of = d] : w \in windows \ kept}
        twins(v, w) == v.of = d /\ v.command = w.command
    IN  {v \in kept : \A w \in moved : ~twins(v, w)}
        \union {w \in moved : \A v \in kept : ~twins(v, w)}
        \union UNION {{Joined(v, w) : w \in {x \in moved : twins(v, x)}} : v \in kept}

(* The profile s becomes p under the name d, and with it all that named s. *)
Rekey(g, s, d, p) ==
    LET name(n) == IF n = s THEN d ELSE n
        effects == {[e EXCEPT !.owner = name(@), !.source = name(@)] : e \in g.effects}
        calls == {[c EXCEPT !.source = name(@)] : c \in g.calls}
        curses == {[c EXCEPT !.owner = name(@)] : c \in g.curses}
        others == {x \in g.transfers : x.from # s \/ x.to # d}
        transfers == {[x EXCEPT !.from = name(@)] : x \in others}
    IN  [g EXCEPT
            !.players = [n \in (DOMAIN @ \ {s}) \union {d} |-> IF n = d THEN p ELSE @[n]],
            !.lastShooter = name(@), !.effects = EffectsOnce(effects), !.calls = calls,
            !.curses = CursesOnce(curses), !.windows = WindowsOnce(g.windows, s, d),
            !.transfers = transfers]

Consumed(g, x) == [g EXCEPT !.transfers = @ \ {x}]

Resolve(g, x) ==
    LET rest == Consumed(g, x)
    IN  CASE ~Known(g, x.from) -> rest
          [] Known(g, x.from) /\ ~Known(g, x.to) -> Rekey(rest, x.from, x.to, g.players[x.from])
          [] OTHER -> Rekey(rest, x.from, x.to, Merged(g.players[x.from], g.players[x.to]))

-----------------------------------------------------------------------------
(* Steps. *)

Said(what, who, notice) == [what |-> what, who |-> who, notice |-> notice]

(* A command counts for a hunter, by a name it had, or for the channel.     *)
Serving(by, nth, c, t) == [by |-> by, nth |-> nth, of |-> by, command |-> c, at |-> t]

ServedBy(w) ==
    {Serving(w.of, -i, w.command, w.expires[i] - LimitOf(w).seconds) : i \in DOMAIN w.expires}

Init ==
    /\ game \in Starts
    /\ nick \in [Persons -> DOMAIN game.players \union {Nobody}]
    /\ \A p, q \in Persons : p # q /\ nick[p] = nick[q] => nick[p] = Nobody
    /\ trail = [p \in Persons |-> {nick[p]} \ {Nobody}]
    /\ watched = TRUE /\ unseen = {} /\ dropped = {} /\ merged = {}
    /\ served = UNION {ServedBy(w) : w \in game.windows}
    /\ said = Said("start", Nobody, FALSE)
    /\ failed = FALSE /\ steps = 0

(* A state the model classes reject is an exception, and nothing is kept.  *)
Keep(h) ==
    IF ValidGame(h) /\ ValidWindows(h) THEN game' = h /\ UNCHANGED failed
    ELSE failed' = TRUE /\ UNCHANGED game

Later(wait) == Advance(game, game.now + wait)
Free == Hunters \ {nick[p] : p \in Persons}
Here == {p \in Persons : nick[p] # Nobody}
Moves(p, n) == nick' = [nick EXCEPT ![p] = n]
Unserved == UNCHANGED <<served, merged>>

(* The channel sees the nickname n change hands.  The event it may take is  *)
(* dropped when the queue has no slot for it.                               *)
Learn(n, concerns, h, slot) ==
    IF ~watched THEN unseen' = unseen \union {n} /\ UNCHANGED <<game, failed, dropped>>
    ELSE IF concerns /\ ~slot
    THEN dropped' = dropped \union {n} /\ UNCHANGED <<game, failed, unseen>>
    ELSE /\ unseen' = unseen \ {n} /\ dropped' = dropped \ {n}
         /\ IF concerns THEN Keep(h) ELSE UNCHANGED <<game, failed>>

Arrive ==
    \E p \in Persons \ Here, n \in Free :
        /\ Moves(p, n) /\ trail' = [trail EXCEPT ![p] = {n}]
        /\ said' = Said("arrive", n, FALSE)
        /\ UNCHANGED <<game, failed, watched, unseen, dropped>> /\ Unserved

ChangeNick ==
    \E wait \in Waits, p \in Here, new \in Free, slot \in BOOLEAN :
        LET old == nick[p]
        IN  /\ Learn(old, Tracked(game, old, new), Track(Later(wait), old, new), slot)
            /\ Moves(p, new) /\ trail' = [trail EXCEPT ![p] = @ \union {new}]
            /\ said' = Said("nick", new, FALSE)
            /\ UNCHANGED watched /\ Unserved

(* QUIT, or PART from the channel of the game.                             *)
Leave ==
    \E wait \in Waits, p \in Here, slot \in BOOLEAN :
        LET n == nick[p]
        IN  /\ Learn(n, Pending(game, n) # {}, Cancel(Later(wait), n), slot)
            /\ Moves(p, Nobody) /\ trail' = [trail EXCEPT ![p] = {}]
            /\ said' = Said("leave", n, FALSE)
            /\ UNCHANGED watched /\ Unserved

(* The bot loses its connection, and finds it again.                       *)
LoseSight ==
    /\ watched /\ watched' = FALSE /\ said' = Said("lost", Nobody, FALSE)
    /\ UNCHANGED <<nick, trail, unseen, dropped, game, failed>> /\ Unserved
FindSight ==
    /\ ~watched /\ watched' = TRUE /\ said' = Said("found", Nobody, FALSE)
    /\ UNCHANGED <<nick, trail, unseen, dropped, game, failed>> /\ Unserved

-----------------------------------------------------------------------------
(* A command first settles the transfer to its hunter, then the one to the  *)
(* hunter it names, one event each.  A book is the game with the history.   *)

Inherit(g, x, b) ==
    [game |-> Resolve(g, x),
     served |-> IF Known(g, x.from)
                THEN {IF e.of = x.from THEN [e EXCEPT !.of = x.to] ELSE e : e \in b.served}
                ELSE b.served,
     merged |-> IF Known(g, x.from) /\ (Known(g, x.to) \/ x.from \in b.merged)
                THEN b.merged \union {x.to} ELSE b.merged]

Owes(b, n) == n # Nobody /\ Pending(b.game, n) # {}

(* The transfer may have expired by the time it is settled.                *)
SettleTransfer(b, n, t) ==
    LET g == Advance(b.game, t)
        x == Pending(g, n)
    IN  CASE ~Owes(b, n) -> b
          [] Owes(b, n) /\ x = {} -> [b EXCEPT !.game = g]
          [] OTHER -> Inherit(g, CHOOSE y \in x : TRUE, b)

Admission(b, n, c, t) ==
    LET g == Prune(Advance(b.game, t))
        blocking == Blocking(g, n, c)
        h == Admit(g, n, c)
    IN  IF blocking = {}
        THEN [b EXCEPT !.game = WithPlayer(h, n, Resolved(h, n)),
                       !.served = @ \union {Serving(n, steps, c, t),
                                             Serving(Nobody, steps, Whatever, t)}]
        ELSE [b EXCEPT !.game = Refuse(g, CHOOSE w \in blocking : TRUE)]

(* With a window past its limit every command raises.                      *)
Overfull(g) == \E w \in g.windows : ~Fits(w)

Record(b, what) ==
    /\ Keep(b.game) /\ served' = b.served /\ merged' = b.merged /\ said' = what

Command ==
    \E wait \in Waits, p \in Here, c \in Commands \union Queries, slots \in 0..3 :
      \E target \in (IF c \in Targeted THEN Hunters \union {Nobody} ELSE {Nobody}) :
        LET n == nick[p]
            t == game.now + wait
            b0 == [game |-> game, served |-> served, merged |-> merged]
            b1 == SettleTransfer(b0, n, t)
            b2 == SettleTransfer(b1, target, t)
            first == IF Owes(b0, n) THEN 1 ELSE 0
            both == first + (IF Owes(b1, target) THEN 1 ELSE 0)
        IN  /\ watched
            /\ trail' = [trail EXCEPT ![p] = IF slots >= first THEN {n} ELSE @]
            /\ CASE slots < first -> Record(b0, Said("busy", n, FALSE))
                 [] slots >= first /\ slots < both -> Record(b1, Said("busy", n, FALSE))
                 [] slots >= both /\ c \in Queries -> Record(b2, Said("query", n, FALSE))
                 [] slots = both /\ c \in Commands -> Record(b2, Said("busy", n, FALSE))
                 [] OTHER ->
                      IF Overfull(b2.game)
                      THEN /\ failed' = TRUE /\ said' = Said("command", n, FALSE)
                           /\ game' = b2.game /\ served' = b2.served /\ merged' = b2.merged
                      ELSE Record(Admission(b2, n, c, t), Said("command", n, FALSE))
            /\ UNCHANGED <<nick, watched, unseen, dropped>>

Next ==
    /\ ~failed /\ steps < MaxSteps /\ steps' = steps + 1
    /\ Arrive \/ ChangeNick \/ Leave \/ LoseSight \/ FindSight \/ Command

Spec == Init /\ [][Next]_vars

-----------------------------------------------------------------------------
(* Properties. *)

TypeOK ==
    /\ DOMAIN game.players \subseteq Hunters /\ ValidGame(game) /\ ValidWindows(game)
    /\ nick \in [Persons -> Hunters \union {Nobody}]
    /\ \A p, q \in Here : nick[p] = nick[q] => p = q
    /\ \A p \in Here : nick[p] \in trail[p]
    /\ failed \in BOOLEAN /\ steps \in 0..MaxSteps

(* Renames and merges move points, they neither make nor lose any.         *)
Total(g, f) == SumFunction([n \in DOMAIN g.players |-> g.players[n][f]])
Wealth(g) == SumFunction([n \in DOMAIN g.players |->
                             Available(g.players[n]) + g.players[n].credit])

NothingIsLost ==
    [][/\ \A f \in {"hits", "shots", "deaths"} : Total(game', f) = Total(game, f)
       /\ Wealth(game') = Wealth(game)]_vars

(* A transfer waits for somebody who is there and has changed nicknames     *)
(* since it last took part, unless the bot missed the change.               *)
Held(x) == \E p \in Here : nick[p] = x.to /\ Cardinality(trail[p]) > 1
TransfersAreHeld ==
    ~failed => \A x \in game.transfers : Held(x) \/ x.to \in unseen \union dropped

Live(n, c, limit) ==
    {e \in served : e.of = n /\ e.command = c /\ e.at + limit.seconds > game.now}
Remembered(n, c) ==
    LET s == Expirations(game, n, c) IN Len(s) - UpTo(s, game.now)

(* The windows remember the commands of the last minutes, or as many as a   *)
(* window holds, whatever names their hunters have taken since, and let no  *)
(* more through than the limits.                                            *)
WindowsRemember ==
    LET right(n, c, limit) ==
            /\ Remembered(n, c) = Least(MaxExpirations, Cardinality(Live(n, c, limit)))
            /\ Cardinality(Live(n, c, limit)) <= limit.maximum \/ n \in merged
    IN  /\ right(Nobody, Whatever, ChannelLimit)
        /\ \A n \in Hunters, c \in DOMAIN Limits : right(n, c, Limits[c])

(* What validate_throttle_window asserts of every window it finds.         *)
WindowsFit == ~Overfull(game)

(* Only that, and only after a merge, stops the process: no chain of        *)
(* renames, merge or admission builds a state the model classes reject.     *)
OnlyWindowsRaise == failed => Overfull(game) /\ merged # {}

StatesAreSound == TypeOK /\ OnlyWindowsRaise

=============================================================================
