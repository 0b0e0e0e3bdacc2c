------------------------------ MODULE Partyline ------------------------------
(***************************************************************************)
(* The partyline (partyline/runtime.py, partyline/users.py): the sessions  *)
(* of the operators from the first line to the end, DCC handshakes,        *)
(* invitations of the owner, the store of its password, and the flights    *)
(* launched from there.  One tick is a poll at a later time: it begins     *)
(* with _expire; all other steps happen in a poll, or in the messages      *)
(* handled after it, at the same time.  Every timer is the ticks it has    *)
(* left.  A notice goes through the priority sink, which raises unless the *)
(* IRC session is READY: inside a line of a session the exception is       *)
(* caught, anywhere else it closes the partyline and ends the process.     *)
(* A line that overflows the output of a session closes it; that is the    *)
(* line followed by Drop.                                                  *)
(***************************************************************************)
EXTENDS Naturals, Integers, Sequences, FiniteSets, FiniteSetsExt

CONSTANTS
    Nicks, Handles,      \* who speaks to the bot, and the names they give to a session
    Nobody,              \* no nickname
    Allowed,             \* bootstrap_accounts and bootstrap_masks
    Peers, Loopback,     \* addresses, and which of them are local
    Words, Short,        \* passwords, and one the length check rejects
    MaxSessions, MaxPendingDCC, MaxSessionFailures, MaxIPFailures,
    AuthTimeout, DCCTimeout, BootstrapTimeout, FailureWindow,
    Spontaneous,         \* the delays of a spontaneous launch, none if disabled
    MaxRemembered,       \* bound: authentication failures remembered of a peer
    MaxBusy              \* bound: sessions, handshakes, invitations and suspects

Unchosen == "unchosen"

ASSUME PartylineConstants ==
    /\ Nobody \notin Handles /\ Nicks \subseteq Handles /\ Allowed \subseteq Nicks /\ Loopback \subseteq Peers
    /\ {Short, Unchosen} \cap Words = {} /\ Spontaneous \subseteq Nat \ {0}
    /\ {MaxSessions, MaxPendingDCC, MaxSessionFailures, MaxIPFailures, AuthTimeout, DCCTimeout,
        BootstrapTimeout, FailureWindow} \subseteq Nat \ {0}
    /\ {MaxRemembered, MaxBusy} \subseteq Nat /\ MaxRemembered >= MaxIPFailures

VARIABLES
    up,        \* "running", "stopped", or "failed" on an exception
    irc,       \* "ready", "joining" (another channel again), "down"
    sessions,  \* the open sessions by descriptor, None for the others
    offers,    \* _offers: ticks left by nickname, 0 when there is none
    connects,  \* _connects, likewise
    invites,   \* _bootstrap by nickname, None when there is none
    failures,  \* _ip_failures: ticks each counts for, by peer
    owner,     \* the user store: its owner or None
    flight,    \* a duck is in the channel
    due        \* ticks to the next spontaneous launch, 0 when disabled

vars == <<up, irc, sessions, offers, connects, invites, failures, owner, flight, due>>

None == [name |-> Nobody]
Nowhere == "telnet"     \* the transport of a session nobody asked for on IRC
Descriptors == 1..MaxSessions
Open == {d \in Descriptors : sessions[d] # None}
PendingDCC == Cardinality({n \in Nicks : offers[n] > 0}) + Cardinality({n \in Nicks : connects[n] > 0})

Invited == {n \in Nicks : invites[n] # None}
Suspects == {p \in Peers : failures[p] # <<>>}
Quiet == Cardinality(Open) + PendingDCC + Cardinality(Invited) + Cardinality(Suspects) < MaxBusy

Session(peer, via) ==
    [peer |-> peer, via |-> via, stage |-> "handle", name |-> Nobody, chosen |-> Unchosen,
     invite |-> None, left |-> AuthTimeout, who |-> Nobody, failures |-> 0, hushed |-> FALSE,
     reset |-> "none"]    \* the last reset since it logged in (history)

Nothing == [n \in Nicks |-> 0]
Delay == IF Spontaneous = {} THEN {0} ELSE Spontaneous

Init ==
    /\ up = "running" /\ irc = "down"
    /\ sessions = [d \in Descriptors |-> None]
    /\ offers = Nothing /\ connects = Nothing
    /\ invites = [n \in Nicks |-> None]
    /\ failures = [p \in Peers |-> <<>>]
    /\ owner = None /\ flight = FALSE
    /\ due \in Delay

-----------------------------------------------------------------------------
(* The end of the process, and the next one.  Invitations and failures     *)
(* are in memory, the owner is in a file.                                  *)

Close(state) ==
    /\ up' = state
    /\ sessions' = [d \in Descriptors |-> None]
    /\ offers' = Nothing /\ connects' = Nothing /\ due' = 0
    /\ invites' = [n \in Nicks |-> None] /\ failures' = [p \in Peers |-> <<>>]

Stop == up = "running" /\ Close("stopped") /\ UNCHANGED <<irc, owner, flight>>

Start ==
    /\ up # "running" /\ up' = "running" /\ irc' = "down" /\ due' \in Delay
    /\ UNCHANGED <<sessions, offers, connects, invites, failures, owner, flight>>

Network ==
    /\ up = "running" /\ irc' \in {"ready", "joining", "down"} \ {irc}
    /\ UNCHANGED <<up, sessions, offers, connects, invites, failures, owner, flight, due>>

FlightEnds ==
    /\ flight /\ flight' = FALSE
    /\ UNCHANGED <<up, irc, sessions, offers, connects, invites, failures, owner, due>>

-----------------------------------------------------------------------------
(* Launches. *)

Refusal == irc = "down" \/ flight
Raises == ~Refusal /\ irc = "joining"

(* A slot of the persistence queue decides the rest.                       *)
Launched == IF Refusal THEN {flight} ELSE BOOLEAN

-----------------------------------------------------------------------------
(* One tick. *)

Down(left) == IF left = 0 THEN 0 ELSE left - 1

Aged(i) == IF i = None THEN None ELSE [i EXCEPT !.left = @ - 1]

(* Mutant: only a session that has said nothing runs out of time.           *)
ExpireSilent(s) ==
    IF s = None \/ (s.stage = "handle" /\ s.left <= 1) THEN None
    ELSE [s EXCEPT !.left = Down(@), !.invite = Aged(@)]

ExpireSession(s) ==
    IF s = None \/ (s.who = Nobody /\ s.left <= 1) THEN None
    ELSE [s EXCEPT !.left = Down(@), !.invite = Aged(@)]

ExpireInvite(i) == IF i = None \/ i.left <= 1 THEN None ELSE Aged(i)

(* A failure is remembered for the whole window and one tick of its edge.  *)
(* They are in the order they came in: those forgotten are the first.      *)
ExpireFailures(s) ==
    LET gone == Cardinality({i \in DOMAIN s : s[i] = 0})
    IN  [i \in 1..(Len(s) - gone) |-> s[i + gone] - 1]

(* Only the nickname of an expired handshake is told.                      *)
Notices == \E n \in Nicks : offers[n] = 1 \/ connects[n] = 1

Tick ==
    /\ up = "running"
    /\ IF (Notices /\ irc # "ready") \/ (due = 1 /\ Raises)
       THEN Close("failed") /\ UNCHANGED <<irc, owner, flight>>
       ELSE /\ sessions' = [d \in Descriptors |-> ExpireSession(sessions[d])]
            /\ offers' = [n \in Nicks |-> Down(offers[n])]
            /\ connects' = [n \in Nicks |-> Down(connects[n])]
            /\ invites' = [n \in Nicks |-> ExpireInvite(invites[n])]
            /\ failures' = [p \in Peers |-> ExpireFailures(failures[p])]
            /\ IF due = 1 THEN due' \in Delay /\ flight' \in Launched
               ELSE due' = Down(due) /\ UNCHANGED flight
            /\ UNCHANGED <<up, irc, owner>>

-----------------------------------------------------------------------------
(* Requests on IRC, in private.  They arrive while the session is READY.   *)

Heard == up = "running" /\ irc = "ready"

Invitation(n, resets) == [name |-> n, resets |-> resets, left |-> BootstrapTimeout]

(* Who may have the password of the owner replaced: the owner by its       *)
(* identity, or an identity of the configuration.                          *)
MayReset(n) == owner.name = n \/ n \in Allowed

Hello ==
    /\ Heard /\ Quiet
    /\ \E n \in Allowed :
          owner = None /\ invites' = [invites EXCEPT ![n] = Invitation(n, Nobody)]
    /\ UNCHANGED <<up, irc, sessions, offers, connects, failures, owner, flight, due>>

Reset ==
    /\ Heard /\ Quiet
    /\ \E n \in Nicks :
          owner # None /\ MayReset(n)
          /\ invites' = [invites EXCEPT ![n] = Invitation(n, owner.name)]
    /\ UNCHANGED <<up, irc, sessions, offers, connects, failures, owner, flight, due>>

(* CTCP CHAT, or a passive request: a listener of its own for the nickname.*)
OfferDCC ==
    /\ Heard /\ Quiet /\ PendingDCC < MaxPendingDCC
    /\ \E n \in Nicks : offers[n] = 0 /\ offers' = [offers EXCEPT ![n] = DCCTimeout]
    /\ UNCHANGED <<up, irc, sessions, connects, invites, failures, owner, flight, due>>

(* A session is not opened when all descriptors are taken.                 *)
Admit(session) ==
    LET free == Descriptors \ Open
    IN  sessions' = IF free = {} THEN sessions ELSE [sessions EXCEPT ![Min(free)] = session]

(* Mutant: a connection that goes on does not count with the offers.        *)
ConnectUncounted ==
    /\ Heard /\ Quiet
    /\ \E n \in Nicks : connects[n] = 0 /\ connects' = [connects EXCEPT ![n] = DCCTimeout]
    /\ UNCHANGED <<up, irc, sessions, offers, invites, failures, owner, flight, due>>

(* An active request: the connection succeeds at once, fails or goes on.   *)
ConnectDCC ==
    /\ Heard /\ Quiet /\ PendingDCC < MaxPendingDCC
    /\ \E n \in Nicks, peer \in Peers \ Loopback :
          /\ connects[n] = 0
          /\ \/ Admit(Session(peer, n)) /\ UNCHANGED connects
             \/ connects' = [connects EXCEPT ![n] = DCCTimeout] /\ UNCHANGED sessions
    /\ UNCHANGED <<up, irc, offers, invites, failures, owner, flight, due>>

(* ducklaunch of the owner.                                                *)
LaunchFromIRC ==
    /\ Heard /\ owner # None /\ ~Refusal /\ flight' = TRUE
    /\ UNCHANGED <<up, irc, sessions, offers, connects, invites, failures, owner, due>>

-----------------------------------------------------------------------------
(* Connections. *)

AcceptPrimary ==
    /\ up = "running" /\ Quiet /\ Open # Descriptors
    /\ \E peer \in Peers : Admit(Session(peer, Nowhere))
    /\ UNCHANGED <<up, irc, offers, connects, invites, failures, owner, flight, due>>

AcceptOffer ==
    /\ up = "running"
    /\ \E n \in Nicks, peer \in Peers :
          /\ offers[n] > 0 /\ offers' = [offers EXCEPT ![n] = 0]
          /\ Admit(Session(peer, n)) \/ UNCHANGED sessions    \* or the accept fails
    /\ UNCHANGED <<up, irc, connects, invites, failures, owner, flight, due>>

(* A failed connection is told to its nickname.                            *)
FinishConnect ==
    /\ up = "running"
    /\ \E n \in Nicks, peer \in Peers \ Loopback, succeeds \in BOOLEAN :
          /\ connects[n] > 0
          /\ IF ~succeeds /\ irc # "ready" THEN Close("failed")
             ELSE /\ connects' = [connects EXCEPT ![n] = 0]
                  /\ IF succeeds THEN Admit(Session(peer, n)) ELSE UNCHANGED sessions
                  /\ UNCHANGED <<up, offers, invites, failures, due>>
    /\ UNCHANGED <<irc, owner, flight>>

-----------------------------------------------------------------------------
(* Lines of a session. *)

With(d, s) == sessions' = [sessions EXCEPT ![d] = s]
Drop(d) == With(d, None)

Hush(s) == [s EXCEPT !.hushed = s.via = Nowhere]

Fail(d, s) ==
    LET counted == Append(failures[s.peer], FailureWindow)
        next == [s EXCEPT !.failures = @ + 1]
    IN  /\ Len(failures[s.peer]) < MaxRemembered /\ (s.peer \in Suspects \/ Quiet)
        /\ failures' = [failures EXCEPT ![s.peer] = counted]
        /\ IF next.failures >= MaxSessionFailures \/ Len(counted) >= MaxIPFailures THEN Drop(d)
           ELSE With(d, next)

(* The invitation that a session and the handle it gives can use.          *)
InviteFor(s, name) ==
    LET asked == IF s.via = Nowhere THEN name ELSE s.via
        resets == {n \in Invited : invites[n].resets = name}
        found == IF asked \in Invited THEN {invites[asked]}
                 ELSE IF s.via = Nowhere /\ Cardinality(resets) = 1
                 THEN {invites[n] : n \in resets} ELSE {}
    IN  {i \in found : /\ name = IF i.resets = Nobody THEN i.name ELSE i.resets
                       /\ s.via = Nowhere => s.peer \in Loopback}

GiveHandle(d, s) ==
    \E name \in Handles :
        LET usable == InviteFor(s, name)
            reset == {i \in usable : i.resets # Nobody}
            begins(stage, n, i) ==
                With(d, Hush([s EXCEPT !.stage = stage, !.name = n, !.invite = i]))
        IN  CASE owner = None /\ usable = {} -> Fail(d, s)
              [] owner = None /\ usable # {} ->
                    begins("new-password", name, CHOOSE i \in usable : TRUE) /\ UNCHANGED failures
              [] owner # None /\ reset # {} ->
                    begins("reset-password", owner.name, CHOOSE i \in reset : TRUE)
                    /\ UNCHANGED failures
              [] OTHER -> begins("password", name, s.invite) /\ UNCHANGED failures

Logged(s, name) ==
    [s EXCEPT !.who = name, !.stage = "authenticated", !.name = Nobody, !.chosen = Unchosen,
              !.invite = None, !.failures = 0, !.hushed = FALSE, !.left = 0, !.reset = "none"]

Forgiven(s) == failures' = [failures EXCEPT ![s.peer] = <<>>]

GivePassword(d, s) ==
    \E word \in Words \union {Short} :
        IF owner = [name |-> s.name, word |-> word]
        THEN With(d, Logged(s, s.name)) /\ Forgiven(s)
        ELSE Fail(d, [s EXCEPT !.name = Nobody, !.stage = "handle", !.hushed = FALSE])

Confirming(stage) ==
    CASE stage = "new-password" -> "confirm-password"
      [] stage = "reset-password" -> "confirm-reset-password"
      [] stage = "change-password" -> "confirm-changed-password"
Choosing(stage) == CHOOSE first \in {"new-password", "reset-password", "change-password"} :
                      Confirming(first) = stage

(* A password that is too short is asked for again.                        *)
ChoosePassword(d, s) ==
    /\ \E word \in Words : With(d, [s EXCEPT !.chosen = word, !.stage = Confirming(s.stage)])
    /\ UNCHANGED <<owner, invites, failures>>

Mistype(d, s) ==
    /\ With(d, [s EXCEPT !.chosen = Unchosen, !.stage = Choosing(s.stage)])
    /\ UNCHANGED <<owner, invites, failures>>

(* The store is replaced atomically; when the directory cannot be made     *)
(* durable afterwards the exception leaves the session where it was, with  *)
(* the new password in force.                                              *)
WriteUnsure(s, name) ==
    /\ owner' = [name |-> name, word |-> s.chosen]
    /\ UNCHANGED <<invites, failures>>

(* Whoever is logged in as the owner, and what has become of its password. *)
Told(reset, name) ==
    [e \in Descriptors |-> IF sessions[e] = None \/ sessions[e].who # name THEN sessions[e]
                           ELSE [sessions[e] EXCEPT !.reset = reset]]

Used(s) == invites' = [invites EXCEPT ![s.invite.name] = None]

(* Mutant: the store does not look whether another session was faster.      *)
CreateUnchecked(d, s) ==
    /\ owner' = [name |-> s.name, word |-> s.chosen]
    /\ Used(s) /\ With(d, Logged(s, s.name)) /\ Forgiven(s)

CreateOwner(d, s) ==
    \/ /\ owner # None /\ Drop(d) /\ UNCHANGED <<owner, invites, failures>>
    \/ /\ owner = None
       /\ \/ /\ owner' = [name |-> s.name, word |-> s.chosen]
             /\ Used(s) /\ With(d, Logged(s, s.name)) /\ Forgiven(s)
          \/ WriteUnsure(s, s.name) /\ UNCHANGED sessions

(* Mutant: whoever is logged in with the old password stays.                *)
ResetLeavesOthers(d, s) ==
    /\ owner' = [owner EXCEPT !.word = s.chosen]
    /\ Used(s) /\ Forgiven(s)
    /\ sessions' = [Told("done", s.name) EXCEPT ![d] = Logged(s, s.name)]

ResetPassword(d, s) ==
    \/ /\ owner' = [owner EXCEPT !.word = s.chosen]
       /\ Used(s) /\ Forgiven(s)
       /\ sessions' = [e \in Descriptors |->
                          IF e = d THEN Logged(s, s.name)
                          ELSE IF sessions[e] # None /\ sessions[e].who = s.name THEN None
                          ELSE sessions[e]]
    \/ WriteUnsure(s, s.name) /\ sessions' = Told("unsure", s.name)   \* the others stay

ChangePassword(d, s) ==
    \/ /\ owner' = [owner EXCEPT !.word = s.chosen]
       /\ With(d, [s EXCEPT !.chosen = Unchosen, !.stage = "authenticated", !.hushed = FALSE])
       /\ UNCHANGED <<invites, failures>>
    \/ WriteUnsure(s, s.who) /\ UNCHANGED sessions

AskToChange(d, s) ==
    With(d, Hush([s EXCEPT !.stage = "change-password", !.chosen = Unchosen]))

(* .duck and .goldenduck; an exception is answered and forgotten.          *)
LaunchFromSession == ~Raises /\ flight' \in Launched

HandleLine(d, s) ==
    \/ s.stage = "handle" /\ GiveHandle(d, s) /\ UNCHANGED <<owner, invites, flight>>
    \/ s.stage = "handle" /\ Fail(d, s) /\ UNCHANGED <<owner, invites, flight>>  \* no handle at all
    \/ s.stage = "password" /\ GivePassword(d, s) /\ UNCHANGED <<owner, invites, flight>>
    \/ /\ s.stage \in {"new-password", "reset-password", "change-password"}
       /\ ChoosePassword(d, s) /\ UNCHANGED flight
    \/ s.chosen # Unchosen /\ Mistype(d, s) /\ UNCHANGED flight
    \/ s.stage = "confirm-password" /\ CreateOwner(d, s) /\ UNCHANGED flight
    \/ s.stage = "confirm-reset-password" /\ ResetPassword(d, s) /\ UNCHANGED flight
    \/ s.stage = "confirm-changed-password" /\ ChangePassword(d, s) /\ UNCHANGED flight
    \/ s.stage = "authenticated" /\ AskToChange(d, s) /\ UNCHANGED <<owner, invites, failures, flight>>
    \/ /\ s.stage = "authenticated" /\ LaunchFromSession
       /\ UNCHANGED <<sessions, owner, invites, failures>>

ReadLine ==
    /\ up = "running"
    /\ \E d \in Open : HandleLine(d, sessions[d])
    /\ UNCHANGED <<up, irc, offers, connects, due>>

(* The peer leaves, sends what no line may be, or does not read; .quit.    *)
EndSession ==
    /\ up = "running" /\ \E d \in Open : Drop(d)
    /\ UNCHANGED <<up, irc, offers, connects, invites, failures, owner, flight, due>>

Next ==
    \/ Stop \/ Start \/ Network \/ FlightEnds \/ Tick
    \/ Hello \/ Reset \/ OfferDCC \/ ConnectDCC \/ LaunchFromIRC
    \/ AcceptPrimary \/ AcceptOffer \/ FinishConnect \/ ReadLine \/ EndSession

(* The loop of the process polls on while it is up.                        *)
Spec == Init /\ [][Next]_vars /\ WF_vars(Tick)

-----------------------------------------------------------------------------
(* Properties. *)

Secret == {"password", "new-password", "confirm-password", "reset-password",
           "confirm-reset-password", "change-password", "confirm-changed-password"}
Confirmations == {"confirm-password", "confirm-reset-password", "confirm-changed-password"}
LoggedIn == {"authenticated", "change-password", "confirm-changed-password"}

TypeOK ==
    /\ up \in {"running", "stopped", "failed"} /\ irc \in {"ready", "joining", "down"}
    /\ offers \in [Nicks -> 0..DCCTimeout] /\ connects \in [Nicks -> 0..DCCTimeout]
    /\ PendingDCC <= MaxPendingDCC
    /\ owner = None \/ owner \in [name : Nicks, word : Words]
    /\ \A n \in Nicks : invites[n] # None =>
          invites[n].name = n /\ invites[n].left \in 1..BootstrapTimeout
    /\ \A p \in Peers : Len(failures[p]) <= MaxRemembered
    /\ flight \in BOOLEAN

(* A session is what its stage says: somebody is logged in, a password is   *)
(* waiting for its confirmation, the echo of the terminal is off; one that  *)
(* is not logged in has time left and failures to spare; an invitation to   *)
(* replace a password names the owner there is; and nobody stays logged in  *)
(* through a reset that completes (one whose write only seems to fail       *)
(* leaves the others where they are).                                       *)
SessionsAreSound ==
    \A d \in Open :
        LET s == sessions[d]
        IN  /\ s.who # Nobody <=> s.stage \in LoggedIn
            /\ s.who # Nobody => s.reset # "done" /\ owner # None /\ s.who = owner.name
            /\ s.who = Nobody => s.left \in 1..AuthTimeout /\ s.failures < MaxSessionFailures
            /\ s.chosen # Unchosen <=> s.stage \in Confirmations
            /\ s.hushed <=> s.via = Nowhere /\ s.stage \in Secret
            /\ s.invite # None /\ s.invite.resets # Nobody => s.invite.resets = owner.name

(* The owner is somebody the configuration names, by an invitation to be    *)
(* the first, and stays the owner for good; its password is what a session  *)
(* of its own chose, or one with an invitation to replace it that was good  *)
(* when the session, which has a login time of its own, took it up.         *)
OwnerIsKept ==
    [][owner' # owner =>
         /\ owner # None => owner'.name = owner.name
         /\ owner = None => owner'.name \in Allowed
         /\ \E d \in Open :
               LET s == sessions[d]
               IN  /\ s.chosen = owner'.word
                   /\ \/ owner # None /\ s.who = owner.name
                      \/ /\ s.invite # None /\ s.invite.left > -AuthTimeout
                         /\ s.invite.resets = owner.name]_vars

(* Nothing half open stays: a login and a handshake end, whatever their     *)
(* peers do.                                                                *)
HandshakesEnd ==
    /\ \A d \in Descriptors : []<>(sessions[d] = None \/ sessions[d].who # Nobody)
    /\ \A n \in Nicks : []<>(offers[n] = 0) /\ []<>(connects[n] = 0)

=============================================================================
