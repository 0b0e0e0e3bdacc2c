--------------------------- MODULE PartylineProofs ---------------------------
(***************************************************************************)
(* Proofs about Partyline, for any number of sessions, nicknames, peers    *)
(* and passwords and for every timeout.                                    *)
(*                                                                         *)
(* The argument: a session is sound by what its stage says of it and of    *)
(* the owner (Sound), an invitation by what it may replace (InviteShape).  *)
(* Most steps leave sessions as they are, end some or admit a new one; a   *)
(* tick takes the same from a session and from its invitation; a line      *)
(* moves one session to a stage it is sound for.  The password can change  *)
(* in three stages, and each is sound only with the right to change it.    *)
(* Handshakes and remembered failures are counted beside that (CountShape).*)
(***************************************************************************)
EXTENDS Partyline, FiniteSetTheorems, SequenceTheorems, TLAPS

Invitations ==
    [name : Nicks, resets : Nicks \union {Nobody}, left : Int]

Stages == Secret \union LoggedIn \union {"handle"}

SessionRecords ==
    [peer : Peers, via : Nicks \union {Nowhere}, stage : Stages, name : Handles \union {Nobody},
     chosen : Words \union {Unchosen}, invite : Invitations \union {None}, left : Nat,
     who : Handles \union {Nobody}, failures : Nat, hushed : BOOLEAN, reset : {"none", "unsure", "done"}]

Creating == {"new-password", "confirm-password"}
Replacing == {"reset-password", "confirm-reset-password"}

(* What a session that is not logged in has left is bounded, and so is the  *)
(* time by which its invitation can be out of date.                         *)
SoundTimes(s) ==
    s.who = Nobody =>
        /\ s.left \in 1..AuthTimeout /\ s.failures < MaxSessionFailures
        /\ s.invite # None => s.invite.left - s.left >= 1 - AuthTimeout

(* What the stage of a session says. *)
SoundStage(s) ==
    /\ s.who # Nobody <=> s.stage \in LoggedIn
    /\ s.chosen # Unchosen <=> s.stage \in Confirmations
    /\ s.hushed <=> s.via = Nowhere /\ s.stage \in Secret
    /\ s.invite # None <=> s.stage \in Creating \union Replacing

(* What a session says of the owner. *)
SoundRights(s, o) ==
    /\ s.who # Nobody => s.reset # "done" /\ o # None /\ s.who = o.name
    /\ s.stage \in Creating => s.invite.resets = Nobody /\ s.name \in Allowed
    /\ s.stage \in Replacing => o # None /\ s.invite.resets = o.name /\ s.name = o.name

Sound(s, o) ==
    s \in SessionRecords /\ SoundTimes(s) /\ SoundStage(s) /\ SoundRights(s, o)

SessionShape ==
    /\ sessions \in [Descriptors -> SessionRecords \union {None}]
    /\ \A d \in Descriptors : sessions[d] # None => Sound(sessions[d], owner)

OwnerShape == owner = None \/ owner \in [name : Allowed, word : Words]

SoundInvite(i, n, o) ==
    /\ i \in Invitations /\ i.name = n /\ i.left \in 1..BootstrapTimeout
    /\ i.resets = Nobody => n \in Allowed
    /\ i.resets # Nobody => o # None /\ i.resets = o.name

InviteShape ==
    /\ invites \in [Nicks -> Invitations \union {None}]
    /\ \A n \in Nicks : invites[n] # None => SoundInvite(invites[n], n, owner)

IInv == SessionShape /\ OwnerShape /\ InviteShape

-----------------------------------------------------------------------------
(* Constants, and records that are not None. *)

LEMMA ConstantTypes ==
    /\ Nobody \notin Handles /\ Nicks \subseteq Handles /\ Allowed \subseteq Nicks
    /\ Unchosen \notin Words
    /\ AuthTimeout \in Nat \ {0} /\ BootstrapTimeout \in Nat \ {0}
    /\ MaxSessionFailures \in Nat \ {0}
BY PartylineConstants

LEMMA InvitationIsOne == \A i \in Invitations : i # None
BY ConstantTypes DEF Invitations, None

LEMMA SessionIsOne == \A s \in SessionRecords : s # None
<1> SUFFICES ASSUME NEW s \in SessionRecords, s = None
             PROVE  FALSE
  OBVIOUS
<1>1. "peer" \in DOMAIN s
  BY DEF SessionRecords
<1>2. DOMAIN s = {"name"}
  BY DEF None
<1> QED
  BY <1>1, <1>2

LEMMA OwnerIsOne == \A o \in [name : Allowed, word : Words] : o # None /\ o.name # Nobody
BY ConstantTypes DEF None

-----------------------------------------------------------------------------
(* Sessions. *)

(* A new connection is a sound session. *)
LEMMA NewSession ==
    ASSUME NEW peer \in Peers, NEW via \in Nicks \union {Nowhere}, NEW o
    PROVE  Sound(Session(peer, via), o)
<1> DEFINE s == Session(peer, via)
<1>1. s \in SessionRecords
  BY ConstantTypes DEF Session, SessionRecords, Stages
<1>2. SoundTimes(s)
  BY ConstantTypes DEF Session, SoundTimes
<1>3. SoundStage(s) /\ SoundRights(s, o)
  BY DEF Session, SoundStage, SoundRights, LoggedIn, Confirmations, Secret, Creating, Replacing
<1> QED
  BY <1>1, <1>2, <1>3 DEF Sound

LEMMA AgedInvitation ==
    /\ Aged(None) = None
    /\ \A i \in Invitations : /\ Aged(i) \in Invitations /\ Aged(i) # None /\ i.left \in Int
                              /\ Aged(i).left = i.left - 1 /\ Aged(i).resets = i.resets
                              /\ Aged(i).name = i.name
BY InvitationIsOne DEF Aged, Invitations

(* A tick leaves a session sound or ends it. *)
LEMMA ExpiredSession ==
    ASSUME NEW s \in SessionRecords, NEW o, Sound(s, o), ExpireSession(s) # None
    PROVE  ExpireSession(s) \in SessionRecords /\ Sound(ExpireSession(s), o)
<1> DEFINE t == ExpireSession(s)
           i == Aged(s.invite)
<1>1. t = [s EXCEPT !.left = Down(@), !.invite = i]
      /\ (s.who = Nobody => s.left > 1)
  <2>1. ~(s = None \/ (s.who = Nobody /\ s.left <= 1))
    BY DEF ExpireSession
  <2>2. s.left \in Nat
    BY DEF SessionRecords
  <2> QED
    BY <2>1, <2>2 DEF ExpireSession
<1>2. /\ s.invite = None => i = None
      /\ s.invite # None => /\ i \in Invitations /\ i # None /\ s.invite.left \in Int
                            /\ i.left = s.invite.left - 1 /\ i.resets = s.invite.resets
  BY AgedInvitation DEF SessionRecords
<1>3. Down(s.left) \in Nat /\ (s.left > 0 => Down(s.left) = s.left - 1)
  BY DEF Down, SessionRecords
<1>4. t \in SessionRecords
  BY <1>1, <1>2, <1>3 DEF SessionRecords
<1>5. /\ t.who = s.who /\ t.stage = s.stage /\ t.chosen = s.chosen /\ t.hushed = s.hushed
      /\ t.via = s.via /\ t.reset = s.reset /\ t.name = s.name /\ t.failures = s.failures
      /\ t.left = Down(s.left) /\ t.invite = i
  BY <1>1 DEF SessionRecords
<1> HIDE DEF t, i
<1>6. SoundTimes(t)
  BY <1>1, <1>2, <1>3, <1>5, ConstantTypes DEF Sound, SoundTimes
<1>7. SoundStage(t) /\ SoundRights(t, o)
  BY <1>2, <1>5 DEF Sound, SoundStage, SoundRights, Creating, Replacing
<1> QED
  BY <1>4, <1>6, <1>7 DEF Sound, t

(* Steps that end a session, replace one by a sound one, or admit one.      *)
LEMMA DropSound ==
    ASSUME SessionShape, UNCHANGED owner, NEW d, Drop(d)
    PROVE  SessionShape'
BY DEF SessionShape, Drop, With

LEMMA WithSound ==
    ASSUME SessionShape, UNCHANGED owner, NEW d, NEW s \in SessionRecords, Sound(s, owner),
           With(d, s)
    PROVE  SessionShape'
BY DEF SessionShape, With

LEMMA AdmitSound ==
    ASSUME SessionShape, UNCHANGED owner,
           NEW peer \in Peers, NEW via \in Nicks \union {Nowhere}, Admit(Session(peer, via))
    PROVE  SessionShape'
<1>1. Session(peer, via) \in SessionRecords /\ Sound(Session(peer, via), owner)
  BY NewSession DEF Sound
<1> DEFINE s == Session(peer, via)
<1>2. sessions' = sessions \/ \E d : sessions' = [sessions EXCEPT ![d] = s]
  BY DEF Admit
<1> HIDE DEF s
<1>3. s \in SessionRecords /\ Sound(s, owner)
  BY <1>1 DEF s
<1> QED
  BY <1>2, <1>3 DEF SessionShape

LEMMA FailSound ==
    ASSUME SessionShape, UNCHANGED owner, NEW d, NEW s \in SessionRecords, Sound(s, owner),
           Fail(d, s)
    PROVE  SessionShape'
<1> DEFINE t == [s EXCEPT !.failures = @ + 1]
<1>1. t \in SessionRecords
  BY DEF SessionRecords
<1>2. t.failures < MaxSessionFailures => Sound(t, owner)
  BY <1>1 DEF Sound, SoundTimes, SoundStage, SoundRights, SessionRecords
<1>3. Drop(d) \/ (With(d, t) /\ ~(t.failures >= MaxSessionFailures))
  BY DEF Fail
<1>4. t.failures \in Nat
  BY <1>1 DEF SessionRecords
<1> QED
  BY <1>1, <1>2, <1>3, <1>4, DropSound, WithSound, ConstantTypes

-----------------------------------------------------------------------------
(* Lines. *)

(* The invitation a session can use is good, for what it is used for.       *)
LEMMA UsableInvitation ==
    ASSUME InviteShape, NEW s, NEW name, NEW i \in InviteFor(s, name)
    PROVE  /\ i \in Invitations /\ i.left >= 1
           /\ i.resets = Nobody => name \in Allowed
           /\ i.resets # Nobody => owner # None /\ i.resets = owner.name
<1>1. PICK n \in Invited : i = invites[n]
  BY DEF InviteFor
<1>2. SoundInvite(i, n, owner)
  BY <1>1 DEF InviteShape, Invited
<1>3. name = IF i.resets = Nobody THEN i.name ELSE i.resets
  BY DEF InviteFor
<1> QED
  BY <1>2, <1>3, ConstantTypes DEF SoundInvite

(* A session that takes up an invitation to choose a password. *)
LEMMA BeginsSound ==
    ASSUME NEW s \in SessionRecords, Sound(s, owner), s.stage = "handle",
           NEW i \in Invitations, i.left >= 1, NEW name \in Handles,
           NEW stage \in {"new-password", "reset-password"},
           stage = "new-password" => i.resets = Nobody /\ name \in Allowed,
           stage = "reset-password" => owner # None /\ i.resets = owner.name /\ name = owner.name
    PROVE  LET t == Hush([s EXCEPT !.stage = stage, !.name = name, !.invite = i])
           IN  t \in SessionRecords /\ Sound(t, owner)
<1> DEFINE t == Hush([s EXCEPT !.stage = stage, !.name = name, !.invite = i])
<1>1. t = [s EXCEPT !.stage = stage, !.name = name, !.invite = i, !.hushed = (s.via = Nowhere)]
  BY DEF Hush, SessionRecords
<1>2. t \in SessionRecords
  BY <1>1 DEF SessionRecords, Stages, Secret
<1>3. /\ t.stage = stage /\ t.name = name /\ t.invite = i /\ (t.hushed <=> s.via = Nowhere)
      /\ t.who = s.who /\ t.via = s.via /\ t.left = s.left /\ t.failures = s.failures
      /\ t.chosen = s.chosen
  BY <1>1 DEF SessionRecords
<1> HIDE DEF t
<1>4. s.who = Nobody /\ s.chosen = Unchosen /\ i # None /\ i.left \in Int /\ s.left \in Nat
  BY InvitationIsOne DEF Sound, SoundStage, LoggedIn, Confirmations, Invitations, SessionRecords
<1>5. SoundTimes(t)
  BY <1>3, <1>4, ConstantTypes DEF SoundTimes, Sound
<1>6. SoundStage(t) /\ SoundRights(t, owner)
  BY <1>3, <1>4
     DEF SoundStage, SoundRights, Creating, Replacing, LoggedIn, Confirmations, Secret
<1> QED
  BY <1>2, <1>5, <1>6 DEF Sound, t

LEMMA GiveHandleSound ==
    ASSUME IInv, UNCHANGED owner, NEW d \in Descriptors, NEW s \in SessionRecords,
           Sound(s, owner), s.stage = "handle", GiveHandle(d, s)
    PROVE  SessionShape'
<1> PICK name \in Handles :
       LET usable == InviteFor(s, name)
           reset == {i \in usable : i.resets # Nobody}
           begins(stage, n, i) ==
               With(d, Hush([s EXCEPT !.stage = stage, !.name = n, !.invite = i]))
       IN  CASE owner = None /\ usable = {} -> Fail(d, s)
             [] owner = None /\ usable # {} ->
                   begins("new-password", name, CHOOSE i \in usable : TRUE) /\ UNCHANGED failures
             [] owner # None /\ reset # {} ->
                   begins("reset-password", owner.name, CHOOSE i \in reset : TRUE)
                   /\ UNCHANGED failures
             [] OTHER -> begins("password", name, s.invite) /\ UNCHANGED failures
  BY DEF GiveHandle
<1> DEFINE usable == InviteFor(s, name)
           reset == {i \in usable : i.resets # Nobody}
           begun(stage, n, i) == Hush([s EXCEPT !.stage = stage, !.name = n, !.invite = i])
<1>1. CASE owner = None /\ usable = {}
  <2>1. Fail(d, s)
    BY <1>1
  <2> QED
    BY <2>1, FailSound DEF IInv
<1>2. CASE owner = None /\ usable # {}
  <2> DEFINE i == CHOOSE x \in usable : TRUE
  <2>1. With(d, begun("new-password", name, i))
    BY <1>2
  <2>2. i \in InviteFor(s, name)
    BY <1>2
  <2> HIDE DEF i
  <2>3. i \in Invitations /\ i.left >= 1 /\ i.resets = Nobody /\ name \in Allowed
    BY <1>2, <2>2, UsableInvitation DEF IInv
  <2>4. begun("new-password", name, i) \in SessionRecords
        /\ Sound(begun("new-password", name, i), owner)
    BY <2>3, BeginsSound
  <2> QED
    BY <2>1, <2>4, WithSound DEF IInv
<1>3. CASE owner # None /\ reset # {}
  <2> DEFINE i == CHOOSE x \in reset : TRUE
  <2>1. With(d, begun("reset-password", owner.name, i))
    BY <1>3
  <2>2. i \in InviteFor(s, name) /\ i.resets # Nobody
    BY <1>3
  <2> HIDE DEF i
  <2>3. i \in Invitations /\ i.left >= 1 /\ i.resets = owner.name
    BY <2>2, UsableInvitation DEF IInv
  <2>4. owner.name \in Handles
    BY <1>3, ConstantTypes DEF IInv, OwnerShape
  <2>5. begun("reset-password", owner.name, i) \in SessionRecords
        /\ Sound(begun("reset-password", owner.name, i), owner)
    BY <1>3, <2>3, <2>4, BeginsSound
  <2> QED
    BY <2>1, <2>5, WithSound DEF IInv
<1>4. CASE owner # None /\ reset = {}
  <2> DEFINE t == begun("password", name, s.invite)
  <2>1. With(d, t)
    BY <1>4
  <2>2. t = [s EXCEPT !.stage = "password", !.name = name, !.invite = s.invite,
                      !.hushed = (s.via = Nowhere)]
    BY DEF Hush, SessionRecords
  <2>3. t \in SessionRecords
    BY <2>2 DEF SessionRecords, Stages, Secret
  <2>4. /\ t.stage = "password" /\ t.name = name /\ t.invite = s.invite
        /\ (t.hushed <=> s.via = Nowhere) /\ t.who = s.who /\ t.via = s.via /\ t.left = s.left
        /\ t.failures = s.failures /\ t.chosen = s.chosen
    BY <2>2 DEF SessionRecords
  <2> HIDE DEF t
  <2>5. SoundTimes(t) /\ SoundStage(t) /\ SoundRights(t, owner)
    BY <2>4 DEF Sound, SoundTimes, SoundStage, SoundRights, Creating, Replacing, LoggedIn,
                Confirmations, Secret
  <2> QED
    BY <2>1, <2>3, <2>5, WithSound DEF IInv, Sound
<1> QED
  BY <1>1, <1>2, <1>3, <1>4

(* Whoever is logged in is the owner, with the password there is now.       *)
LEMMA LoggedSound ==
    ASSUME NEW s \in SessionRecords, NEW o, NEW name \in Handles, o # None, name = o.name
    PROVE  Logged(s, name) \in SessionRecords /\ Sound(Logged(s, name), o)
<1> DEFINE t == Logged(s, name)
<1>1. t \in SessionRecords
  BY DEF Logged, SessionRecords, Stages, LoggedIn
<1>2. /\ t.who = name /\ t.stage = "authenticated" /\ t.chosen = Unchosen /\ t.invite = None
      /\ t.hushed = FALSE /\ t.reset = "none"
  BY DEF Logged, SessionRecords
<1> HIDE DEF t
<1>3. name # Nobody
  BY ConstantTypes
<1>4. SoundTimes(t) /\ SoundStage(t) /\ SoundRights(t, o)
  BY <1>2, <1>3 DEF SoundTimes, SoundStage, SoundRights, LoggedIn, Confirmations, Secret,
                    Creating, Replacing
<1> QED
  BY <1>1, <1>4 DEF Sound, t

LEMMA GivePasswordSound ==
    ASSUME IInv, UNCHANGED owner, NEW d \in Descriptors, NEW s \in SessionRecords,
           Sound(s, owner), s.stage = "password", GivePassword(d, s)
    PROVE  SessionShape'
<1> DEFINE t == [s EXCEPT !.name = Nobody, !.stage = "handle", !.hushed = FALSE]
<1>1. CASE With(d, Logged(s, s.name)) /\ \E word \in Words \union {Short} :
                                            owner = [name |-> s.name, word |-> word]
  <2>1. owner \in [name : Allowed, word : Words]
    <3>1. \A word : [name |-> s.name, word |-> word] # None
      <4> SUFFICES ASSUME NEW word, [name |-> s.name, word |-> word] = None
                   PROVE  FALSE
        OBVIOUS
      <4>1. "word" \in DOMAIN [name |-> s.name, word |-> word] /\ DOMAIN None = {"name"}
        BY DEF None
      <4> QED
        BY <4>1
    <3> QED
      BY <1>1, <3>1 DEF IInv, OwnerShape
  <2>2. owner # None /\ owner.name = s.name /\ s.name \in Handles
    BY <1>1, <2>1, OwnerIsOne, ConstantTypes
  <2> QED
    BY <1>1, <2>2, LoggedSound, WithSound DEF IInv
<1>2. CASE Fail(d, t)
  <2>1. t \in SessionRecords
    BY DEF SessionRecords, Stages
  <2>2. /\ t.stage = "handle" /\ t.name = Nobody /\ t.invite = s.invite /\ ~t.hushed
        /\ t.who = s.who /\ t.left = s.left /\ t.failures = s.failures /\ t.chosen = s.chosen
    BY DEF SessionRecords
  <2> HIDE DEF t
  <2>3. SoundTimes(t) /\ SoundStage(t) /\ SoundRights(t, owner)
    BY <2>2 DEF Sound, SoundTimes, SoundStage, SoundRights, Creating, Replacing, LoggedIn,
                Confirmations, Secret
  <2> QED
    BY <1>2, <2>1, <2>3, FailSound DEF IInv, Sound
<1> QED
  BY <1>1, <1>2 DEF GivePassword

(* A password is chosen, mistyped, or asked for: the session moves between  *)
(* the stages of one and the same right.                                    *)
LEMMA ChoosingSound ==
    ASSUME NEW s \in SessionRecords, Sound(s, owner), NEW t \in SessionRecords,
           <<t.name, t.invite, t.who, t.left, t.failures, t.via, t.reset>>
             = <<s.name, s.invite, s.who, s.left, s.failures, s.via, s.reset>>,
           t.hushed <=> t.via = Nowhere,
           \/ t.stage \in Creating /\ s.stage \in Creating
           \/ t.stage \in Replacing /\ s.stage \in Replacing
           \/ t.stage \in {"change-password", "confirm-changed-password"} /\ s.stage \in LoggedIn,
           t.chosen # Unchosen <=> t.stage \in Confirmations
    PROVE  Sound(t, owner)
BY DEF Sound, SoundTimes, SoundStage, SoundRights, Creating, Replacing, LoggedIn, Confirmations,
       Secret

LEMMA ChangeStages ==
    /\ Confirming("new-password") = "confirm-password"
    /\ Confirming("reset-password") = "confirm-reset-password"
    /\ Confirming("change-password") = "confirm-changed-password"
    /\ Choosing("confirm-password") = "new-password"
    /\ Choosing("confirm-reset-password") = "reset-password"
    /\ Choosing("confirm-changed-password") = "change-password"
<1>1. /\ Confirming("new-password") = "confirm-password"
      /\ Confirming("reset-password") = "confirm-reset-password"
      /\ Confirming("change-password") = "confirm-changed-password"
  BY DEF Confirming
<1> QED
  BY <1>1 DEF Choosing

LEMMA ChoosePasswordSound ==
    ASSUME IInv, UNCHANGED owner, NEW d \in Descriptors, NEW s \in SessionRecords,
           Sound(s, owner), s.stage \in {"new-password", "reset-password", "change-password"},
           ChoosePassword(d, s)
    PROVE  SessionShape'
<1> PICK word \in Words : With(d, [s EXCEPT !.chosen = word, !.stage = Confirming(s.stage)])
  BY DEF ChoosePassword
<1> DEFINE t == [s EXCEPT !.chosen = word, !.stage = Confirming(s.stage)]
<1>1. Confirming(s.stage) \in Confirmations
  BY ChangeStages DEF Confirmations
<1>2. t \in SessionRecords
  BY <1>1 DEF SessionRecords, Stages, Secret, Confirmations, LoggedIn
<1>3. /\ t.stage = Confirming(s.stage) /\ t.chosen = word /\ t.hushed = s.hushed
      /\ t.name = s.name /\ t.invite = s.invite /\ t.who = s.who /\ t.left = s.left
      /\ t.failures = s.failures /\ t.via = s.via /\ t.reset = s.reset
  BY DEF SessionRecords
<1>4. s.hushed <=> s.via = Nowhere
  BY DEF Sound, SoundStage, Secret
<1>5. word # Unchosen
  BY ConstantTypes
<1> HIDE DEF t
<1>6. Sound(t, owner)
  BY <1>1, <1>2, <1>3, <1>4, <1>5, ChoosingSound, ChangeStages
     DEF Creating, Replacing, LoggedIn
<1> QED
  BY <1>2, <1>6, WithSound DEF IInv, t

LEMMA MistypeSound ==
    ASSUME IInv, UNCHANGED owner, NEW d \in Descriptors, NEW s \in SessionRecords,
           Sound(s, owner), s.chosen # Unchosen, Mistype(d, s)
    PROVE  SessionShape'
<1> DEFINE t == [s EXCEPT !.chosen = Unchosen, !.stage = Choosing(s.stage)]
<1>1. s.stage \in Confirmations
  BY DEF Sound, SoundStage
<1>2. Choosing(s.stage) \in {"new-password", "reset-password", "change-password"}
  BY <1>1, ChangeStages DEF Confirmations
<1>3. t \in SessionRecords
  BY <1>2 DEF SessionRecords, Stages, Secret, LoggedIn
<1>4. /\ t.stage = Choosing(s.stage) /\ t.chosen = Unchosen /\ t.hushed = s.hushed
      /\ t.name = s.name /\ t.invite = s.invite /\ t.who = s.who /\ t.left = s.left
      /\ t.failures = s.failures /\ t.via = s.via /\ t.reset = s.reset
  BY DEF SessionRecords
<1>5. s.hushed <=> s.via = Nowhere
  BY <1>1 DEF Sound, SoundStage, Secret, Confirmations
<1> HIDE DEF t
<1>6. Sound(t, owner)
  BY <1>1, <1>2, <1>3, <1>4, <1>5, ChoosingSound, ChangeStages
     DEF Creating, Replacing, LoggedIn, Confirmations
<1> QED
  BY <1>3, <1>6, WithSound DEF IInv, t, Mistype

LEMMA AskToChangeSound ==
    ASSUME IInv, UNCHANGED owner, NEW d \in Descriptors, NEW s \in SessionRecords,
           Sound(s, owner), s.stage = "authenticated", AskToChange(d, s)
    PROVE  SessionShape'
<1> DEFINE t == Hush([s EXCEPT !.stage = "change-password", !.chosen = Unchosen])
<1>1. t = [s EXCEPT !.stage = "change-password", !.chosen = Unchosen,
                    !.hushed = (s.via = Nowhere)]
  BY DEF Hush, SessionRecords
<1>2. t \in SessionRecords
  BY <1>1 DEF SessionRecords, Stages, LoggedIn
<1>3. /\ t.stage = "change-password" /\ t.chosen = Unchosen /\ (t.hushed <=> s.via = Nowhere)
      /\ t.name = s.name /\ t.invite = s.invite /\ t.who = s.who /\ t.left = s.left
      /\ t.failures = s.failures /\ t.via = s.via /\ t.reset = s.reset
  BY <1>1 DEF SessionRecords
<1> HIDE DEF t
<1>4. Sound(t, owner)
  BY <1>2, <1>3, ChoosingSound DEF LoggedIn, Confirmations
<1> QED
  BY <1>2, <1>4, WithSound DEF IInv, t, AskToChange

-----------------------------------------------------------------------------
(* Changes of the store.  Nothing that is sound minds an owner that comes,  *)
(* or another password of the same owner.                                   *)

LEMMA SoundKept ==
    ASSUME NEW s, NEW o, NEW p, Sound(s, o), o # None => p # None /\ p.name = o.name
    PROVE  Sound(s, p)
BY DEF Sound, SoundRights

LEMMA OwnerChanges ==
    ASSUME IInv, owner' \in [name : Allowed, word : Words],
           owner # None => owner'.name = owner.name,
           sessions' \in [Descriptors -> SessionRecords \union {None}],
           \A d \in Descriptors : sessions'[d] \in {sessions[d], None}
                                  \/ Sound(sessions'[d], owner'),
           invites' \in [Nicks -> Invitations \union {None}],
           \A n \in Nicks : invites'[n] \in {invites[n], None}
    PROVE  IInv'
<1>1. owner' # None
  BY OwnerIsOne
<1>2. \A d \in Descriptors : sessions'[d] # None => Sound(sessions'[d], owner')
  BY <1>1, SoundKept DEF IInv, SessionShape
<1>3. \A n \in Nicks : invites'[n] # None => SoundInvite(invites'[n], n, owner')
  BY <1>1 DEF IInv, InviteShape, SoundInvite
<1> QED
  BY <1>2, <1>3 DEF IInv, SessionShape, OwnerShape, InviteShape

LEMMA OwnerStays ==
    ASSUME IInv, UNCHANGED owner, SessionShape',
           invites' \in [Nicks -> Invitations \union {None}],
           \A n \in Nicks : invites'[n] \in {invites[n], None}
    PROVE  IInv'
BY DEF IInv, OwnerShape, InviteShape

LEMMA SameInvites ==
    ASSUME IInv, UNCHANGED invites
    PROVE  /\ invites' \in [Nicks -> Invitations \union {None}]
           /\ \A n \in Nicks : invites'[n] \in {invites[n], None}
BY DEF IInv, InviteShape

LEMMA UsedInvites ==
    ASSUME IInv, NEW s, Used(s)
    PROVE  /\ invites' \in [Nicks -> Invitations \union {None}]
           /\ \A n \in Nicks : invites'[n] \in {invites[n], None}
BY DEF IInv, InviteShape, Used

(* What a stage that can change the store gives the right to.               *)
LEMMA RightToChange ==
    ASSUME IInv, NEW s \in SessionRecords, Sound(s, owner), s.stage \in Confirmations
    PROVE  /\ s.chosen \in Words
           /\ s.stage = "confirm-password" => s.name \in Allowed
           /\ s.stage = "confirm-reset-password" =>
                 owner # None /\ s.name = owner.name /\ s.invite.resets = owner.name
           /\ s.stage = "confirm-changed-password" => owner # None /\ s.who = owner.name
           /\ s.stage # "confirm-changed-password" =>
                 s.who = Nobody /\ s.invite # None /\ s.invite.left > -AuthTimeout
<1>1. s.chosen \in Words
  BY DEF Sound, SoundStage, SessionRecords
<1>2. s.stage = "confirm-password" => s.name \in Allowed
  BY DEF Sound, SoundRights, Creating
<1>3. s.stage = "confirm-reset-password" =>
          owner # None /\ s.name = owner.name /\ s.invite.resets = owner.name
  BY DEF Sound, SoundRights, Replacing
<1>4. s.stage = "confirm-changed-password" => owner # None /\ s.who = owner.name
  BY DEF Sound, SoundStage, SoundRights, LoggedIn
<1>5. ASSUME s.stage # "confirm-changed-password"
      PROVE  s.who = Nobody /\ s.invite # None /\ s.invite.left > -AuthTimeout
  <2>1. s.who = Nobody /\ s.invite # None
    BY <1>5 DEF Sound, SoundStage, LoggedIn, Confirmations, Creating, Replacing
  <2>2. s.invite.left \in Int /\ s.left \in Nat
    BY <2>1 DEF SessionRecords, Invitations
  <2>3. s.left \in 1..AuthTimeout /\ s.invite.left - s.left >= 1 - AuthTimeout
    BY <2>1 DEF Sound, SoundTimes
  <2> QED
    BY <2>1, <2>2, <2>3, ConstantTypes
<1> QED
  BY <1>1, <1>2, <1>3, <1>4, <1>5

LEMMA UnsureSound ==
    ASSUME IInv, NEW s, NEW name \in Allowed, s.chosen \in Words,
           owner # None => name = owner.name, WriteUnsure(s, name),
           \/ UNCHANGED sessions
           \/ sessions' = Told("unsure", name)
    PROVE  IInv'
<1>1. owner' = [name |-> name, word |-> s.chosen]
  BY DEF WriteUnsure
<1>2. owner' \in [name : Allowed, word : Words] /\ (owner # None => owner'.name = owner.name)
  BY <1>1
<1>3. ASSUME NEW e \in Descriptors, sessions[e] # None
      PROVE  LET x == [sessions[e] EXCEPT !.reset = "unsure"]
             IN  x \in SessionRecords /\ Sound(x, owner')
  <2> DEFINE r == sessions[e]
             x == [r EXCEPT !.reset = "unsure"]
  <2>1. r \in SessionRecords /\ Sound(r, owner)
    BY <1>3 DEF IInv, SessionShape
  <2> HIDE DEF r
  <2>2. x \in SessionRecords
    BY <2>1 DEF SessionRecords
  <2>3. /\ x.name = r.name /\ x.invite = r.invite /\ x.who = r.who /\ x.left = r.left
        /\ x.failures = r.failures /\ x.via = r.via /\ x.stage = r.stage
        /\ x.chosen = r.chosen /\ x.hushed = r.hushed /\ x.reset = "unsure"
    BY <2>1 DEF SessionRecords
  <2> HIDE DEF x
  <2>4. Sound(x, owner)
    BY <2>1, <2>2, <2>3 DEF Sound, SoundTimes, SoundStage, SoundRights
  <2>5. owner' # None
    BY <1>2, OwnerIsOne
  <2> QED
    BY <1>2, <2>2, <2>4, <2>5, SoundKept DEF x, r
<1>4. /\ sessions' \in [Descriptors -> SessionRecords \union {None}]
      /\ \A d \in Descriptors : sessions'[d] \in {sessions[d], None}
                                \/ Sound(sessions'[d], owner')
  <2>1. CASE UNCHANGED sessions
    BY <2>1 DEF IInv, SessionShape
  <2>2. CASE sessions' = Told("unsure", name)
    BY <1>3, <2>2 DEF Told, IInv, SessionShape
  <2> QED
    BY <2>1, <2>2
<1> QED
  BY <1>2, <1>4, OwnerChanges, SameInvites DEF WriteUnsure

LEMMA CreateOwnerSound ==
    ASSUME IInv, NEW d \in Descriptors, NEW s \in SessionRecords,
           Sound(s, owner), s.stage = "confirm-password", CreateOwner(d, s)
    PROVE  IInv'
<1>1. s.chosen \in Words /\ s.name \in Allowed
  BY RightToChange DEF Confirmations
<1>2. CASE Drop(d) /\ UNCHANGED <<owner, invites, failures>>
  BY <1>2, DropSound, SameInvites, OwnerStays DEF IInv
<1>3. CASE owner = None /\ WriteUnsure(s, s.name) /\ UNCHANGED sessions
  BY <1>1, <1>3, UnsureSound
<1>4. CASE /\ owner = None /\ owner' = [name |-> s.name, word |-> s.chosen]
           /\ Used(s) /\ With(d, Logged(s, s.name))
  <2>1. owner' \in [name : Allowed, word : Words] /\ owner'.name = s.name
    BY <1>1, <1>4
  <2>2. owner' # None /\ s.name \in Handles
    BY <2>1, <1>1, OwnerIsOne, ConstantTypes
  <2>3. Logged(s, s.name) \in SessionRecords /\ Sound(Logged(s, s.name), owner')
    BY <2>1, <2>2, LoggedSound
  <2>4. /\ sessions' \in [Descriptors -> SessionRecords \union {None}]
        /\ \A e \in Descriptors : sessions'[e] \in {sessions[e], None}
                                  \/ Sound(sessions'[e], owner')
    BY <1>4, <2>3 DEF With, IInv, SessionShape
  <2> QED
    BY <1>4, <2>1, <2>4, UsedInvites, OwnerChanges
<1> QED
  BY <1>2, <1>3, <1>4 DEF CreateOwner

LEMMA ResetPasswordSound ==
    ASSUME IInv, NEW d \in Descriptors, NEW s \in SessionRecords,
           Sound(s, owner), s.stage = "confirm-reset-password", ResetPassword(d, s)
    PROVE  IInv'
<1>1. s.chosen \in Words /\ owner # None /\ s.name = owner.name
      /\ owner \in [name : Allowed, word : Words]
  BY RightToChange DEF Confirmations, IInv, OwnerShape
<1>2. CASE WriteUnsure(s, s.name) /\ sessions' = Told("unsure", s.name)
  BY <1>1, <1>2, UnsureSound
<1>3. CASE /\ owner' = [owner EXCEPT !.word = s.chosen]
           /\ Used(s)
           /\ sessions' = [e \in Descriptors |->
                 IF e = d THEN Logged(s, s.name)
                 ELSE IF sessions[e] # None /\ sessions[e].who = s.name THEN None
                 ELSE sessions[e]]
  <2>1. owner' \in [name : Allowed, word : Words] /\ owner'.name = owner.name
    BY <1>1, <1>3
  <2>2. owner' # None /\ s.name \in Handles
    BY <2>1, <1>1, OwnerIsOne, ConstantTypes
  <2>3. Logged(s, s.name) \in SessionRecords /\ Sound(Logged(s, s.name), owner')
    BY <1>1, <2>1, <2>2, LoggedSound
  <2>4. /\ sessions' \in [Descriptors -> SessionRecords \union {None}]
        /\ \A e \in Descriptors : sessions'[e] \in {sessions[e], None}
                                  \/ Sound(sessions'[e], owner')
    BY <1>3, <2>3 DEF IInv, SessionShape
  <2> QED
    BY <1>3, <2>1, <2>4, UsedInvites, OwnerChanges
<1> QED
  BY <1>2, <1>3 DEF ResetPassword

LEMMA ChangePasswordSound ==
    ASSUME IInv, NEW d \in Descriptors, NEW s \in SessionRecords,
           Sound(s, owner), s.stage = "confirm-changed-password", ChangePassword(d, s)
    PROVE  IInv'
<1>1. s.chosen \in Words /\ owner # None /\ s.who = owner.name
      /\ owner \in [name : Allowed, word : Words]
  BY RightToChange DEF Confirmations, IInv, OwnerShape
<1>2. CASE WriteUnsure(s, s.who) /\ UNCHANGED sessions
  BY <1>1, <1>2, UnsureSound
<1>3. CASE /\ owner' = [owner EXCEPT !.word = s.chosen]
           /\ With(d, [s EXCEPT !.chosen = Unchosen, !.stage = "authenticated", !.hushed = FALSE])
           /\ UNCHANGED invites
  <2> DEFINE t == [s EXCEPT !.chosen = Unchosen, !.stage = "authenticated", !.hushed = FALSE]
  <2>1. owner' \in [name : Allowed, word : Words] /\ owner'.name = owner.name
    BY <1>1, <1>3
  <2>2. owner' # None
    BY <2>1, OwnerIsOne
  <2>3. t \in SessionRecords
    BY DEF SessionRecords, Stages, LoggedIn
  <2>4. /\ t.name = s.name /\ t.invite = s.invite /\ t.who = s.who /\ t.left = s.left
        /\ t.failures = s.failures /\ t.via = s.via /\ t.reset = s.reset
        /\ t.chosen = Unchosen /\ t.stage = "authenticated" /\ ~t.hushed
    BY DEF SessionRecords
  <2>5. t \in SessionRecords /\ Sound(t, owner')
    <3> HIDE DEF t
    <3>1. Sound(t, owner)
      BY <2>3, <2>4 DEF Sound, SoundTimes, SoundStage, SoundRights, LoggedIn, Confirmations,
                        Secret, Creating, Replacing
    <3> QED
      BY <2>1, <2>2, <2>3, <3>1, SoundKept
  <2>6. /\ sessions' \in [Descriptors -> SessionRecords \union {None}]
        /\ \A e \in Descriptors : sessions'[e] \in {sessions[e], None}
                                  \/ Sound(sessions'[e], owner')
    BY <1>3, <2>5 DEF With, IInv, SessionShape
  <2> QED
    BY <1>3, <2>1, <2>6, SameInvites, OwnerChanges
<1> QED
  BY <1>2, <1>3 DEF ChangePassword

-----------------------------------------------------------------------------
(* The actions. *)

LEMMA InitSound == Init => IInv
BY DEF Init, IInv, SessionShape, OwnerShape, InviteShape

LEMMA CloseSound ==
    ASSUME IInv, UNCHANGED owner, NEW state, Close(state)
    PROVE  IInv'
BY DEF IInv, Close, SessionShape, OwnerShape, InviteShape

LEMMA NothingSound ==
    ASSUME IInv, UNCHANGED <<sessions, invites, owner>>
    PROVE  IInv'
BY DEF IInv, SessionShape, OwnerShape, InviteShape

(* A tick lowers what is left to sessions and invitations.                  *)
LEMMA TickSound == IInv /\ Tick => IInv'
<1> SUFFICES ASSUME IInv, Tick
             PROVE  IInv'
  OBVIOUS
<1>1. CASE Close("failed") /\ UNCHANGED <<irc, owner, flight>>
  BY <1>1, CloseSound
<1>2. CASE /\ sessions' = [d \in Descriptors |-> ExpireSession(sessions[d])]
           /\ invites' = [n \in Nicks |-> ExpireInvite(invites[n])]
           /\ UNCHANGED owner
  <2>1. \A d \in Descriptors : ExpireSession(sessions[d]) # None =>
            /\ ExpireSession(sessions[d]) \in SessionRecords
            /\ Sound(ExpireSession(sessions[d]), owner)
    <3> SUFFICES ASSUME NEW d \in Descriptors, ExpireSession(sessions[d]) # None
                 PROVE  /\ ExpireSession(sessions[d]) \in SessionRecords
                        /\ Sound(ExpireSession(sessions[d]), owner)
      OBVIOUS
    <3>1. sessions[d] # None
      BY DEF ExpireSession
    <3>2. sessions[d] \in SessionRecords /\ Sound(sessions[d], owner)
      BY <3>1 DEF IInv, SessionShape
    <3> QED
      BY <3>2, ExpiredSession
  <2>2. SessionShape'
    BY <1>2, <2>1 DEF SessionShape
  <2>3. \A n \in Nicks : ExpireInvite(invites[n]) # None =>
            /\ ExpireInvite(invites[n]) \in Invitations
            /\ SoundInvite(ExpireInvite(invites[n]), n, owner)
    <3> SUFFICES ASSUME NEW n \in Nicks, ExpireInvite(invites[n]) # None
                 PROVE  /\ ExpireInvite(invites[n]) \in Invitations
                        /\ SoundInvite(ExpireInvite(invites[n]), n, owner)
      OBVIOUS
    <3> DEFINE i == invites[n]
    <3>1. i # None /\ ~(i.left <= 1) /\ ExpireInvite(i) = Aged(i)
      BY DEF ExpireInvite
    <3>2. i \in Invitations /\ SoundInvite(i, n, owner)
      BY <3>1 DEF IInv, InviteShape
    <3> HIDE DEF i
    <3>3. Aged(i) \in Invitations /\ Aged(i).left = i.left - 1 /\ Aged(i).resets = i.resets
          /\ Aged(i).name = i.name
      BY <3>2, AgedInvitation
    <3>4. i.left \in 2..BootstrapTimeout
      BY <3>1, <3>2, ConstantTypes DEF SoundInvite
    <3>5. SoundInvite(Aged(i), n, owner)
      BY <3>2, <3>3, <3>4, ConstantTypes DEF SoundInvite
    <3> QED
      BY <3>1, <3>3, <3>5 DEF i
  <2> QED
    BY <1>2, <2>2, <2>3 DEF IInv, OwnerShape, InviteShape
<1> QED
  BY <1>1, <1>2 DEF Tick

LEMMA InvitingSound == IInv /\ (Hello \/ Reset) => IInv'
<1> SUFFICES ASSUME IInv, NEW n \in Nicks, NEW resets,
                    invites' = [invites EXCEPT ![n] = Invitation(n, resets)],
                    UNCHANGED <<sessions, owner>>,
                    \/ owner = None /\ n \in Allowed /\ resets = Nobody
                    \/ owner # None /\ resets = owner.name
             PROVE  IInv'
  BY ConstantTypes DEF Hello, Reset
<1>1. resets \in Nicks \union {Nobody} /\ (resets = Nobody => n \in Allowed)
      /\ (resets # Nobody => owner # None /\ resets = owner.name)
  BY OwnerIsOne, ConstantTypes DEF IInv, OwnerShape
<1>2. Invitation(n, resets) \in Invitations /\ SoundInvite(Invitation(n, resets), n, owner)
  BY <1>1, ConstantTypes DEF Invitation, Invitations, SoundInvite
<1>3. InviteShape'
  BY <1>2 DEF IInv, InviteShape
<1> QED
  BY <1>3 DEF IInv, SessionShape, OwnerShape

(* What admits a session leaves the rest as it is.                          *)
LEMMA AdmittingSound ==
    IInv /\ (ConnectDCC \/ AcceptPrimary \/ AcceptOffer \/ FinishConnect) => IInv'
<1> SUFFICES ASSUME IInv, ConnectDCC \/ AcceptPrimary \/ AcceptOffer \/ FinishConnect
             PROVE  IInv'
  OBVIOUS
<1>1. UNCHANGED owner /\ \/ Close("failed")
                         \/ UNCHANGED <<sessions, invites>>
                         \/ /\ UNCHANGED invites
                            /\ \E peer \in Peers, via \in Nicks \union {Nowhere} :
                                  Admit(Session(peer, via))
  BY DEF ConnectDCC, AcceptPrimary, AcceptOffer, FinishConnect
<1> QED
  BY <1>1, CloseSound, NothingSound, AdmitSound, SameInvites, OwnerStays DEF IInv

LEMMA LineSound ==
    ASSUME IInv, NEW d \in Open, HandleLine(d, sessions[d])
    PROVE  IInv'
<1> DEFINE s == sessions[d]
<1>1. d \in Descriptors /\ s \in SessionRecords /\ Sound(s, owner)
  BY DEF Open, IInv, SessionShape
<1> HIDE DEF s
<1>2. HandleLine(d, s)
  BY DEF s
<1>3. CASE s.stage = "handle" /\ GiveHandle(d, s) /\ UNCHANGED <<owner, invites, flight>>
  BY <1>1, <1>3, GiveHandleSound, SameInvites, OwnerStays
<1>4. CASE s.stage = "handle" /\ Fail(d, s) /\ UNCHANGED <<owner, invites, flight>>
  BY <1>1, <1>4, FailSound, SameInvites, OwnerStays DEF IInv
<1>5. CASE s.stage = "password" /\ GivePassword(d, s) /\ UNCHANGED <<owner, invites, flight>>
  BY <1>1, <1>5, GivePasswordSound, SameInvites, OwnerStays
<1>6. CASE s.stage \in {"new-password", "reset-password", "change-password"} /\ ChoosePassword(d, s)
  <2>1. UNCHANGED <<owner, invites>>
    BY <1>6 DEF ChoosePassword
  <2> QED
    BY <1>1, <1>6, <2>1, ChoosePasswordSound, SameInvites, OwnerStays
<1>7. CASE s.chosen # Unchosen /\ Mistype(d, s)
  <2>1. UNCHANGED <<owner, invites>>
    BY <1>7 DEF Mistype
  <2> QED
    BY <1>1, <1>7, <2>1, MistypeSound, SameInvites, OwnerStays
<1>8. CASE s.stage = "confirm-password" /\ CreateOwner(d, s)
  BY <1>1, <1>8, CreateOwnerSound
<1>9. CASE s.stage = "confirm-reset-password" /\ ResetPassword(d, s)
  BY <1>1, <1>9, ResetPasswordSound
<1>10. CASE s.stage = "confirm-changed-password" /\ ChangePassword(d, s)
  BY <1>1, <1>10, ChangePasswordSound
<1>11. CASE /\ s.stage = "authenticated" /\ AskToChange(d, s)
            /\ UNCHANGED <<owner, invites, failures, flight>>
  BY <1>1, <1>11, AskToChangeSound, SameInvites, OwnerStays
<1>12. CASE UNCHANGED <<sessions, owner, invites, failures>>
  BY <1>12, NothingSound
<1> QED
  BY <1>2, <1>3, <1>4, <1>5, <1>6, <1>7, <1>8, <1>9, <1>10, <1>11, <1>12 DEF HandleLine

LEMMA NextSound == IInv /\ [Next]_vars => IInv'
<1> SUFFICES ASSUME IInv, [Next]_vars
             PROVE  IInv'
  OBVIOUS
<1>1. CASE Stop
  BY <1>1, CloseSound DEF Stop
<1>2. CASE Start \/ Network \/ FlightEnds \/ OfferDCC \/ LaunchFromIRC
  BY <1>2, NothingSound DEF Start, Network, FlightEnds, OfferDCC, LaunchFromIRC
<1>3. CASE Tick
  BY <1>3, TickSound
<1>4. CASE Hello \/ Reset
  BY <1>4, InvitingSound
<1>5. CASE ConnectDCC \/ AcceptPrimary \/ AcceptOffer \/ FinishConnect
  BY <1>5, AdmittingSound
<1>6. CASE ReadLine
  BY <1>6, LineSound DEF ReadLine
<1>7. CASE EndSession
  BY <1>7, DropSound, SameInvites, OwnerStays DEF EndSession, IInv
<1>8. CASE UNCHANGED vars
  BY <1>8, NothingSound DEF vars
<1> QED
  BY <1>1, <1>2, <1>3, <1>4, <1>5, <1>6, <1>7, <1>8 DEF Next

-----------------------------------------------------------------------------
(* Handshakes, and the failures of a peer.  The nicknames may be any set:   *)
(* that those with a handshake are finitely many is part of the invariant.  *)

Pending(timers) == {n \in Nicks : timers[n] > 0}

HandshakeShape ==
    /\ offers \in [Nicks -> 0..DCCTimeout] /\ connects \in [Nicks -> 0..DCCTimeout]
    /\ IsFiniteSet(Pending(offers)) /\ IsFiniteSet(Pending(connects))
    /\ PendingDCC <= MaxPendingDCC

FailureShape ==
    /\ failures \in [Peers -> Seq(Int)]
    /\ \A p \in Peers : Len(failures[p]) <= MaxRemembered

ProcessShape ==
    up \in {"running", "stopped", "failed"} /\ irc \in {"ready", "joining", "down"} /\ flight \in BOOLEAN

LimitTypes == DCCTimeout \in Nat /\ MaxPendingDCC \in Nat /\ MaxRemembered \in Nat
              /\ FailureWindow \in Nat
LEMMA Limits == LimitTypes
BY PartylineConstants DEF LimitTypes

LEMMA SameHandshakes ==
    ASSUME HandshakeShape, UNCHANGED <<offers, connects>>
    PROVE  HandshakeShape'
BY DEF HandshakeShape, Pending, PendingDCC

LEMMA NoHandshakes ==
    ASSUME NEW timers, timers = Nothing
    PROVE  /\ timers \in [Nicks -> 0..DCCTimeout] /\ IsFiniteSet(Pending(timers))
           /\ Cardinality(Pending(timers)) = 0
<1>1. timers = [n \in Nicks |-> 0] /\ DCCTimeout \in Nat
  BY Limits DEF Nothing, LimitTypes
<1>2. Pending(timers) = {}
  BY <1>1 DEF Pending
<1> QED
  BY <1>1, <1>2, FS_EmptySet

(* Fewer handshakes of a kind. *)
LEMMA FewerHandshakes ==
    ASSUME NEW old \in [Nicks -> 0..DCCTimeout], NEW new, IsFiniteSet(Pending(old)),
           Pending(new) \subseteq Pending(old)
    PROVE  /\ IsFiniteSet(Pending(new)) /\ Cardinality(Pending(new)) \in Nat
           /\ Cardinality(Pending(old)) \in Nat
           /\ Cardinality(Pending(new)) <= Cardinality(Pending(old))
<1>1. Pending(new) \in SUBSET Pending(old)
  OBVIOUS
<1> QED
  BY <1>1, FS_Subset, FS_CardinalityType

LEMMA HandshakesDecrease ==
    ASSUME HandshakeShape,
           offers' \in [Nicks -> 0..DCCTimeout], connects' \in [Nicks -> 0..DCCTimeout],
           Pending(offers') \subseteq Pending(offers), Pending(connects') \subseteq Pending(connects)
    PROVE  HandshakeShape'
<1>1. /\ IsFiniteSet(Pending(offers')) /\ Cardinality(Pending(offers')) \in Nat
      /\ Cardinality(Pending(offers)) \in Nat
      /\ Cardinality(Pending(offers')) <= Cardinality(Pending(offers))
  BY FewerHandshakes DEF HandshakeShape
<1>2. /\ IsFiniteSet(Pending(connects')) /\ Cardinality(Pending(connects')) \in Nat
      /\ Cardinality(Pending(connects)) \in Nat
      /\ Cardinality(Pending(connects')) <= Cardinality(Pending(connects))
  BY FewerHandshakes DEF HandshakeShape
<1>3. /\ PendingDCC = Cardinality(Pending(offers)) + Cardinality(Pending(connects))
      /\ PendingDCC' = Cardinality(Pending(offers')) + Cardinality(Pending(connects'))
  BY DEF PendingDCC, Pending
<1>4. PendingDCC <= MaxPendingDCC /\ MaxPendingDCC \in Nat
  BY Limits DEF HandshakeShape, LimitTypes
<1>5. PendingDCC' <= MaxPendingDCC
  BY <1>1, <1>2, <1>3, <1>4
<1> QED
  BY <1>1, <1>2, <1>5 DEF HandshakeShape, Pending

(* One more, of a nickname that had none. *)
LEMMA OneMoreHandshake ==
    ASSUME NEW old \in [Nicks -> 0..DCCTimeout], NEW n \in Nicks, IsFiniteSet(Pending(old))
    PROVE  LET new == [old EXCEPT ![n] = DCCTimeout]
           IN  /\ new \in [Nicks -> 0..DCCTimeout] /\ IsFiniteSet(Pending(new))
               /\ Cardinality(Pending(new)) \in Nat /\ Cardinality(Pending(old)) \in Nat
               /\ Cardinality(Pending(new)) <= Cardinality(Pending(old)) + 1
<1> DEFINE new == [old EXCEPT ![n] = DCCTimeout]
<1>1. new \in [Nicks -> 0..DCCTimeout]
  BY Limits DEF LimitTypes
<1>2. Pending(new) \in SUBSET (Pending(old) \union {n})
  BY DEF Pending
<1> HIDE DEF new
<1>a. Cardinality(Pending(old)) \in Nat
  BY FS_CardinalityType
<1>b. /\ IsFiniteSet(Pending(old) \union {n})
      /\ Cardinality(Pending(old) \union {n})
            = IF n \in Pending(old) THEN Cardinality(Pending(old)) ELSE Cardinality(Pending(old)) + 1
  BY FS_AddElement
<1>3. /\ IsFiniteSet(Pending(old) \union {n}) /\ Cardinality(Pending(old)) \in Nat
      /\ Cardinality(Pending(old) \union {n}) <= Cardinality(Pending(old)) + 1
      /\ Cardinality(Pending(old) \union {n}) \in Nat
  BY <1>a, <1>b
<1>4. /\ IsFiniteSet(Pending(new)) /\ Cardinality(Pending(new)) \in Nat
      /\ Cardinality(Pending(new)) <= Cardinality(Pending(old) \union {n})
  BY <1>2, <1>3, FS_Subset, FS_CardinalityType
<1>5. Cardinality(Pending(new)) <= Cardinality(Pending(old)) + 1
  BY <1>3, <1>4
<1> QED
  BY <1>1, <1>3, <1>4, <1>5 DEF new

LEMMA HandshakeBegins ==
    ASSUME HandshakeShape, PendingDCC < MaxPendingDCC, NEW n \in Nicks,
           \/ offers' = [offers EXCEPT ![n] = DCCTimeout] /\ UNCHANGED connects
           \/ connects' = [connects EXCEPT ![n] = DCCTimeout] /\ UNCHANGED offers
    PROVE  HandshakeShape'
<1> DEFINE o == [offers EXCEPT ![n] = DCCTimeout]
           c == [connects EXCEPT ![n] = DCCTimeout]
<1>1. /\ o \in [Nicks -> 0..DCCTimeout] /\ IsFiniteSet(Pending(o))
      /\ Cardinality(Pending(o)) \in Nat /\ Cardinality(Pending(offers)) \in Nat
      /\ Cardinality(Pending(o)) <= Cardinality(Pending(offers)) + 1
  BY OneMoreHandshake DEF HandshakeShape
<1>2. /\ c \in [Nicks -> 0..DCCTimeout] /\ IsFiniteSet(Pending(c))
      /\ Cardinality(Pending(c)) \in Nat /\ Cardinality(Pending(connects)) \in Nat
      /\ Cardinality(Pending(c)) <= Cardinality(Pending(connects)) + 1
  BY OneMoreHandshake DEF HandshakeShape
<1>3. (offers' = o /\ connects' = connects) \/ (connects' = c /\ offers' = offers)
  OBVIOUS
<1> HIDE DEF o, c
<1>4. /\ offers' \in [Nicks -> 0..DCCTimeout] /\ connects' \in [Nicks -> 0..DCCTimeout]
      /\ IsFiniteSet(Pending(offers')) /\ IsFiniteSet(Pending(connects'))
      /\ Cardinality(Pending(offers')) + Cardinality(Pending(connects'))
            <= Cardinality(Pending(offers)) + Cardinality(Pending(connects)) + 1
  BY <1>1, <1>2, <1>3 DEF HandshakeShape
<1>5. /\ PendingDCC = Cardinality(Pending(offers)) + Cardinality(Pending(connects))
      /\ PendingDCC' = Cardinality(Pending(offers')) + Cardinality(Pending(connects'))
  BY DEF PendingDCC, Pending
<1>6. PendingDCC \in Nat /\ PendingDCC' \in Nat /\ MaxPendingDCC \in Nat
  BY <1>1, <1>2, <1>3, <1>5, Limits DEF LimitTypes
<1>7. PendingDCC' <= MaxPendingDCC
  BY <1>4, <1>5, <1>6
<1> QED
  BY <1>4, <1>7 DEF HandshakeShape, Pending

(* What is remembered of a peer ages, is forgotten, or has one more entry.  *)
LEMMA AgedFailures ==
    ASSUME NEW s \in Seq(Int)
    PROVE  ExpireFailures(s) \in Seq(Int) /\ Len(ExpireFailures(s)) <= Len(s)
<1> DEFINE old == {i \in DOMAIN s : s[i] = 0}
           gone == Cardinality(old)
           kept == Len(s) - gone
<1>1. Len(s) \in Nat /\ DOMAIN s = 1..Len(s)
  OBVIOUS
<1> HIDE DEF old
<1>2. /\ IsFiniteSet(1..Len(s))
      /\ Cardinality(1..Len(s)) = IF 1 > Len(s) THEN 0 ELSE Len(s) - 1 + 1
  BY <1>1, FS_Interval
<1>3. old \in SUBSET (1..Len(s))
  BY <1>1 DEF old
<1>4. gone \in Nat /\ gone <= Len(s)
  <2>1. IsFiniteSet(old) /\ gone <= Cardinality(1..Len(s))
    BY <1>2, <1>3, FS_Subset
  <2>2. gone \in Nat
    BY <2>1, FS_CardinalityType
  <2> QED
    BY <1>1, <1>2, <2>1, <2>2
<1>5. ExpireFailures(s) = [i \in 1..kept |-> s[i + gone] - 1]
  BY DEF ExpireFailures, old
<1> HIDE DEF gone
<1>6. kept \in Nat /\ kept <= Len(s)
  BY <1>1, <1>4
<1>7. \A i \in 1..kept : s[i + gone] - 1 \in Int
  <2> SUFFICES ASSUME NEW i \in 1..kept
               PROVE  s[i + gone] - 1 \in Int
    OBVIOUS
  <2>1. i + gone \in 1..Len(s)
    BY <1>1, <1>4
  <2> QED
    BY <2>1
<1> HIDE DEF kept
<1>8. ExpireFailures(s) \in Seq(Int) /\ Len(ExpireFailures(s)) = kept
  BY <1>5, <1>6, <1>7, IsASeq
<1> QED
  BY <1>6, <1>8

-----------------------------------------------------------------------------
(* The actions, again. *)

CountShape == ProcessShape /\ HandshakeShape /\ FailureShape

LEMMA InitCounts == Init => CountShape
<1> SUFFICES ASSUME Init
             PROVE  CountShape
  OBVIOUS
<1>1. ProcessShape
  BY DEF Init, ProcessShape
<1>2. HandshakeShape
  <2>1. offers = Nothing /\ connects = Nothing
    BY DEF Init
  <2>2. PendingDCC = Cardinality(Pending(offers)) + Cardinality(Pending(connects))
    BY DEF PendingDCC, Pending
  <2> QED
    BY <2>1, <2>2, NoHandshakes, Limits DEF HandshakeShape, LimitTypes
<1>3. FailureShape
  BY Limits DEF Init, FailureShape, LimitTypes
<1> QED
  BY <1>1, <1>2, <1>3 DEF CountShape

LEMMA CloseCounts ==
    ASSUME NEW state \in {"stopped", "failed"}, Close(state)
    PROVE  HandshakeShape' /\ FailureShape' /\ up' = state
<1>1. HandshakeShape'
  <2>1. offers' = Nothing /\ connects' = Nothing
    BY DEF Close
  <2>2. PendingDCC' = Cardinality(Pending(offers')) + Cardinality(Pending(connects'))
    BY DEF PendingDCC, Pending
  <2> QED
    BY <2>1, <2>2, NoHandshakes, Limits DEF HandshakeShape, LimitTypes, Pending
<1>2. FailureShape'
  BY Limits DEF Close, FailureShape, LimitTypes
<1> QED
  BY <1>1, <1>2 DEF Close

LEMMA SameFailures ==
    ASSUME FailureShape, UNCHANGED failures
    PROVE  FailureShape'
BY DEF FailureShape

LEMMA FailCounts ==
    ASSUME FailureShape, NEW d, NEW s, s.peer \in Peers, Fail(d, s)
    PROVE  FailureShape'
<1> DEFINE p == s.peer
           counted == Append(failures[p], FailureWindow)
<1>1. /\ Len(failures[p]) < MaxRemembered
      /\ failures' = [failures EXCEPT ![p] = counted]
  BY DEF Fail
<1>2. /\ failures \in [Peers -> Seq(Int)] /\ failures[p] \in Seq(Int)
      /\ FailureWindow \in Int /\ MaxRemembered \in Nat
  BY Limits DEF FailureShape, LimitTypes
<1>3. counted \in Seq(Int) /\ Len(counted) = Len(failures[p]) + 1
  BY <1>2
<1>4. Len(failures[p]) \in Nat
  BY <1>2
<1> HIDE DEF counted, p
<1>5. p \in Peers
  BY DEF p
<1> QED
  BY <1>1, <1>2, <1>3, <1>4, <1>5 DEF FailureShape

LEMMA ForgivenCounts ==
    ASSUME FailureShape, NEW s, Forgiven(s)
    PROVE  FailureShape'
<1> DEFINE p == s.peer
<1>1. failures' = [failures EXCEPT ![p] = <<>>]
  BY DEF Forgiven
<1>2. <<>> \in Seq(Int) /\ Len(<<>>) <= MaxRemembered
  BY Limits DEF LimitTypes
<1> HIDE DEF p
<1> QED
  BY <1>1, <1>2 DEF FailureShape

(* A line moves the failures of the peer of its session alone.              *)
LEMMA LineFailures ==
    ASSUME IInv, FailureShape, NEW d \in Open, HandleLine(d, sessions[d])
    PROVE  FailureShape' /\ flight' \in BOOLEAN \union {flight}
<1> DEFINE s == sessions[d]
<1>1. d \in Descriptors /\ s \in SessionRecords /\ s.peer \in Peers
  BY DEF Open, IInv, SessionShape, SessionRecords
<1> HIDE DEF s
<1>2. HandleLine(d, s)
  BY DEF s
<1>3. ASSUME GiveHandle(d, s)
      PROVE  FailureShape'
  <2>1. Fail(d, s) \/ UNCHANGED failures
    BY <1>3 DEF GiveHandle
  <2> QED
    BY <1>1, <2>1, FailCounts, SameFailures
<1>4. ASSUME GivePassword(d, s)
      PROVE  FailureShape'
  <2> DEFINE t == [s EXCEPT !.name = Nobody, !.stage = "handle", !.hushed = FALSE]
  <2>1. Fail(d, t) \/ Forgiven(s)
    BY <1>4 DEF GivePassword
  <2>2. t.peer \in Peers
    BY <1>1 DEF SessionRecords
  <2> HIDE DEF t
  <2> QED
    BY <2>1, <2>2, FailCounts, ForgivenCounts
<1>5. ASSUME CreateOwner(d, s) \/ ResetPassword(d, s) \/ ChangePassword(d, s)
      PROVE  FailureShape'
  <2>1. Forgiven(s) \/ UNCHANGED failures
    BY <1>5 DEF CreateOwner, ResetPassword, ChangePassword, WriteUnsure
  <2> QED
    BY <2>1, ForgivenCounts, SameFailures
<1>6. ASSUME ChoosePassword(d, s) \/ Mistype(d, s) \/ UNCHANGED failures
      PROVE  FailureShape'
  BY <1>6, SameFailures DEF ChoosePassword, Mistype
<1>7. FailureShape'
  BY <1>1, <1>2, <1>3, <1>4, <1>5, <1>6, FailCounts DEF HandleLine
<1>8. flight' \in BOOLEAN \union {flight}
  BY <1>2 DEF HandleLine, LaunchFromSession, Launched
<1> QED
  BY <1>7, <1>8

LEMMA TickCounts == CountShape /\ Tick => CountShape'
<1> SUFFICES ASSUME CountShape, Tick
             PROVE  CountShape'
  OBVIOUS
<1>1. CASE Close("failed") /\ UNCHANGED <<irc, owner, flight>>
  BY <1>1, CloseCounts DEF CountShape, ProcessShape
<1>2. CASE /\ offers' = [n \in Nicks |-> Down(offers[n])]
           /\ connects' = [n \in Nicks |-> Down(connects[n])]
           /\ failures' = [p \in Peers |-> ExpireFailures(failures[p])]
           /\ flight' \in BOOLEAN \union {flight} /\ UNCHANGED <<up, irc>>
  <2>1. \A left \in 0..DCCTimeout : Down(left) \in 0..DCCTimeout /\ (Down(left) > 0 => left > 0)
    BY Limits DEF Down, LimitTypes
  <2>2. HandshakeShape'
    <3>1. /\ offers \in [Nicks -> 0..DCCTimeout] /\ connects \in [Nicks -> 0..DCCTimeout]
          /\ HandshakeShape
      BY DEF CountShape, HandshakeShape
    <3>2. offers' \in [Nicks -> 0..DCCTimeout] /\ connects' \in [Nicks -> 0..DCCTimeout]
      BY <1>2, <2>1, <3>1
    <3>3. Pending(offers') \subseteq Pending(offers) /\ Pending(connects') \subseteq Pending(connects)
      BY <1>2, <2>1, <3>1 DEF Pending
    <3> QED
      BY <3>1, <3>2, <3>3, HandshakesDecrease
  <2>3. FailureShape'
    <3>1. failures \in [Peers -> Seq(Int)] /\ \A p \in Peers : Len(failures[p]) <= MaxRemembered
      BY DEF CountShape, FailureShape
    <3>2. \A p \in Peers : /\ ExpireFailures(failures[p]) \in Seq(Int)
                           /\ Len(ExpireFailures(failures[p])) <= MaxRemembered
      <4> SUFFICES ASSUME NEW p \in Peers
                   PROVE  /\ ExpireFailures(failures[p]) \in Seq(Int)
                          /\ Len(ExpireFailures(failures[p])) <= MaxRemembered
        OBVIOUS
      <4>1. failures[p] \in Seq(Int) /\ Len(failures[p]) <= MaxRemembered
        BY <3>1
      <4> HIDE DEF FailureShape
      <4>2. /\ ExpireFailures(failures[p]) \in Seq(Int)
            /\ Len(ExpireFailures(failures[p])) <= Len(failures[p])
        BY <4>1, AgedFailures
      <4>3. MaxRemembered \in Int
        BY Limits DEF LimitTypes
      <4> QED
        BY <4>1, <4>2, <4>3
    <3> QED
      BY <1>2, <3>2 DEF FailureShape
  <2> QED
    BY <1>2, <2>2, <2>3 DEF CountShape, ProcessShape
<1> QED
  BY <1>1, <1>2 DEF Tick, Launched

LEMMA EndedHandshake ==
    ASSUME NEW old \in [Nicks -> 0..DCCTimeout], NEW n \in Nicks
    PROVE  LET new == [old EXCEPT ![n] = 0]
           IN  new \in [Nicks -> 0..DCCTimeout] /\ Pending(new) \subseteq Pending(old)
BY Limits DEF Pending, LimitTypes

LEMMA HandshakeCounts ==
    HandshakeShape /\ (OfferDCC \/ ConnectDCC \/ AcceptOffer) => HandshakeShape'
<1> SUFFICES ASSUME HandshakeShape, OfferDCC \/ ConnectDCC \/ AcceptOffer
             PROVE  HandshakeShape'
  OBVIOUS
<1>1. CASE OfferDCC
  BY <1>1, HandshakeBegins DEF OfferDCC
<1>2. CASE ConnectDCC
  BY <1>2, HandshakeBegins, SameHandshakes DEF ConnectDCC
<1>3. CASE AcceptOffer
  <2>1. PICK n \in Nicks : offers' = [offers EXCEPT ![n] = 0] /\ UNCHANGED connects
    BY <1>3 DEF AcceptOffer
  <2> QED
    BY <2>1, EndedHandshake, HandshakesDecrease DEF HandshakeShape
<1> QED
  BY <1>1, <1>2, <1>3

LEMMA FinishCounts == CountShape /\ FinishConnect => CountShape'
<1> SUFFICES ASSUME CountShape, FinishConnect
             PROVE  CountShape'
  OBVIOUS
<1>1. UNCHANGED <<irc, flight>>
  BY DEF FinishConnect
<1>2. \/ Close("failed")
      \/ \E n \in Nicks : connects' = [connects EXCEPT ![n] = 0] /\ UNCHANGED <<up, offers, failures>>
  BY DEF FinishConnect
<1>3. ProcessShape /\ HandshakeShape /\ FailureShape
  BY DEF CountShape
<1>4. CASE Close("failed")
  <2>1. HandshakeShape' /\ FailureShape' /\ up' = "failed"
    BY <1>4, CloseCounts
  <2> QED
    BY <1>1, <1>3, <2>1 DEF CountShape, ProcessShape
<1>5. ASSUME NEW n \in Nicks, connects' = [connects EXCEPT ![n] = 0],
             UNCHANGED <<up, offers, failures>>
      PROVE  CountShape'
  <2>1. connects' \in [Nicks -> 0..DCCTimeout] /\ Pending(connects') \subseteq Pending(connects)
    BY <1>3, <1>5, EndedHandshake DEF HandshakeShape
  <2>2. offers' \in [Nicks -> 0..DCCTimeout] /\ Pending(offers') \subseteq Pending(offers)
    BY <1>3, <1>5 DEF HandshakeShape, Pending
  <2>3. HandshakeShape'
    BY <1>3, <2>1, <2>2, HandshakesDecrease
  <2> QED
    BY <1>1, <1>3, <1>5, <2>3, SameFailures DEF CountShape, ProcessShape
<1> QED
  BY <1>2, <1>4, <1>5

LEMMA NextCounts == IInv /\ CountShape /\ [Next]_vars => CountShape'
<1> SUFFICES ASSUME IInv, CountShape, [Next]_vars
             PROVE  CountShape'
  OBVIOUS
<1> USE DEF CountShape
<1>1. CASE Stop
  BY <1>1, CloseCounts DEF Stop, ProcessShape
<1>2. CASE \/ Start \/ Network \/ FlightEnds \/ Hello \/ Reset \/ LaunchFromIRC
           \/ AcceptPrimary \/ EndSession \/ UNCHANGED vars
  <2>1. UNCHANGED <<offers, connects, failures>>
    BY <1>2 DEF Start, Network, FlightEnds, Hello, Reset, LaunchFromIRC, AcceptPrimary,
                EndSession, vars
  <2>2. ProcessShape'
    BY <1>2 DEF Start, Network, FlightEnds, Hello, Reset, LaunchFromIRC, AcceptPrimary,
                EndSession, vars, ProcessShape
  <2> QED
    BY <2>1, <2>2, SameHandshakes, SameFailures
<1>3. CASE Tick
  BY <1>3, TickCounts
<1>4. CASE OfferDCC \/ ConnectDCC \/ AcceptOffer
  <2>1. UNCHANGED <<up, irc, flight, failures>>
    BY <1>4 DEF OfferDCC, ConnectDCC, AcceptOffer
  <2> QED
    BY <1>4, <2>1, HandshakeCounts, SameFailures DEF ProcessShape
<1>5. CASE FinishConnect
  BY <1>5, FinishCounts
<1>6. CASE ReadLine
  <2>1. PICK d \in Open : HandleLine(d, sessions[d])
    BY <1>6 DEF ReadLine
  <2>2. UNCHANGED <<up, irc, offers, connects>>
    BY <1>6 DEF ReadLine
  <2> QED
    BY <2>1, <2>2, LineFailures, SameHandshakes DEF ProcessShape
<1> QED
  BY <1>1, <1>2, <1>3, <1>4, <1>5, <1>6 DEF Next

-----------------------------------------------------------------------------
(* Theorems. *)

(* Sessions, the owner and the invitations are sound in every reachable     *)
(* state.                                                                   *)
THEOREM PartylineInvariant == Spec => []IInv
BY InitSound, NextSound, PTL DEF Spec

(* Handshakes of all nicknames together stay within the limit of the DCC    *)
(* connections, each with time left; what is remembered of a peer stays     *)
(* within its bound; an invitation is that of its nickname and runs out.    *)
THEOREM PartylineTypes == Spec => []TypeOK
<1>1. Init => IInv /\ CountShape
  BY InitSound, InitCounts
<1>2. (IInv /\ CountShape) /\ [Next]_vars => (IInv /\ CountShape)'
  BY NextSound, NextCounts
<1>3. IInv /\ CountShape => TypeOK
  <2> SUFFICES ASSUME IInv, CountShape
               PROVE  TypeOK
    OBVIOUS
  <2>1. owner = None \/ owner \in [name : Nicks, word : Words]
    BY ConstantTypes DEF IInv, OwnerShape
  <2>2. \A n \in Nicks : invites[n] # None =>
            invites[n].name = n /\ invites[n].left \in 1..BootstrapTimeout
    BY DEF IInv, InviteShape, SoundInvite
  <2> QED
    BY <2>1, <2>2 DEF CountShape, ProcessShape, HandshakeShape, FailureShape, TypeOK
<1> QED
  BY <1>1, <1>2, <1>3, PTL DEF Spec

(* A session is what its stage says, has time and failures left until it is *)
(* logged in, and nobody else stays logged in through a reset that completes. *)
THEOREM SessionsSound == Spec => []SessionsAreSound
<1>1. IInv => SessionsAreSound
  <2> SUFFICES ASSUME IInv, NEW d \in Open
               PROVE  LET s == sessions[d]
                      IN  /\ s.who # Nobody <=> s.stage \in LoggedIn
                          /\ s.who # Nobody => s.reset # "done" /\ owner # None /\ s.who = owner.name
                          /\ s.who = Nobody => /\ s.left \in 1..AuthTimeout
                                               /\ s.failures < MaxSessionFailures
                          /\ s.chosen # Unchosen <=> s.stage \in Confirmations
                          /\ s.hushed <=> s.via = Nowhere /\ s.stage \in Secret
                          /\ s.invite # None /\ s.invite.resets # Nobody
                                => s.invite.resets = owner.name
    BY DEF SessionsAreSound
  <2>1. Sound(sessions[d], owner)
    BY DEF Open, IInv, SessionShape
  <2> QED
    BY <2>1 DEF Sound, SoundTimes, SoundStage, SoundRights, Creating, Replacing
<1> QED
  BY <1>1, PartylineInvariant, PTL

(* The store changes its owner in the confirmation of a password alone.     *)
LEMMA StoreChanges ==
    ASSUME Next, owner' # owner
    PROVE  \E d \in Open :
              LET s == sessions[d]
              IN  \/ s.stage = "confirm-password" /\ CreateOwner(d, s)
                  \/ s.stage = "confirm-reset-password" /\ ResetPassword(d, s)
                  \/ s.stage = "confirm-changed-password" /\ ChangePassword(d, s)
<1>1. ReadLine
  BY DEF Next, Stop, Start, Network, FlightEnds, Tick, Hello, Reset, OfferDCC, ConnectDCC,
         LaunchFromIRC, AcceptPrimary, AcceptOffer, FinishConnect, EndSession
<1>2. PICK d \in Open : HandleLine(d, sessions[d])
  BY <1>1 DEF ReadLine
<1> QED
  BY <1>2 DEF HandleLine, ChoosePassword, Mistype

(* There is one owner for good, whom the configuration names, and its       *)
(* password is what a session with the right to choose it has chosen.       *)
THEOREM OwnerKept == Spec => OwnerIsKept
<1>1. IInv /\ [Next]_vars =>
        [owner' # owner =>
         /\ owner # None => owner'.name = owner.name
         /\ owner = None => owner'.name \in Allowed
         /\ \E d \in Open :
               LET s == sessions[d]
               IN  /\ s.chosen = owner'.word
                   /\ \/ owner # None /\ s.who = owner.name
                      \/ /\ s.invite # None /\ s.invite.left > -AuthTimeout
                         /\ s.invite.resets = owner.name]_vars
  <2> SUFFICES ASSUME IInv, Next, owner' # owner
               PROVE  /\ owner # None => owner'.name = owner.name
                      /\ owner = None => owner'.name \in Allowed
                      /\ \E d \in Open :
                            LET s == sessions[d]
                            IN  /\ s.chosen = owner'.word
                                /\ \/ owner # None /\ s.who = owner.name
                                   \/ /\ s.invite # None /\ s.invite.left > -AuthTimeout
                                      /\ s.invite.resets = owner.name
    BY DEF vars
  <2>1. PICK d \in Open :
              \/ sessions[d].stage = "confirm-password" /\ CreateOwner(d, sessions[d])
              \/ sessions[d].stage = "confirm-reset-password" /\ ResetPassword(d, sessions[d])
              \/ sessions[d].stage = "confirm-changed-password" /\ ChangePassword(d, sessions[d])
    BY StoreChanges
  <2> DEFINE s == sessions[d]
  <2>2. s \in SessionRecords /\ Sound(s, owner)
    BY DEF Open, IInv, SessionShape
  <2>3. owner = None \/ owner \in [name : Allowed, word : Words]
    BY DEF IInv, OwnerShape
  <2> HIDE DEF s
  <2>4. s.stage \in Confirmations
    BY <2>1 DEF s, Confirmations
  <2>5. CASE s.stage = "confirm-password" /\ CreateOwner(d, s)
    <3>1. owner = None /\ owner' = [name |-> s.name, word |-> s.chosen]
      BY <2>5 DEF CreateOwner, WriteUnsure
    <3>2. s.name \in Allowed /\ s.invite # None /\ s.invite.left > -AuthTimeout
      BY <2>2, <2>4, <2>5, RightToChange
    <3>3. s.invite.resets = owner.name
      BY <2>2, <2>5, <3>1 DEF Sound, SoundRights, Creating, None
    <3> QED
      BY <3>1, <3>2, <3>3 DEF s
  <2>6. CASE s.stage = "confirm-reset-password" /\ ResetPassword(d, s)
    <3>1. /\ owner # None /\ s.name = owner.name /\ s.invite.resets = owner.name
          /\ s.invite # None /\ s.invite.left > -AuthTimeout
      BY <2>2, <2>4, <2>6, RightToChange
    <3>2. owner' = [owner EXCEPT !.word = s.chosen] \/ owner' = [name |-> s.name, word |-> s.chosen]
      BY <2>6 DEF ResetPassword, WriteUnsure
    <3>3. owner'.name = owner.name /\ owner'.word = s.chosen
      BY <2>3, <3>1, <3>2
    <3> QED
      BY <3>1, <3>3 DEF s
  <2>7. CASE s.stage = "confirm-changed-password" /\ ChangePassword(d, s)
    <3>1. owner # None /\ s.who = owner.name
      BY <2>2, <2>4, <2>7, RightToChange
    <3>2. owner' = [owner EXCEPT !.word = s.chosen] \/ owner' = [name |-> s.who, word |-> s.chosen]
      BY <2>7 DEF ChangePassword, WriteUnsure
    <3>3. owner'.name = owner.name /\ owner'.word = s.chosen
      BY <2>3, <3>1, <3>2
    <3> QED
      BY <3>1, <3>3 DEF s
  <2> QED
    BY <2>1, <2>5, <2>6, <2>7 DEF s
<1> QED
  BY <1>1, PartylineInvariant, PTL DEF Spec, OwnerIsKept
=============================================================================
