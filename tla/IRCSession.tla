------------------------------ MODULE IRCSession ------------------------------
(***************************************************************************)
(* One IRC session after another: the transport state machine of           *)
(* irc/transport.py, the socket adapter of irc/socket_adapter.py that      *)
(* executes its actions, and an IRC server that answers, kicks and hangs   *)
(* up.  The client is one thread; a poll of the adapter is a flush, the    *)
(* lines received so far one by one, and a tick.  The server and the       *)
(* network run between any two of these steps.                             *)
(*                                                                         *)
(* A line is its verb and what the receiver looks at.  Time is counted in  *)
(* units: a timer is the time left to it, and polls are at least a unit    *)
(* apart.                                                                  *)
(***************************************************************************)
EXTENDS Integers, Sequences

CONSTANTS
    ChannelList,       \* the configured channels, in order
    Delays,            \* reconnect_delays_ns
    HandshakeTimeout, IdleTimeout, StopTimeout,
    MaxOutput,         \* lines the output buffer of the adapter holds
    Chatter,           \* bound: what the server says of its own accord
    MaxElapse,         \* bound: time between two polls
    MaxWire,           \* bound: lines under way in one direction
    MaxBatch           \* bound: lines one poll exposes

Channels == {ChannelList[i] : i \in 1..Len(ChannelList)}

ASSUME SessionConstants ==
    /\ ChannelList \in Seq(Channels) /\ ChannelList # <<>>
    /\ Delays \in Seq(Nat \ {0}) /\ Delays # <<>>
    /\ HandshakeTimeout \in Nat \ {0}
    /\ IdleTimeout \in Nat \ {0}
    /\ StopTimeout \in Nat \ {0}
    /\ MaxOutput \in Nat \ {0}
    /\ Chatter \subseteq {"PING", "PRIVMSG", "NICK"}
    /\ MaxElapse \in Nat \ {0}
    /\ MaxWire \in Nat \ {0}
    /\ MaxBatch \in Nat

VARIABLES
    state,             \* IRCTransport._state
    nickname,          \* _nickname: primary or fallback
    joined,            \* _joined
    reconnectIndex,    \* _reconnect_index
    timer,             \* time to _reconnect_at_ns or to _deadline_ns, or 0
    silence,           \* time since _last_receive_ns
    stream,            \* whether the adapter holds an open stream
    output,            \* _pending_output
    phase,             \* idle, or where the current poll is
    messages,          \* messages the current poll has collected
    toServer,          \* lines sent, not yet read by the server
    toClient,          \* lines of the server, not yet read; EOF ends them
    account,           \* the nickname the server has registered, or "none"
    members            \* the channels the bot is in, for the server

transportVars == <<state, nickname, joined, reconnectIndex, timer, silence>>
adapterVars   == <<stream, output, phase, messages>>
serverVars    == <<toServer, toClient, account, members>>
sessionVars   == <<transportVars, adapterVars, serverVars>>

States == {"NEW", "CONNECTING", "REGISTERING", "JOINING", "READY", "BACKOFF",
           "STOPPING", "STOPPED"}
Handshake == {"REGISTERING", "JOINING"}
Connected == Handshake \cup {"READY", "STOPPING"}
Me == {"primary", "fallback"}

Line(verb, who, channel) == [verb |-> verb, who |-> who, channel |-> channel]
Plain(verb) == Line(verb, "server", "none")

Least(a, b) == IF a < b THEN a ELSE b

Init ==
    /\ state = "NEW"
    /\ nickname = "primary"
    /\ joined = {}
    /\ reconnectIndex = 0
    /\ timer = 0
    /\ silence = 0
    /\ stream = FALSE
    /\ output = <<>>
    /\ phase = "idle"
    /\ messages = <<>>
    /\ toServer = <<>>
    /\ toClient = <<>>
    /\ account = "none"
    /\ members = {}

-----------------------------------------------------------------------------
(* What the steps of the transport leave behind.                           *)

\* The stream is closed: whatever was under way either way is gone, and the
\* server drops the session.
Disconnected ==
    /\ stream' = FALSE
    /\ output' = <<>>
    /\ toServer' = <<>>
    /\ toClient' = <<>>
    /\ account' = "none"
    /\ members' = {}

Backoff ==
    /\ state' = "BACKOFF"
    /\ joined' = {}
    /\ timer' = Delays[Least(reconnectIndex + 1, Len(Delays))]
    /\ reconnectIndex' = Least(reconnectIndex + 1, Len(Delays) - 1)
    /\ silence' = 0
    /\ UNCHANGED nickname

FinishStop ==
    /\ state' = "STOPPED"
    /\ joined' = {}
    /\ timer' = 0
    /\ silence' = 0
    /\ UNCHANGED <<nickname, reconnectIndex>>

\* Mutants: a lost connection is always retried; the socket stays open.
FailConnectionRetries == Disconnected /\ Backoff
FailConnectionLeaks ==
    /\ IF state = "STOPPING" THEN FinishStop ELSE Backoff
    /\ UNCHANGED <<stream, output, serverVars>>

\* _fail_connection, and connection_lost in the state it finds.
FailConnection ==
    /\ Disconnected
    /\ IF state = "STOPPING" THEN FinishStop ELSE Backoff

\* The SEND actions of a step: a line that does not fit ends the connection.
FitsOneMore(lines) == Len(output) + Len(lines) <= MaxOutput + 1    \* mutant
Fits(lines) == Len(output) + Len(lines) <= MaxOutput

\* connected: registration starts again, under the configured nickname; NICK and
\* USER fill an empty buffer.
Registration ==
    /\ MaxOutput >= 2
    /\ state' = "REGISTERING"
    /\ nickname' = "primary"
    /\ joined' = {}
    /\ timer' = HandshakeTimeout
    /\ silence' = 0
    /\ stream' = TRUE
    /\ output' = <<Line("NICK", "primary", "none"), Plain("USER")>>
    /\ UNCHANGED <<reconnectIndex, serverVars>>

\* A CONNECT action: the connector is synchronous, and succeeds or raises.
Connect ==
    \/ Registration
    \/ /\ nickname' = "primary"
       /\ state' = "BACKOFF"
       /\ joined' = {}
       /\ timer' = Delays[Least(reconnectIndex + 1, Len(Delays))]
       /\ reconnectIndex' = Least(reconnectIndex + 1, Len(Delays) - 1)
       /\ silence' = 0
       /\ UNCHANGED <<stream, output, serverVars>>

-----------------------------------------------------------------------------
(* Calls of the client. *)

Start ==
    /\ phase = "idle"
    /\ state = "NEW"
    /\ phase' = "flush"
    /\ Connect
    /\ UNCHANGED messages

\* transport.stop: QUIT when there is a session to leave; an overflow ends it
\* at once.
StopTransport ==
    \/ /\ state \in {"NEW", "BACKOFF"}
       /\ FinishStop
       /\ UNCHANGED <<stream, output, serverVars>>
    \/ /\ state \in Handshake \cup {"READY"}
       /\ Fits(<<Plain("QUIT")>>)
       /\ state' = "STOPPING"
       /\ timer' = StopTimeout
       /\ output' = Append(output, Plain("QUIT"))
       /\ UNCHANGED <<nickname, joined, reconnectIndex, silence, stream,
                      serverVars>>
    \/ /\ state \in Handshake \cup {"READY"}
       /\ ~Fits(<<Plain("QUIT")>>)
       /\ Disconnected
       /\ FinishStop
    \/ /\ state \in {"STOPPING", "STOPPED"}
       /\ UNCHANGED <<transportVars, stream, output, serverVars>>

StopSession ==
    /\ phase = "idle"
    /\ phase' = "flush"
    /\ StopTransport
    /\ UNCHANGED messages

\* queue_application: outside READY, or when the batch does not fit, it raises.
Sendable == stream /\ state = "READY" /\ Fits(<<Plain("NOTICE")>>)
QueueApplication ==
    /\ phase = "idle"
    /\ Sendable
    /\ output' = Append(output, Plain("NOTICE"))
    /\ UNCHANGED <<transportVars, stream, phase, messages, serverVars>>

\* _flush: the stream takes lines up to any point, or fails.
Flush(from, to) ==
    /\ phase = from
    /\ phase' = to
    /\ \/ \E n \in 0..Least(Len(output), MaxWire - Len(toServer)) :
             /\ toServer' = toServer \o SubSeq(output, 1, n)
             /\ output' = SubSeq(output, n + 1, Len(output))
             /\ UNCHANGED <<transportVars, stream, messages, toClient, account,
                            members>>
       \/ /\ output # <<>>
          /\ FailConnection
          /\ UNCHANGED messages

EndFlush == Flush("flush", "deliver")

\* The messages of the poll go to the process, and the poll is over.
Deliver ==
    /\ phase = "deliver"
    /\ phase' = "idle"
    /\ messages' = <<>>
    /\ UNCHANGED <<transportVars, stream, output, serverVars>>

\* poll begins: the clock has moved, and the timers with it.
BeginPoll ==
    /\ phase = "idle"
    /\ state \notin {"NEW", "STOPPED"}
    /\ phase' = "send"
    /\ \E elapsed \in 1..MaxElapse :
          /\ timer' = IF timer > elapsed THEN timer - elapsed ELSE 0
          /\ silence' = IF state = "READY"
                        THEN Least(silence + elapsed, IdleTimeout) ELSE 0
    /\ UNCHANGED <<state, nickname, joined, reconnectIndex, stream, output,
                   messages, serverVars>>

PollFlush == Flush("send", "receive")

\* Mutants: no deadline for QUIT, none for a handshake.
NoStopDeadline == state \in Handshake /\ timer = 0
NoHandshakeDeadline == state = "STOPPING" /\ timer = 0

ReconnectDue == state = "BACKOFF" /\ timer = 0
DeadlinePassed == state \in Handshake \cup {"STOPPING"} /\ timer = 0
PeerSilent == state = "READY" /\ silence >= IdleTimeout

\* tick, at the end of a poll.
Tick ==
    /\ phase = "receive"
    /\ phase' = "flush"
    /\ UNCHANGED messages
    /\ \/ ReconnectDue /\ Connect
       \/ (DeadlinePassed \/ PeerSilent) /\ FailConnection
       \/ /\ ~(ReconnectDue \/ DeadlinePassed \/ PeerSilent)
          /\ UNCHANGED <<transportVars, stream, output, serverVars>>

-----------------------------------------------------------------------------
(* The lines a poll receives. *)

\* What the transport answers to a line.
ReplyTo(line) ==
    CASE line.verb = "PING" -> <<Plain("PONG")>>
      [] line.verb = "433" /\ state = "REGISTERING" /\ nickname = "primary" ->
            <<Line("NICK", "fallback", "none")>>
      [] line.verb = "001" /\ state = "REGISTERING" ->
            [i \in 1..Len(ChannelList) |->
                Line("JOIN", nickname, ChannelList[i])]
      [] line.verb = "KICK" /\ state = "READY" /\ line.channel \in joined ->
            <<Line("JOIN", nickname, line.channel)>>
      [] OTHER -> <<>>

\* The lines the process gets to see.
Exposed(line) ==
    \/ line.verb \in {"JOIN", "NICK"} /\ state \in {"JOINING", "READY"}
    \/ line.verb \in {"KICK", "PRIVMSG"} /\ state = "READY"

\* The line is taken and answered.
Receive(verb) ==
    LET line == Head(toClient) IN
    /\ phase = "receive"
    /\ toClient # <<>>
    /\ line.verb = verb
    /\ Exposed(line) => Len(messages) < MaxBatch
    /\ Fits(ReplyTo(line))
    /\ output' = output \o ReplyTo(line)
    /\ messages' = IF Exposed(line) THEN Append(messages, verb) ELSE messages
    /\ toClient' = Tail(toClient)
    /\ silence' = 0
    /\ UNCHANGED <<stream, phase, toServer, account, members>>

ReceiveNicknameInUse ==
    /\ Receive("433")
    /\ state = "REGISTERING"
    /\ nickname = "primary"
    /\ nickname' = "fallback"
    /\ UNCHANGED <<state, joined, reconnectIndex, timer>>

ReceiveWelcome ==
    /\ Receive("001")
    /\ state = "REGISTERING"
    /\ Head(toClient).who = nickname
    /\ state' = "JOINING"
    /\ timer' = HandshakeTimeout
    /\ UNCHANGED <<nickname, joined, reconnectIndex>>

ReceiveJoin ==
    /\ Receive("JOIN")
    /\ state \in {"JOINING", "READY"}
    /\ joined' = joined \cup {Head(toClient).channel}
    /\ IF joined' = Channels
       THEN state' = "READY" /\ timer' = 0 /\ reconnectIndex' = 0
       ELSE UNCHANGED <<state, timer, reconnectIndex>>
    /\ UNCHANGED nickname

\* Mutant: the kick is only passed on.
ReceiveKickPassive ==
    /\ Receive("KICK")
    /\ state = "READY"
    /\ UNCHANGED <<state, nickname, joined, reconnectIndex, timer>>

\* A kick is only looked at in READY.
ReceiveKick ==
    /\ Receive("KICK")
    /\ state = "READY"
    /\ Head(toClient).channel \in joined
    /\ joined' = joined \ {Head(toClient).channel}
    /\ state' = "JOINING"
    /\ timer' = HandshakeTimeout
    /\ UNCHANGED <<nickname, reconnectIndex>>

\* Everything that leaves the session as it is, a kick while joining included.
ReceiveOther ==
    /\ \/ \E verb \in {"PING", "PRIVMSG", "NICK"} : Receive(verb)
       \/ state # "REGISTERING" /\ (Receive("433") \/ Receive("001"))
       \/ state \notin {"JOINING", "READY"} /\ Receive("JOIN")
       \/ state # "READY" /\ Receive("KICK")
    /\ UNCHANGED <<state, nickname, joined, reconnectIndex, timer>>

\* The end of the stream, ERROR, a welcome under another nickname, a second
\* refusal, a reply that does not fit, or a receive error: the connection ends.
ReceiveFailure ==
    /\ phase = "receive"
    /\ stream
    /\ \/ UNCHANGED messages
       \/ LET line == Head(toClient) IN
          /\ toClient # <<>>
          /\ ~Fits(ReplyTo(line))
          /\ messages' = IF Exposed(line) THEN Append(messages, line.verb)
                                          ELSE messages
    /\ FailConnection
    /\ UNCHANGED phase

Client ==
    \/ Start \/ StopSession \/ QueueApplication
    \/ BeginPoll \/ PollFlush \/ Tick \/ EndFlush \/ Deliver
    \/ ReceiveNicknameInUse \/ ReceiveWelcome \/ ReceiveJoin \/ ReceiveKick
    \/ ReceiveOther \/ ReceiveFailure

-----------------------------------------------------------------------------
(* The server and the network (external). *)

Push(lines) ==
    /\ Len(toClient) + Len(lines) <= MaxWire
    /\ toClient' = toClient \o lines

\* Registration takes a nickname the server accepts and USER, in either order;
\* the server may cut the nickname it welcomes.
ServerWelcome(who) ==
    \E given \in {who, "cut"} :
        /\ account' = given
        /\ Push(<<Line("001", given, "none")>>)

ServerReads ==
    /\ toServer # <<>>
    /\ account # "closed"
    /\ toServer' = Tail(toServer)
    /\ LET line == Head(toServer) IN
       \/ /\ line.verb = "NICK"
          /\ \/ account = "none" /\ account' = line.who /\ UNCHANGED toClient
             \/ account = "anonymous" /\ ServerWelcome(line.who)
             \/ Push(<<Plain("433")>>) /\ UNCHANGED account
          /\ UNCHANGED members
       \/ /\ line.verb = "USER"
          /\ IF account \in Me THEN ServerWelcome(account)
             ELSE account' = "anonymous" /\ UNCHANGED toClient
          /\ UNCHANGED members
       \/ /\ line.verb = "JOIN"
          /\ \/ /\ line.channel \notin members
                /\ members' = members \cup {line.channel}
                /\ Push(<<Line("JOIN", account, line.channel)>>)
             \/ UNCHANGED <<members, toClient>>
          /\ UNCHANGED account
       \/ /\ line.verb = "QUIT"
          /\ members' = {}
          /\ account' = "closed"
          /\ Push(<<Plain("ERROR")>>)
       \/ /\ line.verb \in {"PONG", "NOTICE"}
          /\ UNCHANGED <<account, members, toClient>>
    /\ UNCHANGED <<transportVars, adapterVars>>

ServerSpeaks ==
    /\ account \in Me
    /\ \/ /\ \E verb \in Chatter :
                /\ verb = "PING" \/ members # {}
                /\ Push(<<Plain(verb)>>)
          /\ UNCHANGED members
       \/ \E channel \in members :
             /\ members' = members \ {channel}
             /\ Push(<<Line("KICK", account, channel)>>)
    /\ UNCHANGED <<transportVars, adapterVars, toServer, account>>

\* The server hangs up, with or without a word the client gets to read.
ServerCloses ==
    /\ stream
    /\ account # "closed"
    /\ account' = "closed"
    /\ members' = {}
    /\ toServer' = <<>>
    /\ \/ \E verb \in {"ERROR", "EOF"} : Push(<<Plain(verb)>>)
       \/ UNCHANGED toClient
    /\ UNCHANGED <<transportVars, adapterVars>>

Server == ServerReads \/ ServerSpeaks \/ ServerCloses

Next == Client \/ Server

Spec == Init /\ [][Next]_sessionVars

\* The event loop polls again and again, however often somebody else calls the
\* adapter in between, and a poll reads a bounded number of times.  Not every
\* attempt to connect fails.
ConnectSucceeds == Tick /\ ~stream /\ stream'

FairSpec ==
    /\ Spec
    /\ SF_sessionVars(BeginPoll)
    /\ WF_sessionVars(PollFlush) /\ WF_sessionVars(Tick)
    /\ WF_sessionVars(EndFlush) /\ WF_sessionVars(Deliver)
    /\ SF_sessionVars(ConnectSucceeds)

-----------------------------------------------------------------------------

Verbs == {"NICK", "USER", "JOIN", "QUIT", "PONG", "NOTICE",
          "001", "433", "PING", "PRIVMSG", "KICK", "ERROR", "EOF"}
Accounts == Me \cup {"none", "anonymous", "cut", "closed"}
Lines == [verb : Verbs, who : Accounts \cup {"server"}, channel : Channels \cup {"none"}]

TypeOK ==
    /\ state \in States \ {"CONNECTING"}
    /\ nickname \in Me
    /\ joined \subseteq Channels
    /\ reconnectIndex \in 0..(Len(Delays) - 1)
    /\ timer \in Nat
    /\ silence \in 0..IdleTimeout
    /\ stream \in BOOLEAN
    /\ output \in Seq(Lines) /\ Len(output) <= MaxOutput
    /\ phase \in {"idle", "send", "receive", "flush", "deliver"}
    /\ messages \in Seq(Verbs)
    /\ toServer \in Seq(Lines) /\ Len(toServer) <= MaxWire
    /\ toClient \in Seq(Lines) /\ Len(toClient) <= MaxWire
    /\ account \in Accounts
    /\ members \subseteq Channels

\* Between two steps the adapter holds a stream exactly in the states in which
\* the transport may receive, send or lose one: no call raises for being out of
\* sequence, nothing is queued for a stream that is gone, no socket is leaked.
StreamMatchesState ==
    /\ stream <=> state \in Connected
    /\ ~stream => output = <<>>

\* READY is true: once everything the server said was read, the bot is in every
\* configured channel.
ReadyMeansMember ==
    state = "READY" /\ toClient = <<>> /\ account # "closed" =>
        members = Channels

\* After stop the session only ends: no late answer, timeout or lost connection
\* brings it back.
QuitIsFinal ==
    [][/\ state = "STOPPING" => state' \in {"STOPPING", "STOPPED"}
       /\ state = "STOPPED" => state' = "STOPPED"]_sessionVars

\* QUIT ends the session, whatever the server does.
StopCompletes == state = "STOPPING" ~> state = "STOPPED"

\* A handshake ends, in READY or in another attempt.
HandshakeEnds == state \in Handshake ~> state \notin Handshake

\* A failed connection is tried again until one is made.
BackoffEnds == state = "BACKOFF" ~> state # "BACKOFF"

\* A peer that vanished without closing the stream is noticed.
DeadPeerNoticed == (stream /\ account = "closed") ~> (~stream)

\* No state but READY and STOPPED lasts, and READY only as long as the peer does:
\* the four above, under one fairness.
SessionMovesOn == StopCompletes /\ HandshakeEnds /\ BackoffEnds /\ DeadPeerNoticed
=============================================================================
