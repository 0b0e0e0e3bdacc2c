-------------------------- MODULE IRCSessionProofs --------------------------
(***************************************************************************)
(* Proofs about IRCSession, for any channels, delays and timeouts, any     *)
(* size of the buffers, and any server, and about ProcessShell, in which   *)
(* that session runs, with a stop or a failure of the worker at any time.  *)
(*                                                                         *)
(* The argument: a connection is made only from NEW and BACKOFF and ends   *)
(* in BACKOFF or STOPPED, and every other step leaves the stream and its   *)
(* side of the states as they are (StreamMatchesState).  A stop is final   *)
(* because what could bring the session back is a connection that fails,   *)
(* and that needs a stream, which a stopped session has not.  What READY   *)
(* says of a single channel has an invariant of its own, Membership.       *)
(***************************************************************************)
EXTENDS ProcessShell, SequenceTheorems, TLAPS

(* What the client sends, and what a server says. *)
ClientLines ==
    {l \in Lines : /\ l.verb = "NICK" => l.who \in Me
                   /\ l.verb = "JOIN" => l.channel \in Channels}
ServerLines == {l \in Lines : l.verb \in {"JOIN", "KICK"} => l.channel \in Channels}

TransportShape ==
    /\ state \in States /\ nickname \in Me /\ joined \subseteq Channels
    /\ reconnectIndex \in 0..(Len(Delays) - 1) /\ timer \in Nat /\ silence \in 0..IdleTimeout

OutputShape == stream \in BOOLEAN /\ output \in Seq(ClientLines) /\ Len(output) <= MaxOutput

ServerShape ==
    /\ toServer \in Seq(ClientLines) /\ Len(toServer) <= MaxWire
    /\ toClient \in Seq(ServerLines) /\ Len(toClient) <= MaxWire
    /\ account \in Accounts /\ members \subseteq Channels
    /\ ~stream => toServer = <<>> /\ toClient = <<>> /\ account = "none"

Core == TransportShape /\ OutputShape /\ ServerShape /\ StreamMatchesState

PollShape == messages \in Seq(Verbs)

IInv == Core /\ PollShape

(* The phases of a session of its own, in which connecting takes no step;    *)
(* ProcessShell has one more of each.                                        *)
Alone ==
    state # "CONNECTING" /\ phase \in {"idle", "send", "receive", "flush", "deliver"}

-----------------------------------------------------------------------------
(* Constants, and lines. *)

LEMMA ConstantTypes ==
    /\ Len(ChannelList) \in Nat \ {0} /\ Len(Delays) \in Nat \ {0}
    /\ \A i \in 1..Len(ChannelList) : ChannelList[i] \in Channels
    /\ \A i \in 1..Len(Delays) : Delays[i] \in Nat \ {0}
    /\ HandshakeTimeout \in Nat \ {0} /\ IdleTimeout \in Nat \ {0} /\ StopTimeout \in Nat \ {0}
    /\ MaxOutput \in Nat \ {0} /\ MaxWire \in Nat \ {0} /\ MaxElapse \in Nat \ {0}
    /\ Chatter \subseteq {"PING", "PRIVMSG", "NICK"}
<1>1. Len(ChannelList) \in Nat \ {0} /\ Len(Delays) \in Nat \ {0}
  BY SessionConstants, EmptySeq
<1>2. \A i \in 1..Len(ChannelList) : ChannelList[i] \in Channels
  BY DEF Channels
<1>3. \A i \in 1..Len(Delays) : Delays[i] \in Nat \ {0}
  BY SessionConstants, ElementOfSeq
<1> QED
  BY <1>1, <1>2, <1>3, SessionConstants

LEMMA ClientSays ==
    /\ \A who \in Me : Line("NICK", who, "none") \in ClientLines
    /\ \A verb \in {"USER", "QUIT", "NOTICE", "PONG"} : Plain(verb) \in ClientLines
    /\ \A who \in Me, c \in Channels : Line("JOIN", who, c) \in ClientLines
<1>1. \A who \in Me : Line("NICK", who, "none") \in ClientLines
  BY DEF ClientLines, Lines, Line, Me, Verbs, Accounts
<1>2. \A verb \in {"USER", "QUIT", "NOTICE", "PONG"} : Plain(verb) \in ClientLines
  BY DEF ClientLines, Lines, Line, Plain, Verbs
<1>3. \A who \in Me, c \in Channels : Line("JOIN", who, c) \in ClientLines
  BY DEF ClientLines, Lines, Line, Me, Verbs, Accounts
<1> QED
  BY <1>1, <1>2, <1>3

LEMMA ServerSays ==
    /\ \A verb \in {"433", "ERROR", "EOF", "PING", "PRIVMSG", "NICK"} : Plain(verb) \in ServerLines
    /\ \A who \in Accounts :
          /\ Line("001", who, "none") \in ServerLines
          /\ \A c \in Channels :
                Line("JOIN", who, c) \in ServerLines /\ Line("KICK", who, c) \in ServerLines
<1>1. \A verb \in {"433", "ERROR", "EOF", "PING", "PRIVMSG", "NICK"} : Plain(verb) \in ServerLines
  BY DEF ServerLines, Lines, Line, Plain, Verbs
<1>2. \A who \in Accounts : Line("001", who, "none") \in ServerLines
  BY DEF ServerLines, Lines, Line, Verbs
<1>3. \A who \in Accounts, c \in Channels :
         Line("JOIN", who, c) \in ServerLines /\ Line("KICK", who, c) \in ServerLines
  BY DEF ServerLines, Lines, Line, Verbs
<1> QED
  BY <1>1, <1>2, <1>3

LEMMA OneLine == ASSUME NEW S, NEW l \in S PROVE <<l>> \in Seq(S) /\ Len(<<l>>) = 1
<1>1. <<>> \in Seq(S) /\ Append(<<>>, l) = <<l>>
  BY EmptySeq
<1> QED
  BY <1>1, EmptySeq, AppendProperties

-----------------------------------------------------------------------------
(* Connections. *)

Same == UNCHANGED <<state, nickname, joined, reconnectIndex, timer, silence, stream, output,
                    toServer, toClient, account, members>>

LEMMA NothingHappens == Core /\ Same => Core'
BY DEF Same, Core, TransportShape, OutputShape, ServerShape, StreamMatchesState

LEMMA Disconnects ==
    Disconnected => OutputShape' /\ ServerShape' /\ ~stream' /\ output' = <<>>
<1> SUFFICES ASSUME Disconnected
             PROVE  OutputShape' /\ ServerShape' /\ ~stream' /\ output' = <<>>
  OBVIOUS
<1>1. /\ <<>> \in Seq(ClientLines) /\ <<>> \in Seq(ServerLines) /\ Len(<<>>) = 0
      /\ 0 <= MaxOutput /\ 0 <= MaxWire
  BY ConstantTypes, EmptySeq
<1>2. OutputShape'
  BY <1>1 DEF Disconnected, OutputShape
<1>3. ServerShape'
  BY <1>1 DEF Disconnected, ServerShape, Accounts
<1> QED
  BY <1>2, <1>3 DEF Disconnected

LEMMA NextDelay ==
    ASSUME TransportShape
    PROVE  /\ Delays[Least(reconnectIndex + 1, Len(Delays))] \in Nat
           /\ Least(reconnectIndex + 1, Len(Delays) - 1) \in 0..(Len(Delays) - 1)
<1>1. Least(reconnectIndex + 1, Len(Delays)) \in 1..Len(Delays)
  BY ConstantTypes DEF TransportShape, Least
<1>2. Delays[Least(reconnectIndex + 1, Len(Delays))] \in Nat
  BY <1>1, ConstantTypes
<1>3. Least(reconnectIndex + 1, Len(Delays) - 1) \in 0..(Len(Delays) - 1)
  BY ConstantTypes DEF TransportShape, Least
<1> QED
  BY <1>2, <1>3

LEMMA BacksOff == TransportShape /\ Backoff => TransportShape' /\ state' = "BACKOFF"
BY NextDelay, ConstantTypes DEF Backoff, TransportShape, States

LEMMA Stops == TransportShape /\ FinishStop => TransportShape' /\ state' = "STOPPED"
BY ConstantTypes DEF FinishStop, TransportShape, States

LEMMA Fails ==
    ASSUME Core, FailConnection
    PROVE  Core' /\ state' = (IF state = "STOPPING" THEN "STOPPED" ELSE "BACKOFF")
<1>1. OutputShape' /\ ServerShape' /\ ~stream' /\ output' = <<>>
  BY Disconnects DEF FailConnection
<1>2. TransportShape' /\ state' = (IF state = "STOPPING" THEN "STOPPED" ELSE "BACKOFF")
  BY BacksOff, Stops DEF Core, FailConnection
<1>3. StreamMatchesState'
  BY <1>1, <1>2 DEF StreamMatchesState, Connected, Handshake
<1> QED
  BY <1>1, <1>2, <1>3 DEF Core

LEMMA Connects ==
    ASSUME Core, state \in {"NEW", "BACKOFF"}, Connect
    PROVE  Core' /\ state' \in {"REGISTERING", "BACKOFF"}
<1>1. ~stream /\ output = <<>>
  BY DEF Core, StreamMatchesState, Connected, Handshake
<1>2. CASE Registration
  <2>1. TransportShape' /\ state' = "REGISTERING"
    BY <1>2, ConstantTypes DEF Core, Registration, TransportShape, States, Me
  <2>2. output' \in Seq(ClientLines) /\ Len(output') = 2
    BY <1>2, ClientSays DEF Registration, Me
  <2>3. OutputShape' /\ ServerShape'
    BY <1>2, <2>2 DEF Core, Registration, OutputShape, ServerShape, serverVars
  <2>4. StreamMatchesState'
    BY <1>2, <2>1 DEF Registration, StreamMatchesState, Connected, Handshake
  <2> QED
    BY <2>1, <2>3, <2>4 DEF Core
<1>3. CASE ~Registration
  <2>1. /\ nickname' = "primary" /\ state' = "BACKOFF" /\ joined' = {}
        /\ timer' = Delays[Least(reconnectIndex + 1, Len(Delays))]
        /\ reconnectIndex' = Least(reconnectIndex + 1, Len(Delays) - 1)
        /\ silence' = 0 /\ UNCHANGED <<stream, output, serverVars>>
    BY <1>3 DEF Connect
  <2>2. TransportShape'
    BY <2>1, NextDelay, ConstantTypes DEF Core, TransportShape, States, Me
  <2>3. OutputShape' /\ ServerShape' /\ StreamMatchesState'
    BY <1>1, <2>1 DEF Core, OutputShape, ServerShape, StreamMatchesState, Connected, Handshake,
                      serverVars
  <2> QED
    BY <2>1, <2>2, <2>3 DEF Core
<1> QED
  BY <1>2, <1>3

LEMMA Sends ==
    ASSUME OutputShape, NEW lines \in Seq(ClientLines), Fits(lines)
    PROVE  output \o lines \in Seq(ClientLines) /\ Len(output \o lines) <= MaxOutput
BY ConcatProperties DEF OutputShape, Fits

LEMMA SendsOne ==
    ASSUME OutputShape, NEW l \in ClientLines, Fits(<<l>>)
    PROVE  Append(output, l) \in Seq(ClientLines) /\ Len(Append(output, l)) <= MaxOutput
<1>1. Len(<<l>>) = 1
  OBVIOUS
<1> QED
  BY <1>1, AppendProperties DEF OutputShape, Fits

LEMMA StopTransportInv ==
    ASSUME Core, StopTransport
    PROVE  /\ Core'
           /\ state = "STOPPING" => state' = "STOPPING"
           /\ state = "STOPPED" => state' = "STOPPED"
<1>1. CASE /\ state \in {"NEW", "BACKOFF"} /\ FinishStop
           /\ UNCHANGED <<stream, output, serverVars>>
  <2>1. TransportShape' /\ state' = "STOPPED"
    BY <1>1, Stops DEF Core
  <2>2. OutputShape' /\ ServerShape' /\ StreamMatchesState'
    BY <1>1, <2>1 DEF Core, OutputShape, ServerShape, StreamMatchesState, Connected, Handshake,
                      serverVars
  <2> QED
    BY <1>1, <2>1, <2>2 DEF Core
<1>2. CASE /\ state \in Handshake \cup {"READY"} /\ Fits(<<Plain("QUIT")>>)
           /\ state' = "STOPPING" /\ timer' = StopTimeout /\ output' = Append(output, Plain("QUIT"))
           /\ UNCHANGED <<nickname, joined, reconnectIndex, silence, stream, serverVars>>
  <2>1. TransportShape'
    BY <1>2, ConstantTypes DEF Core, TransportShape, States
  <2>2. output' \in Seq(ClientLines) /\ Len(output') <= MaxOutput
    BY <1>2, SendsOne, ClientSays DEF Core
  <2>3. OutputShape' /\ ServerShape'
    BY <1>2, <2>2 DEF Core, OutputShape, ServerShape, serverVars
  <2>4. StreamMatchesState'
    BY <1>2 DEF Core, StreamMatchesState, Connected, Handshake
  <2> QED
    BY <1>2, <2>1, <2>3, <2>4 DEF Core, Handshake
<1>3. CASE state \in Handshake \cup {"READY"} /\ Disconnected /\ FinishStop
  <2>1. OutputShape' /\ ServerShape' /\ ~stream' /\ output' = <<>>
    BY <1>3, Disconnects
  <2>2. TransportShape' /\ state' = "STOPPED"
    BY <1>3, Stops DEF Core
  <2>3. StreamMatchesState'
    BY <2>1, <2>2 DEF StreamMatchesState, Connected, Handshake
  <2> QED
    BY <1>3, <2>1, <2>2, <2>3 DEF Core, Handshake
<1>4. CASE UNCHANGED <<transportVars, stream, output, serverVars>>
  BY <1>4, NothingHappens DEF Same, transportVars, serverVars
<1> QED
  BY <1>1, <1>2, <1>3, <1>4 DEF StopTransport

-----------------------------------------------------------------------------
(* Calls and polls. *)

(* What a step keeps, and where it may take the session. *)
Allowed == Core' /\ (state = "STOPPING" => state' \in {"STOPPING", "STOPPED"})
                 /\ (state = "STOPPED" => state' = "STOPPED")

LEMMA StartInv == IInv /\ Start => Allowed /\ PollShape'
<1> SUFFICES ASSUME IInv, Start PROVE Allowed /\ PollShape'
  OBVIOUS
<1>1. Core' /\ state = "NEW"
  BY Connects DEF IInv, Start
<1> QED
  BY <1>1 DEF IInv, Start, PollShape, Allowed

LEMMA StopSessionInv == IInv /\ StopSession => Allowed /\ PollShape'
BY StopTransportInv DEF IInv, StopSession, PollShape, Allowed

LEMMA QueueInv == IInv /\ QueueApplication => Allowed /\ PollShape'
<1> SUFFICES ASSUME IInv, QueueApplication PROVE Allowed /\ PollShape'
  OBVIOUS
<1>1. stream /\ state = "READY" /\ Fits(<<Plain("NOTICE")>>)
      /\ output' = Append(output, Plain("NOTICE"))
      /\ UNCHANGED <<transportVars, stream, phase, messages, serverVars>>
  BY DEF QueueApplication, Sendable
<1>2. output' \in Seq(ClientLines) /\ Len(output') <= MaxOutput
  BY <1>1, SendsOne, ClientSays DEF IInv, Core
<1> QED
  BY <1>1, <1>2 DEF IInv, Core, PollShape, Allowed, TransportShape, OutputShape, ServerShape,
                    StreamMatchesState, transportVars, serverVars

LEMMA Flushes ==
    ASSUME IInv, NEW from, NEW to, Flush(from, to)
    PROVE  Allowed /\ PollShape'
<1>0. phase' = to
  BY DEF Flush
<1>1. CASE \E n \in 0..Least(Len(output), MaxWire - Len(toServer)) :
              /\ toServer' = toServer \o SubSeq(output, 1, n)
              /\ output' = SubSeq(output, n + 1, Len(output))
              /\ UNCHANGED <<transportVars, stream, messages, toClient, account, members>>
  <2>1. PICK n \in 0..Least(Len(output), MaxWire - Len(toServer)) :
              /\ toServer' = toServer \o SubSeq(output, 1, n)
              /\ output' = SubSeq(output, n + 1, Len(output))
              /\ UNCHANGED <<transportVars, stream, messages, toClient, account, members>>
    BY <1>1
  <2>2. /\ Len(output) \in Nat /\ Len(toServer) \in Nat /\ MaxWire \in Nat
        /\ output \in Seq(ClientLines) /\ toServer \in Seq(ClientLines)
    BY ConstantTypes DEF IInv, Core, OutputShape, ServerShape
  <2>3. n \in Nat /\ n <= Len(output) /\ Len(toServer) + n <= MaxWire
    BY <2>2, ConstantTypes DEF Least, IInv, Core, ServerShape
  <2>4. SubSeq(output, 1, n) \in Seq(ClientLines) /\ Len(SubSeq(output, 1, n)) = n
    <3>1. \A i \in 1..n : output[i] \in ClientLines
      BY <2>2, <2>3, ElementOfSeq
    <3> QED
      BY <2>3, <3>1, SubSeqProperties
  <2>5. output' \in Seq(ClientLines) /\ Len(output') <= Len(output)
    <3>1. \A i \in n+1..Len(output) : output[i] \in ClientLines
      BY <2>2, <2>3, ElementOfSeq
    <3>2. SubSeq(output, n + 1, Len(output)) \in Seq(ClientLines)
          /\ Len(SubSeq(output, n + 1, Len(output))) = (IF n + 1 <= Len(output)
                                                        THEN Len(output) - (n + 1) + 1 ELSE 0)
      BY <2>2, <2>3, <3>1, SubSeqProperties
    <3> QED
      BY <2>1, <2>2, <2>3, <3>2
  <2>6. toServer' \in Seq(ClientLines) /\ Len(toServer') <= MaxWire
    BY <2>1, <2>2, <2>3, <2>4, ConcatProperties
  <2>7. /\ output = <<>> => output' = <<>>
        /\ ~stream => toServer' = <<>>
    <3>1. output = <<>> => Len(output) = 0
      BY EmptySeq
    <3>2. output' = <<>> \/ Len(output') # 0
      BY <2>5, EmptySeq
    <3>3. toServer' = <<>> \/ Len(toServer') # 0
      BY <2>6, EmptySeq
    <3>4. ~stream => n = 0 /\ toServer = <<>> /\ Len(toServer) = 0
      BY <2>2, <2>3, <3>1, EmptySeq DEF IInv, Core, StreamMatchesState, ServerShape
    <3>5. Len(toServer') = Len(toServer) + n
      BY <2>1, <2>2, <2>4, ConcatProperties
    <3> QED
      BY <2>2, <2>5, <2>6, <3>1, <3>2, <3>3, <3>4, <3>5
  <2>8. OutputShape' /\ ServerShape'
    <3>1. OutputShape'
      BY <2>1, <2>2, <2>5, ConstantTypes DEF IInv, Core, OutputShape
    <3>2. ServerShape'
      BY <2>1, <2>6, <2>7 DEF IInv, Core, ServerShape
    <3> QED
      BY <3>1, <3>2
  <2>9. TransportShape' /\ StreamMatchesState' /\ state' = state
    BY <2>1, <2>7 DEF IInv, Core, TransportShape, StreamMatchesState, transportVars
  <2> QED
    BY <1>0, <2>1, <2>8, <2>9 DEF IInv, Core, Allowed, PollShape
<1>2. CASE output # <<>> /\ FailConnection /\ UNCHANGED messages
  <2>1. Core' /\ state' = (IF state = "STOPPING" THEN "STOPPED" ELSE "BACKOFF")
    BY <1>2, Fails DEF IInv
  <2>2. state # "STOPPED"
    BY <1>2 DEF IInv, Core, StreamMatchesState, Connected, Handshake
  <2> QED
    BY <1>0, <1>2, <2>1, <2>2 DEF IInv, Allowed, PollShape
<1> QED
  BY <1>1, <1>2 DEF Flush

LEMMA DeliverInv == IInv /\ Deliver => Allowed /\ PollShape'
<1> SUFFICES ASSUME IInv, Deliver PROVE Allowed /\ PollShape'
  OBVIOUS
<1>1. Same /\ phase' = "idle" /\ messages' = <<>>
  BY DEF Deliver, Same, transportVars, serverVars
<1>2. Core' /\ state' = state
  BY <1>1, NothingHappens DEF IInv, Same
<1> QED
  BY <1>1, <1>2, EmptySeq DEF Allowed, PollShape

LEMMA BeginPollInv == IInv /\ BeginPoll => Allowed /\ PollShape'
<1> SUFFICES ASSUME IInv, BeginPoll PROVE Allowed /\ PollShape'
  OBVIOUS
<1>1. PICK elapsed \in 1..MaxElapse :
         /\ timer' = IF timer > elapsed THEN timer - elapsed ELSE 0
         /\ silence' = IF state = "READY" THEN Least(silence + elapsed, IdleTimeout) ELSE 0
  BY DEF BeginPoll
<1>2. TransportShape'
  BY <1>1, ConstantTypes DEF IInv, Core, BeginPoll, TransportShape, Least
<1> QED
  BY <1>2 DEF IInv, Core, BeginPoll, PollShape, Allowed, OutputShape, ServerShape,
              StreamMatchesState, serverVars

LEMMA TickInv == IInv /\ Tick => Allowed /\ PollShape'
<1> SUFFICES ASSUME IInv, Tick PROVE Allowed /\ PollShape'
  OBVIOUS
<1>1. PollShape'
  BY DEF IInv, Tick, PollShape
<1>2. CASE ReconnectDue /\ Connect
  BY <1>1, <1>2, Connects DEF IInv, ReconnectDue, Allowed
<1>3. CASE (DeadlinePassed \/ PeerSilent) /\ FailConnection
  <2>1. state # "STOPPED"
    BY <1>3 DEF DeadlinePassed, PeerSilent, Handshake
  <2> QED
    BY <1>1, <1>3, <2>1, Fails DEF IInv, Allowed
<1>4. CASE UNCHANGED <<transportVars, stream, output, serverVars>>
  <2>1. Core'
    BY <1>4, NothingHappens DEF IInv, Same, transportVars, serverVars
  <2> QED
    BY <1>1, <1>4, <2>1 DEF Allowed, transportVars
<1> QED
  BY <1>2, <1>3, <1>4 DEF Tick

-----------------------------------------------------------------------------
(* Lines of the server. *)

LEMMA Replies ==
    ASSUME IInv, NEW line \in ServerLines
    PROVE  ReplyTo(line) \in Seq(ClientLines)
<1>1. CASE line.verb = "PING"
  <2>1. ReplyTo(line) = <<Plain("PONG")>>
    BY <1>1 DEF ReplyTo
  <2> QED
    BY <2>1, ClientSays, OneLine
<1>2. CASE line.verb = "433" /\ state = "REGISTERING" /\ nickname = "primary"
  <2>1. ReplyTo(line) = <<Line("NICK", "fallback", "none")>>
    BY <1>2 DEF ReplyTo
  <2> QED
    BY <2>1, ClientSays, OneLine DEF Me
<1>3. CASE line.verb = "001" /\ state = "REGISTERING"
  <2>1. ReplyTo(line) = [i \in 1..Len(ChannelList) |-> Line("JOIN", nickname, ChannelList[i])]
    BY <1>3 DEF ReplyTo
  <2>2. \A i \in 1..Len(ChannelList) : Line("JOIN", nickname, ChannelList[i]) \in ClientLines
    BY ConstantTypes, ClientSays DEF IInv, Core, TransportShape
  <2> QED
    BY <2>1, <2>2, ConstantTypes
<1>4. CASE line.verb = "KICK" /\ state = "READY" /\ line.channel \in joined
  <2>1. ReplyTo(line) = <<Line("JOIN", nickname, line.channel)>>
    BY <1>4 DEF ReplyTo
  <2>2. Line("JOIN", nickname, line.channel) \in ClientLines
    BY <1>4, ClientSays DEF IInv, Core, TransportShape
  <2> QED
    BY <2>1, <2>2, OneLine
<1>5. CASE /\ line.verb # "PING"
           /\ ~(line.verb = "433" /\ state = "REGISTERING" /\ nickname = "primary")
           /\ ~(line.verb = "001" /\ state = "REGISTERING")
           /\ ~(line.verb = "KICK" /\ state = "READY" /\ line.channel \in joined)
  <2>1. ReplyTo(line) = <<>>
    BY <1>5 DEF ReplyTo
  <2> QED
    BY <2>1, EmptySeq
<1> QED
  BY <1>1, <1>2, <1>3, <1>4, <1>5

(* A line that is taken leaves the buffers in shape. *)
LEMMA Receives ==
    ASSUME IInv, NEW verb \in Verbs, Receive(verb)
    PROVE  /\ Head(toClient) \in ServerLines /\ Head(toClient).verb = verb
           /\ OutputShape' /\ ServerShape' /\ PollShape' /\ silence' = 0
           /\ stream /\ stream' = stream
<1>1. Head(toClient) \in ServerLines /\ Tail(toClient) \in Seq(ServerLines)
      /\ Len(Tail(toClient)) = Len(toClient) - 1 /\ Len(toClient) \in Nat
  BY HeadTailProperties DEF IInv, Core, ServerShape, Receive
<1>2. ReplyTo(Head(toClient)) \in Seq(ClientLines)
  BY <1>1, Replies
<1>3. output' \in Seq(ClientLines) /\ Len(output') <= MaxOutput
  BY <1>2, Sends DEF IInv, Core, Receive
<1>4. messages' \in Seq(Verbs)
  <2>1. messages \in Seq(Verbs)
    BY DEF IInv, PollShape
  <2>2. Append(messages, verb) \in Seq(Verbs)
    BY <2>1, AppendProperties
  <2> QED
    BY <2>1, <2>2 DEF Receive
<1>5. stream
  BY DEF IInv, Core, OutputShape, ServerShape, Receive
<1>6. OutputShape' /\ stream' = stream
  BY <1>3 DEF IInv, Core, OutputShape, Receive
<1>7. ServerShape'
  BY <1>1, <1>5, ConstantTypes DEF IInv, Core, ServerShape, Receive
<1>8. PollShape' /\ silence' = 0
  BY <1>4 DEF IInv, PollShape, Receive
<1> QED
  BY <1>1, <1>5, <1>6, <1>7, <1>8 DEF Receive

(* What the transport makes of a line is a matter of the transport alone. *)
LEMMA Answered ==
    ASSUME IInv, NEW verb \in Verbs, Receive(verb), TransportShape', state' \in Connected,
           state \notin {"STOPPING", "STOPPED"} \/ state' = state
    PROVE  Allowed /\ PollShape'
<1>1. OutputShape' /\ ServerShape' /\ PollShape' /\ stream /\ stream' = stream
  BY Receives
<1>2. StreamMatchesState'
  BY <1>1 DEF StreamMatchesState
<1> QED
  BY <1>1, <1>2 DEF Allowed, Core

LEMMA Silent == ASSUME IInv, NEW verb \in Verbs, Receive(verb) PROVE silence' \in 0..IdleTimeout
BY Receives, ConstantTypes

LEMMA ConnectedNow == ASSUME IInv, NEW verb \in Verbs, Receive(verb) PROVE state \in Connected
BY Receives DEF IInv, Core, StreamMatchesState

LEMMA NicknameInUseInv == IInv /\ ReceiveNicknameInUse => Allowed /\ PollShape'
<1> SUFFICES ASSUME IInv, ReceiveNicknameInUse PROVE Allowed /\ PollShape'
  OBVIOUS
<1>1. Receive("433") /\ "433" \in Verbs
  BY DEF ReceiveNicknameInUse, Verbs
<1>2. TransportShape' /\ state' = state /\ state = "REGISTERING"
  BY <1>1, Silent DEF IInv, Core, TransportShape, ReceiveNicknameInUse, Me
<1> QED
  BY <1>1, <1>2, Answered DEF Connected, Handshake

LEMMA WelcomeInv == IInv /\ ReceiveWelcome => Allowed /\ PollShape'
<1> SUFFICES ASSUME IInv, ReceiveWelcome PROVE Allowed /\ PollShape'
  OBVIOUS
<1>1. Receive("001") /\ "001" \in Verbs
  BY DEF ReceiveWelcome, Verbs
<1>2. TransportShape' /\ state' = "JOINING" /\ state = "REGISTERING"
  BY <1>1, Silent, ConstantTypes DEF IInv, Core, TransportShape, ReceiveWelcome, States
<1> QED
  BY <1>1, <1>2, Answered DEF Connected, Handshake

LEMMA JoinInv == IInv /\ ReceiveJoin => Allowed /\ PollShape'
<1> SUFFICES ASSUME IInv, ReceiveJoin PROVE Allowed /\ PollShape'
  OBVIOUS
<1>1. Receive("JOIN") /\ "JOIN" \in Verbs
  BY DEF ReceiveJoin, Verbs
<1>2. Head(toClient).channel \in Channels
  BY <1>1, Receives DEF ServerLines
<1>3. TransportShape' /\ state' \in {state, "READY"} /\ state \in {"JOINING", "READY"}
  BY <1>1, <1>2, Silent, ConstantTypes DEF IInv, Core, TransportShape, ReceiveJoin, States
<1> QED
  BY <1>1, <1>3, Answered DEF Connected, Handshake

LEMMA KickInv == IInv /\ ReceiveKick => Allowed /\ PollShape'
<1> SUFFICES ASSUME IInv, ReceiveKick PROVE Allowed /\ PollShape'
  OBVIOUS
<1>1. Receive("KICK") /\ "KICK" \in Verbs
  BY DEF ReceiveKick, Verbs
<1>2. TransportShape' /\ state' = "JOINING" /\ state = "READY"
  BY <1>1, Silent, ConstantTypes DEF IInv, Core, TransportShape, ReceiveKick, States
<1> QED
  BY <1>1, <1>2, Answered DEF Connected, Handshake

LEMMA OtherInv == IInv /\ ReceiveOther => Allowed /\ PollShape'
<1> SUFFICES ASSUME IInv, ReceiveOther PROVE Allowed /\ PollShape'
  OBVIOUS
<1>1. PICK verb \in Verbs : Receive(verb)
  BY DEF ReceiveOther, Verbs
<1>2. TransportShape' /\ state' = state
  BY <1>1, Silent DEF IInv, Core, TransportShape, ReceiveOther
<1> QED
  BY <1>1, <1>2, Answered, ConnectedNow

LEMMA FailureInv == IInv /\ ReceiveFailure => Allowed /\ PollShape'
<1> SUFFICES ASSUME IInv, ReceiveFailure PROVE Allowed /\ PollShape'
  OBVIOUS
<1>1. /\ Core' /\ state' = (IF state = "STOPPING" THEN "STOPPED" ELSE "BACKOFF")
      /\ stream /\ phase' = phase
  BY Fails DEF IInv, ReceiveFailure
<1>2. state # "STOPPED"
  BY <1>1 DEF IInv, Core, StreamMatchesState, Connected, Handshake
<1>3. messages' \in Seq(Verbs)
  <2>1. CASE UNCHANGED messages
    BY <2>1 DEF IInv, PollShape
  <2>2. CASE toClient # <<>> /\ messages' \in {Append(messages, Head(toClient).verb), messages}
    <3>1. Head(toClient) \in ServerLines
      BY <2>2, HeadTailProperties DEF IInv, Core, ServerShape
    <3>2. Head(toClient).verb \in Verbs
      BY <3>1 DEF ServerLines, Lines
    <3> QED
      BY <2>2, <3>2, AppendProperties DEF IInv, PollShape
  <2> QED
    BY <2>1, <2>2 DEF ReceiveFailure
<1> QED
  BY <1>1, <1>2, <1>3 DEF IInv, Allowed, PollShape

-----------------------------------------------------------------------------
(* The server. *)

LEMMA Pushes ==
    ASSUME ServerShape, NEW l \in ServerLines, Push(<<l>>)
    PROVE  toClient' \in Seq(ServerLines) /\ Len(toClient') <= MaxWire
<1>1. <<l>> \in Seq(ServerLines)
  BY OneLine
<1> QED
  BY <1>1, ConcatProperties DEF ServerShape, Push

LEMMA Welcomes ==
    ASSUME ServerShape, NEW who \in Me, ServerWelcome(who)
    PROVE  toClient' \in Seq(ServerLines) /\ Len(toClient') <= MaxWire /\ account' \in Accounts
<1>1. PICK given \in {who, "cut"} : account' = given /\ Push(<<Line("001", given, "none")>>)
  BY DEF ServerWelcome
<1>2. given \in Accounts
  BY DEF Accounts
<1> QED
  BY <1>1, <1>2, ServerSays, Pushes

(* The server moves, the client does not. *)
LEMMA ServerMoves ==
    ASSUME IInv, ServerShape', UNCHANGED <<transportVars, adapterVars>>
    PROVE  Allowed /\ PollShape'
BY DEF IInv, Core, Allowed, TransportShape, OutputShape, StreamMatchesState, PollShape,
       transportVars, adapterVars

LEMMA ReadsInv == IInv /\ ServerReads => Allowed /\ PollShape'
<1> SUFFICES ASSUME IInv, ServerReads PROVE Allowed /\ PollShape'
  OBVIOUS
<1> DEFINE line == Head(toServer)
<1>1. ServerShape /\ stream /\ UNCHANGED <<transportVars, adapterVars>>
  BY DEF IInv, Core, OutputShape, ServerShape, ServerReads
<1>2. /\ line \in ClientLines /\ toServer' \in Seq(ClientLines) /\ Len(toServer') <= MaxWire
  <2>1. Len(toServer) \in Nat /\ Len(Tail(toServer)) = Len(toServer) - 1
        /\ Tail(toServer) \in Seq(ClientLines) /\ Head(toServer) \in ClientLines
    BY HeadTailProperties DEF IInv, Core, ServerShape, ServerReads
  <2> QED
    BY <2>1, ConstantTypes DEF IInv, Core, ServerShape, ServerReads
<1>3. /\ toClient' \in Seq(ServerLines) /\ Len(toClient') <= MaxWire
      /\ account' \in Accounts /\ members' \subseteq Channels
  <2>1. CASE line.verb = "NICK" /\ UNCHANGED members
             /\ \/ account = "none" /\ account' = line.who /\ UNCHANGED toClient
                \/ account = "anonymous" /\ ServerWelcome(line.who)
                \/ Push(<<Plain("433")>>) /\ UNCHANGED account
    <3>1. line.who \in Me
      BY <1>2, <2>1 DEF ClientLines
    <3> QED
      BY <1>1, <2>1, <3>1, Welcomes, Pushes, ServerSays DEF ServerShape, Accounts
  <2>2. CASE line.verb = "USER" /\ UNCHANGED members
             /\ IF account \in Me THEN ServerWelcome(account)
                ELSE account' = "anonymous" /\ UNCHANGED toClient
    BY <1>1, <2>2, Welcomes DEF ServerShape, Accounts
  <2>3. CASE line.verb = "JOIN" /\ UNCHANGED account
             /\ \/ /\ members' = members \cup {line.channel}
                   /\ Push(<<Line("JOIN", account, line.channel)>>)
                \/ UNCHANGED <<members, toClient>>
    <3>1. line.channel \in Channels
      BY <1>2, <2>3 DEF ClientLines
    <3>2. Line("JOIN", account, line.channel) \in ServerLines
      BY <1>1, <3>1, ServerSays DEF ServerShape
    <3> QED
      BY <1>1, <2>3, <3>1, <3>2, Pushes DEF ServerShape
  <2>4. CASE members' = {} /\ account' = "closed" /\ Push(<<Plain("ERROR")>>)
    BY <1>1, <2>4, Pushes, ServerSays DEF Accounts
  <2>5. CASE UNCHANGED <<account, members, toClient>>
    BY <1>1, <2>5 DEF ServerShape
  <2> QED
    BY <2>1, <2>2, <2>3, <2>4, <2>5 DEF ServerReads
<1>4. ServerShape'
  BY <1>1, <1>2, <1>3 DEF ServerShape, adapterVars
<1> QED
  BY <1>1, <1>4, ServerMoves

LEMMA SpeaksInv == IInv /\ ServerSpeaks => Allowed /\ PollShape'
<1> SUFFICES ASSUME IInv, ServerSpeaks PROVE Allowed /\ PollShape'
  OBVIOUS
<1>1. ServerShape /\ stream /\ UNCHANGED <<transportVars, adapterVars, toServer, account>>
  BY DEF IInv, Core, OutputShape, ServerShape, ServerSpeaks, Me
<1>2. toClient' \in Seq(ServerLines) /\ Len(toClient') <= MaxWire /\ members' \subseteq Channels
  <2>1. CASE UNCHANGED members /\ \E verb \in Chatter : Push(<<Plain(verb)>>)
    BY <1>1, <2>1, Pushes, ServerSays, ConstantTypes DEF ServerShape
  <2>2. CASE \E channel \in members :
                members' = members \ {channel} /\ Push(<<Line("KICK", account, channel)>>)
    <3>1. PICK channel \in members :
             members' = members \ {channel} /\ Push(<<Line("KICK", account, channel)>>)
      BY <2>2
    <3>2. Line("KICK", account, channel) \in ServerLines
      BY <1>1, ServerSays DEF ServerShape
    <3> QED
      BY <1>1, <3>1, <3>2, Pushes DEF ServerShape
  <2> QED
    BY <2>1, <2>2 DEF ServerSpeaks
<1>3. ServerShape'
  BY <1>1, <1>2 DEF ServerShape, adapterVars
<1> QED
  BY <1>1, <1>3, ServerMoves

LEMMA ClosesInv == IInv /\ ServerCloses => Allowed /\ PollShape'
<1> SUFFICES ASSUME IInv, ServerCloses PROVE Allowed /\ PollShape'
  OBVIOUS
<1>1. /\ ServerShape /\ stream /\ UNCHANGED <<transportVars, adapterVars>>
      /\ account' = "closed" /\ members' = {} /\ toServer' = <<>>
  BY DEF IInv, Core, ServerCloses
<1>2. toClient' \in Seq(ServerLines) /\ Len(toClient') <= MaxWire
  BY <1>1, Pushes, ServerSays DEF ServerShape, ServerCloses
<1>3. toServer' \in Seq(ClientLines) /\ Len(toServer') <= MaxWire
  BY <1>1, EmptySeq, ConstantTypes
<1>4. ServerShape'
  BY <1>1, <1>2, <1>3 DEF ServerShape, adapterVars, Accounts
<1> QED
  BY <1>1, <1>4, ServerMoves

-----------------------------------------------------------------------------
(* Theorems. *)

LEMMA InitInv == Init => IInv
<1> SUFFICES ASSUME Init PROVE IInv
  OBVIOUS
<1>1. TransportShape
  BY ConstantTypes DEF Init, TransportShape, States, Me
<1>2. /\ <<>> \in Seq(ClientLines) /\ <<>> \in Seq(ServerLines) /\ <<>> \in Seq(Verbs)
      /\ Len(<<>>) = 0 /\ 0 <= MaxOutput /\ 0 <= MaxWire
  BY ConstantTypes, EmptySeq
<1>3. OutputShape /\ ServerShape
  BY <1>2 DEF Init, OutputShape, ServerShape, Accounts
<1>4. StreamMatchesState
  BY DEF Init, StreamMatchesState, Connected, Handshake
<1>5. PollShape
  BY <1>2 DEF Init, PollShape
<1> QED
  BY <1>1, <1>3, <1>4, <1>5 DEF IInv, Core

LEMMA StepInv == IInv /\ [Next]_sessionVars => Allowed /\ PollShape'
<1> SUFFICES ASSUME IInv, [Next]_sessionVars PROVE Allowed /\ PollShape'
  OBVIOUS
<1>1. CASE PollFlush \/ EndFlush
  BY <1>1, Flushes DEF PollFlush, EndFlush
<1>2. CASE Client /\ ~(PollFlush \/ EndFlush)
  BY <1>2, StartInv, StopSessionInv, QueueInv, BeginPollInv, TickInv, DeliverInv,
     NicknameInUseInv, WelcomeInv, JoinInv, KickInv, OtherInv, FailureInv DEF Client
<1>3. CASE Server
  BY <1>3, ReadsInv, SpeaksInv, ClosesInv DEF Server
<1>4. CASE UNCHANGED sessionVars
  <2>1. ServerShape' /\ UNCHANGED <<transportVars, adapterVars>>
    BY <1>4 DEF sessionVars, serverVars, adapterVars, IInv, Core, ServerShape
  <2> QED
    BY <2>1, ServerMoves
<1> QED
  BY <1>1, <1>2, <1>3, <1>4 DEF Next

LEMMA AloneInv == Alone /\ [Next]_sessionVars => Alone'
<1> USE DEF Alone, FailConnection, Backoff, FinishStop, Connect, Registration
<1> SUFFICES ASSUME Alone, [Next]_sessionVars PROVE Alone'
  OBVIOUS
<1>1. CASE Start \/ StopSession \/ QueueApplication
  BY <1>1 DEF Start, StopSession, StopTransport, QueueApplication, transportVars
<1>2. CASE BeginPoll \/ Tick \/ Deliver
  BY <1>2 DEF BeginPoll, Tick, Deliver, transportVars
<1>3. CASE PollFlush \/ EndFlush
  BY <1>3 DEF PollFlush, EndFlush, Flush, transportVars
<1>4. CASE \/ ReceiveNicknameInUse \/ ReceiveWelcome \/ ReceiveJoin \/ ReceiveKick
           \/ ReceiveOther \/ ReceiveFailure
  BY <1>4 DEF Receive, ReceiveNicknameInUse, ReceiveWelcome, ReceiveJoin, ReceiveKick,
              ReceiveOther, ReceiveFailure
<1>5. CASE Server
  BY <1>5 DEF Server, ServerReads, ServerSpeaks, ServerCloses, transportVars, adapterVars
<1>6. CASE UNCHANGED sessionVars
  BY <1>6 DEF sessionVars, transportVars, adapterVars
<1> QED
  BY <1>1, <1>2, <1>3, <1>4, <1>5, <1>6 DEF Next, Client

(* Transport, adapter and server are in shape in every reachable state.    *)
THEOREM SessionInvariant == Spec => [](IInv /\ Alone)
<1>1. Init => Alone
  BY DEF Init, Alone
<1>2. IInv /\ [Next]_sessionVars => IInv'
  BY StepInv DEF IInv, Allowed
<1> QED
  BY InitInv, <1>1, <1>2, AloneInv, PTL DEF Spec

LEMMA WiderLines ==
    ASSUME NEW s PROVE s \in Seq(ClientLines) \/ s \in Seq(ServerLines) => s \in Seq(Lines)
<1>1. ClientLines \subseteq Lines /\ ServerLines \subseteq Lines
  BY DEF ClientLines, ServerLines
<1> QED
  BY <1>1, SeqMonotonic

(* Every variable of a session has its type: buffers are bounded, timers    *)
(* and the index of the reconnect delays are in range.                      *)
THEOREM SessionTypeOK == Spec => []TypeOK
<1>1. IInv /\ Alone => TypeOK
  BY WiderLines DEF Alone, IInv, Core, TransportShape, OutputShape, ServerShape, PollShape, TypeOK
<1> QED
  BY <1>1, SessionInvariant, PTL

(* Between two steps the adapter holds a stream exactly in the states in    *)
(* which the transport may receive, send or lose one, and nothing waits to  *)
(* be sent without one (IRCSocketAdapter, IRCTransport).                    *)
THEOREM SessionStream == Spec => []StreamMatchesState
<1>1. IInv => StreamMatchesState
  BY DEF IInv, Core
<1> QED
  BY <1>1, SessionInvariant, PTL

(* After stop the session only ends (IRCTransport.stop).                    *)
THEOREM SessionQuit == Spec => QuitIsFinal
<1>1. IInv /\ [Next]_sessionVars =>
        [/\ state = "STOPPING" => state' \in {"STOPPING", "STOPPED"}
         /\ state = "STOPPED" => state' = "STOPPED"]_sessionVars
  BY StepInv DEF Allowed
<1> QED
  BY <1>1, SessionInvariant, PTL DEF Spec, QuitIsFinal

-----------------------------------------------------------------------------
(* READY is true of a bot with one channel.  The lines under way from the   *)
(* server lead from what the transport holds to be joined to what the       *)
(* server does: every JOIN enters the channel and every KICK leaves it, so  *)
(* they alternate.  Until the welcome there are none, nor a JOIN that asks  *)
(* for one.                                                                 *)

Asked == {l \in ClientLines : l.verb # "JOIN"}
Quiet == {l \in ServerLines : l.verb \notin {"JOIN", "KICK"}}

\* What a line of the server makes of the channels the bot is in.
Turns(l, before, after) ==
    IF l.verb = "JOIN" THEN before = {} /\ after = Channels
    ELSE IF l.verb = "KICK" THEN before = Channels /\ after = {}
    ELSE after = before

Leads(s, from, to) ==
    \E f \in [0..Len(s) -> SUBSET Channels] :
        /\ f[0] = from /\ f[Len(s)] = to
        /\ \A i \in 1..Len(s) : Turns(s[i], f[i - 1], f[i])

Membership ==
    /\ ~stream => members = {}
    /\ state = "REGISTERING" =>
          /\ joined = {} /\ members = {}
          /\ output \in Seq(Asked) /\ toServer \in Seq(Asked) /\ toClient \in Seq(Quiet)
    /\ state = "JOINING" => joined = {}
    /\ state = "READY" => joined = Channels
    /\ state \in {"JOINING", "READY"} /\ account # "closed" => Leads(toClient, joined, members)

LEMMA LeadsQuietly ==
    ASSUME NEW s \in Seq(Quiet), NEW a \in SUBSET Channels
    PROVE  Leads(s, a, a)
<1> DEFINE f == [i \in 0..Len(s) |-> a]
<1>1. Len(s) \in Nat /\ f \in [0..Len(s) -> SUBSET Channels]
  OBVIOUS
<1>2. f[0] = a /\ f[Len(s)] = a
  BY <1>1
<1>3. ASSUME NEW i \in 1..Len(s) PROVE Turns(s[i], f[i - 1], f[i])
  <2>1. s[i] \in Quiet
    BY ElementOfSeq
  <2>2. f[i - 1] = a /\ f[i] = a
    BY <1>1
  <2> QED
    BY <2>1, <2>2 DEF Turns, Quiet
<1> QED
  BY <1>1, <1>2, <1>3 DEF Leads

LEMMA LeadsNowhere == ASSUME NEW a, NEW b, Leads(<<>>, a, b) PROVE a = b
<1>1. Len(<<>>) = 0
  BY EmptySeq
<1> QED
  BY <1>1 DEF Leads

(* The first line is taken. *)
LEMMA LeadsOn ==
    ASSUME NEW s \in Seq(ServerLines), s # <<>>, NEW a, NEW b, Leads(s, a, b)
    PROVE  \E c \in SUBSET Channels : Turns(Head(s), a, c) /\ Leads(Tail(s), c, b)
<1>1. PICK f \in [0..Len(s) -> SUBSET Channels] :
         /\ f[0] = a /\ f[Len(s)] = b
         /\ \A i \in 1..Len(s) : Turns(s[i], f[i - 1], f[i])
  BY DEF Leads
<1>2. /\ Len(s) \in Nat \ {0} /\ Head(s) = s[1] /\ Len(Tail(s)) = Len(s) - 1
      /\ \A i \in 1..Len(Tail(s)) : Tail(s)[i] = s[i + 1]
  BY HeadTailProperties, EmptySeq
<1> DEFINE g == [i \in 0..Len(Tail(s)) |-> f[i + 1]]
<1>3. g \in [0..Len(Tail(s)) -> SUBSET Channels]
  BY <1>2
<1>4. g[0] = f[1] /\ g[Len(Tail(s))] = b
  BY <1>1, <1>2
<1>5. ASSUME NEW i \in 1..Len(Tail(s)) PROVE Turns(Tail(s)[i], g[i - 1], g[i])
  <2>1. Tail(s)[i] = s[i + 1] /\ g[i - 1] = f[i] /\ g[i] = f[i + 1] /\ i + 1 \in 1..Len(s)
    BY <1>2
  <2>2. Turns(s[i + 1], f[(i + 1) - 1], f[i + 1]) /\ (i + 1) - 1 = i
    BY <1>1, <2>1
  <2> QED
    BY <2>1, <2>2
<1>6. Leads(Tail(s), f[1], b)
  <2> HIDE DEF g
  <2> QED
    BY <1>3, <1>4, <1>5 DEF Leads
<1>7. f[1] \in SUBSET Channels /\ Turns(Head(s), a, f[1])
  BY <1>1, <1>2
<1> QED
  BY <1>6, <1>7

(* A line is added. *)
LEMMA LeadsFurther ==
    ASSUME NEW s \in Seq(ServerLines), NEW l \in ServerLines, NEW a, NEW b, Leads(s, a, b),
           NEW c \in SUBSET Channels, Turns(l, b, c)
    PROVE  Leads(s \o <<l>>, a, c)
<1>1. PICK f \in [0..Len(s) -> SUBSET Channels] :
         /\ f[0] = a /\ f[Len(s)] = b
         /\ \A i \in 1..Len(s) : Turns(s[i], f[i - 1], f[i])
  BY DEF Leads
<1> DEFINE t == s \o <<l>>
<1>2. /\ Len(s) \in Nat /\ Len(t) = Len(s) + 1 /\ t[Len(s) + 1] = l
      /\ \A i \in 1..Len(s) : t[i] = s[i]
  BY OneLine, ConcatProperties
<1> DEFINE g == [i \in 0..Len(t) |-> IF i = Len(t) THEN c ELSE f[i]]
<1>3. g \in [0..Len(t) -> SUBSET Channels]
  BY <1>2
<1>4. g[0] = a /\ g[Len(t)] = c
  BY <1>1, <1>2
<1>5. ASSUME NEW i \in 1..Len(t) PROVE Turns(t[i], g[i - 1], g[i])
  <2>1. CASE i = Len(s) + 1
    <3>1. t[i] = l /\ g[i - 1] = b /\ g[i] = c
      BY <1>1, <1>2, <2>1
    <3> QED
      BY <3>1
  <2>2. CASE i \in 1..Len(s)
    <3>1. t[i] = s[i] /\ g[i - 1] = f[i - 1] /\ g[i] = f[i]
      BY <1>2, <2>2
    <3> QED
      BY <1>1, <2>2, <3>1
  <2> QED
    BY <1>2, <2>1, <2>2
<1> HIDE DEF g
<1> QED
  BY <1>3, <1>4, <1>5 DEF Leads

LEMMA OneName ==
    ASSUME Len(ChannelList) = 1
    PROVE  /\ Channels # {}
           /\ \A c \in Channels : Channels = {c}
BY DEF Channels

LEMMA AskedLines ==
    /\ Line("NICK", "primary", "none") \in Asked /\ Line("NICK", "fallback", "none") \in Asked
    /\ Plain("USER") \in Asked /\ Plain("PONG") \in Asked
BY ClientSays DEF Asked, Line, Plain, Me

LEMMA QuietLines ==
    /\ \A verb \in {"433", "ERROR", "EOF", "PING", "PRIVMSG", "NICK"} : Plain(verb) \in Quiet
    /\ \A who \in Accounts : Line("001", who, "none") \in Quiet
<1>1. \A verb \in {"433", "ERROR", "EOF", "PING", "PRIVMSG", "NICK"} : Plain(verb).verb = verb
  BY DEF Plain, Line
<1>2. \A who : Line("001", who, "none").verb = "001"
  BY DEF Line
<1> QED
  BY <1>1, <1>2, ServerSays DEF Quiet

(* The session ends: whatever it was, the server forgets the bot. *)
LEMMA MemberLost == Disconnected /\ state' \in {"BACKOFF", "STOPPED"} => Membership'
BY DEF Disconnected, Membership

LEMMA MemberFails == IInv /\ FailConnection => Membership'
<1> SUFFICES ASSUME IInv, FailConnection PROVE Membership'
  OBVIOUS
<1>1. state' \in {"BACKOFF", "STOPPED"} /\ Disconnected
  BY Fails DEF IInv, FailConnection
<1> QED
  BY <1>1, MemberLost

(* The server does not move, and the client asks for nothing new. *)
LEMMA MemberKept ==
    ASSUME Membership, UNCHANGED <<stream, toClient, account, members>>,
           (state' = state /\ joined' = joined)
             \/ state' \notin {"REGISTERING", "JOINING", "READY"},
           state' = "REGISTERING" => output' \in Seq(Asked) /\ toServer' \in Seq(Asked)
    PROVE  Membership'
BY DEF Membership

LEMMA MemberConnects ==
    ASSUME IInv, Membership, state \in {"NEW", "BACKOFF"}, Connect
    PROVE  Membership'
<1>1. ~stream /\ members = {} /\ toServer = <<>> /\ toClient = <<>>
  BY DEF IInv, Core, StreamMatchesState, ServerShape, Connected, Handshake, Membership
<1>2. CASE Registration
  <2>1. output' \in Seq(Asked) /\ <<>> \in Seq(Asked) /\ <<>> \in Seq(Quiet)
    BY <1>2, AskedLines, EmptySeq DEF Registration
  <2> QED
    BY <1>1, <1>2, <2>1 DEF Registration, Membership, serverVars
<1>3. CASE ~Registration
  <2>1. state' = "BACKOFF" /\ UNCHANGED <<stream, serverVars>>
    BY <1>3 DEF Connect
  <2> QED
    BY <2>1, MemberKept DEF serverVars
<1> QED
  BY <1>2, <1>3

LEMMA MemberStops == ASSUME IInv, Membership, StopTransport PROVE Membership'
<1>1. CASE state' \in {"STOPPED", "STOPPING"} /\ UNCHANGED <<stream, serverVars>>
  BY <1>1, MemberKept DEF serverVars
<1>2. CASE Disconnected /\ FinishStop
  BY <1>2, MemberLost DEF FinishStop
<1>3. CASE UNCHANGED <<transportVars, stream, output, serverVars>>
  BY <1>3, MemberKept DEF serverVars, transportVars, Membership
<1> QED
  BY <1>1, <1>2, <1>3 DEF StopTransport, FinishStop

LEMMA MemberFlushes ==
    ASSUME IInv, Membership, NEW from, NEW to, Flush(from, to)
    PROVE  Membership'
<1>1. CASE \E n \in 0..Least(Len(output), MaxWire - Len(toServer)) :
              /\ toServer' = toServer \o SubSeq(output, 1, n)
              /\ output' = SubSeq(output, n + 1, Len(output))
              /\ UNCHANGED <<transportVars, stream, messages, toClient, account, members>>
  <2>1. PICK n \in 0..Least(Len(output), MaxWire - Len(toServer)) :
              /\ toServer' = toServer \o SubSeq(output, 1, n)
              /\ output' = SubSeq(output, n + 1, Len(output))
              /\ UNCHANGED <<transportVars, stream, messages, toClient, account, members>>
    BY <1>1
  <2>2. Len(output) \in Nat /\ Len(toServer) \in Nat /\ MaxWire \in Nat
    BY ConstantTypes DEF IInv, Core, OutputShape, ServerShape
  <2>3. n \in Nat /\ n <= Len(output)
    BY <2>2 DEF Least
  <2>4. ASSUME output \in Seq(Asked), toServer \in Seq(Asked)
        PROVE  output' \in Seq(Asked) /\ toServer' \in Seq(Asked)
    <3>1. \A i \in 1..Len(output) : output[i] \in Asked
      BY <2>4, ElementOfSeq
    <3>2. SubSeq(output, 1, n) \in Seq(Asked)
      BY <2>2, <2>3, <2>4, <3>1, SubSeqProperties
    <3>3. SubSeq(output, n + 1, Len(output)) \in Seq(Asked)
      BY <2>2, <2>3, <2>4, <3>1, SubSeqProperties
    <3> QED
      BY <2>1, <2>4, <3>2, <3>3, ConcatProperties
  <2>5. state' = state /\ joined' = joined /\ UNCHANGED <<stream, toClient, account, members>>
    BY <2>1 DEF transportVars
  <2>6. state' = "REGISTERING" => output' \in Seq(Asked) /\ toServer' \in Seq(Asked)
    BY <2>4, <2>5 DEF Membership
  <2> QED
    BY <2>5, <2>6, MemberKept
<1>2. CASE FailConnection
  BY <1>2, MemberFails
<1> QED
  BY <1>1, <1>2 DEF Flush

(* A call, or the timers of a poll. *)
LEMMA MemberCalls ==
    ASSUME IInv, Membership,
           Start \/ StopSession \/ QueueApplication \/ BeginPoll \/ Tick \/ Deliver
    PROVE  Membership'
<1>1. CASE Start
  BY <1>1, MemberConnects DEF Start
<1>2. CASE StopSession
  BY <1>2, MemberStops DEF StopSession
<1>3. CASE QueueApplication
  <2>1. state = "READY" /\ UNCHANGED <<transportVars, stream, serverVars>>
    BY <1>3 DEF QueueApplication, Sendable
  <2> QED
    BY <2>1, MemberKept DEF transportVars, serverVars
<1>4. CASE BeginPoll
  BY <1>4, MemberKept DEF BeginPoll, serverVars, Membership
<1>5. CASE Tick
  <2>1. CASE ReconnectDue /\ Connect
    BY <2>1, MemberConnects DEF ReconnectDue
  <2>2. CASE FailConnection
    BY <2>2, MemberFails
  <2>3. CASE UNCHANGED <<transportVars, stream, output, serverVars>>
    BY <2>3, MemberKept DEF serverVars, transportVars, Membership
  <2> QED
    BY <1>5, <2>1, <2>2, <2>3 DEF Tick
<1>6. CASE Deliver
  BY <1>6, MemberKept DEF Deliver, serverVars, transportVars, Membership
<1> QED
  BY <1>1, <1>2, <1>3, <1>4, <1>5, <1>6

(* A line is read while registering: nothing is asked before the welcome. *)
LEMMA MemberRegisters ==
    ASSUME IInv, Membership, NEW verb \in Verbs, Receive(verb), state = "REGISTERING"
    PROVE  /\ Tail(toClient) \in Seq(Quiet) /\ verb \notin {"JOIN", "KICK"}
           /\ verb # "001" => output' \in Seq(Asked)
<1>1. toClient \in Seq(Quiet) /\ toClient # <<>> /\ output \in Seq(Asked)
  BY DEF Membership, Receive
<1>2. Head(toClient) \in Quiet /\ Tail(toClient) \in Seq(Quiet) /\ Head(toClient).verb = verb
  BY <1>1, HeadTailProperties DEF Receive
<1>3. verb # "001" => ReplyTo(Head(toClient)) \in Seq(Asked)
  <2>1. verb # "001" => ReplyTo(Head(toClient)) \in
                          {<<Plain("PONG")>>, <<Line("NICK", "fallback", "none")>>, <<>>}
    BY <1>2 DEF ReplyTo, Quiet
  <2>2. /\ <<Plain("PONG")>> \in Seq(Asked) /\ <<>> \in Seq(Asked)
        /\ <<Line("NICK", "fallback", "none")>> \in Seq(Asked)
    BY AskedLines, OneLine, EmptySeq
  <2> QED
    BY <2>1, <2>2
<1>4. verb # "001" => output' \in Seq(Asked)
  BY <1>1, <1>3, ConcatProperties DEF Receive
<1> QED
  BY <1>2, <1>4 DEF Quiet

(* A line is read while joined or joining. *)
LEMMA MemberReads ==
    ASSUME IInv, Membership, NEW verb \in Verbs, Receive(verb),
           state \in {"JOINING", "READY"}, account # "closed"
    PROVE  \E c \in SUBSET Channels :
               Turns(Head(toClient), joined, c) /\ Leads(toClient', c, members)
<1>1. /\ toClient \in Seq(ServerLines) /\ toClient # <<>> /\ toClient' = Tail(toClient)
      /\ Leads(toClient, joined, members)
  BY DEF IInv, Core, ServerShape, Membership, Receive
<1> QED
  BY <1>1, LeadsOn

LEMMA MemberReceives ==
    ASSUME IInv, Membership, Len(ChannelList) = 1,
           \/ ReceiveNicknameInUse \/ ReceiveWelcome \/ ReceiveJoin \/ ReceiveKick
           \/ ReceiveOther \/ ReceiveFailure
    PROVE  Membership'
<1>1. CASE ReceiveNicknameInUse
  <2>1. Receive("433") /\ "433" \in Verbs /\ state = "REGISTERING"
        /\ state' = state /\ joined' = joined
    BY <1>1 DEF ReceiveNicknameInUse, Verbs
  <2>2. toClient' \in Seq(Quiet) /\ output' \in Seq(Asked)
        /\ UNCHANGED <<stream, toServer, account, members>>
    BY <2>1, MemberRegisters DEF Receive
  <2> QED
    BY <2>1, <2>2 DEF Membership
<1>2. CASE ReceiveWelcome
  <2>1. Receive("001") /\ "001" \in Verbs /\ state = "REGISTERING"
        /\ state' = "JOINING" /\ joined' = joined
    BY <1>2 DEF ReceiveWelcome, Verbs
  <2>2. toClient' \in Seq(Quiet) /\ UNCHANGED <<stream, toServer, account, members>>
    BY <2>1, MemberRegisters DEF Receive
  <2>3. joined = {} /\ members = {} /\ Leads(toClient', {}, {})
    BY <2>1, <2>2, LeadsQuietly DEF Membership
  <2> QED
    BY <2>1, <2>2, <2>3 DEF Membership
<1>3. CASE ReceiveJoin
  <2>1. /\ Receive("JOIN") /\ "JOIN" \in Verbs /\ state \in {"JOINING", "READY"}
        /\ joined' = joined \cup {Head(toClient).channel}
        /\ UNCHANGED <<stream, account, members>>
    BY <1>3 DEF ReceiveJoin, Verbs, Receive
  <2>2. Head(toClient).verb = "JOIN" /\ Head(toClient).channel \in Channels /\ stream
    BY <2>1, Receives DEF ServerLines
  <2>3. joined' = Channels /\ state' = "READY"
    <3>1. joined \subseteq Channels
      BY DEF IInv, Core, TransportShape
    <3>2. joined' = Channels
      BY <2>1, <2>2, <3>1, OneName
    <3> QED
      BY <1>3, <3>2 DEF ReceiveJoin
  <2>4. account # "closed" => Leads(toClient', Channels, members)
    BY <2>1, <2>2, MemberReads DEF Turns
  <2> QED
    BY <2>1, <2>2, <2>3, <2>4 DEF Membership
<1>4. CASE ReceiveKick
  <2>1. /\ Receive("KICK") /\ "KICK" \in Verbs /\ state = "READY" /\ state' = "JOINING"
        /\ joined' = joined \ {Head(toClient).channel}
        /\ UNCHANGED <<stream, account, members>>
    BY <1>4 DEF ReceiveKick, Verbs, Receive
  <2>2. Head(toClient).verb = "KICK" /\ Head(toClient).channel \in Channels /\ stream
    BY <2>1, Receives DEF ServerLines
  <2>3. joined' = {}
    BY <2>1, <2>2, OneName DEF Membership
  <2>4. account # "closed" => Leads(toClient', {}, members)
    BY <2>1, <2>2, MemberReads DEF Turns
  <2> QED
    BY <2>1, <2>2, <2>3, <2>4 DEF Membership
<1>5. CASE ReceiveOther
  <2>1. PICK verb \in Verbs :
           /\ Receive(verb)
           /\ verb \in {"433", "001"} => state # "REGISTERING"
           /\ verb = "JOIN" => state \notin {"JOINING", "READY"}
           /\ verb = "KICK" => state # "READY"
    <3>1. /\ "PING" \in Verbs /\ "PRIVMSG" \in Verbs /\ "NICK" \in Verbs /\ "433" \in Verbs
          /\ "001" \in Verbs /\ "JOIN" \in Verbs /\ "KICK" \in Verbs
      BY DEF Verbs
    <3> QED
      BY <1>5, <3>1 DEF ReceiveOther
  <2>2. state' = state /\ joined' = joined /\ UNCHANGED <<stream, toServer, account, members>>
    BY <1>5, <2>1 DEF ReceiveOther, Receive
  <2>3. stream /\ Head(toClient).verb = verb
    BY <2>1, Receives
  <2>4. CASE state = "REGISTERING"
    <3>1. toClient' \in Seq(Quiet) /\ output' \in Seq(Asked)
      BY <2>1, <2>4, MemberRegisters DEF Receive
    <3> QED
      BY <2>2, <2>4, <3>1 DEF Membership
  <2>5. CASE state \in {"JOINING", "READY"}
    <3>1. joined # Channels \/ state = "READY"
      BY <2>5, OneName DEF Membership
    <3>2. account # "closed" => Leads(toClient', joined, members)
      BY <2>1, <2>3, <2>5, <3>1, MemberReads DEF Turns
    <3> QED
      BY <2>2, <2>3, <2>5, <3>2 DEF Membership
  <2> QED
    BY <2>2, <2>3, <2>4, <2>5 DEF Membership
<1>6. CASE ReceiveFailure
  BY <1>6, MemberFails DEF ReceiveFailure
<1> QED
  BY <1>1, <1>2, <1>3, <1>4, <1>5, <1>6

(* What the server says is under way behind what it said before. *)
LEMMA QuietPush ==
    ASSUME ServerShape, NEW l \in Quiet, Push(<<l>>)
    PROVE  /\ toClient \in Seq(Quiet) => toClient' \in Seq(Quiet)
           /\ \A a : Leads(toClient, a, members) => Leads(toClient', a, members)
<1>1. toClient \in Seq(Quiet) => toClient' \in Seq(Quiet)
  BY OneLine, ConcatProperties DEF Push
<1>2. l \in ServerLines /\ Turns(l, members, members) /\ members \in SUBSET Channels
  BY DEF Quiet, Turns, ServerShape
<1>3. \A a : Leads(toClient, a, members) => Leads(toClient', a, members)
  BY <1>2, LeadsFurther DEF Push, ServerShape
<1> QED
  BY <1>1, <1>3

LEMMA MemberServed ==
    ASSUME IInv, Membership, stream, UNCHANGED <<transportVars, adapterVars>>,
           state = "REGISTERING" =>
              members' = {} /\ toServer' \in Seq(Asked) /\ toClient' \in Seq(Quiet),
           state \in {"JOINING", "READY"} /\ account' # "closed" =>
              Leads(toClient', joined, members')
    PROVE  Membership'
BY DEF Membership, transportVars, adapterVars

(* The server answers without touching the channels the bot is in. *)
LEMMA MemberAnswered ==
    ASSUME IInv, Membership, stream, UNCHANGED <<transportVars, adapterVars, members>>,
           account # "closed", toServer \in Seq(Asked) => toServer' \in Seq(Asked),
           UNCHANGED toClient \/ \E l \in Quiet : Push(<<l>>)
    PROVE  Membership'
<1>1. /\ toClient \in Seq(Quiet) => toClient' \in Seq(Quiet)
      /\ Leads(toClient, joined, members) => Leads(toClient', joined, members)
  BY QuietPush DEF IInv, Core
<1> QED
  BY <1>1, MemberServed DEF Membership

LEMMA MemberServerReads ==
    ASSUME IInv, Membership, Len(ChannelList) = 1, ServerReads
    PROVE  Membership'
<1> DEFINE line == Head(toServer)
<1>1. /\ stream /\ account # "closed" /\ toServer # <<>> /\ toServer' = Tail(toServer)
      /\ UNCHANGED <<transportVars, adapterVars>> /\ toServer \in Seq(ClientLines)
      /\ ServerShape
  BY DEF IInv, Core, OutputShape, ServerShape, ServerReads
<1>2. line \in ClientLines
  BY <1>1, HeadTailProperties
<1>3. toServer \in Seq(Asked) => toServer' \in Seq(Asked) /\ line.verb # "JOIN"
  <2>1. toServer \in Seq(Asked) => Tail(toServer) \in Seq(Asked) /\ line \in Asked
    BY <1>1, HeadTailProperties
  <2> QED
    BY <1>1, <2>1 DEF Asked
<1>4. CASE line.verb = "JOIN" /\ UNCHANGED account
           /\ \/ /\ line.channel \notin members
                 /\ members' = members \cup {line.channel}
                 /\ Push(<<Line("JOIN", account, line.channel)>>)
              \/ UNCHANGED <<members, toClient>>
  <2>1. state # "REGISTERING"
    BY <1>3, <1>4 DEF Membership
  <2>2. CASE UNCHANGED <<members, toClient>>
    BY <1>1, <1>3, <2>2, MemberAnswered
  <2>3. CASE /\ line.channel \notin members /\ members' = members \cup {line.channel}
             /\ Push(<<Line("JOIN", account, line.channel)>>)
    <3> DEFINE l == Line("JOIN", account, line.channel)
    <3>1. line.channel \in Channels /\ members \subseteq Channels
      BY <1>1, <1>2, <1>4 DEF ClientLines, ServerShape
    <3>2. members = {} /\ members' = Channels
      BY <2>3, <3>1, OneName
    <3>3. l \in ServerLines /\ Turns(l, members, Channels)
      BY <1>1, <3>1, <3>2, ServerSays DEF ServerShape, Turns, Line
    <3>4. Leads(toClient, joined, members) => Leads(toClient', joined, members')
      BY <1>1, <2>3, <3>2, <3>3, LeadsFurther DEF Push, ServerShape
    <3> QED
      BY <1>1, <2>1, <3>4, MemberServed DEF Membership
  <2> QED
    BY <1>4, <2>2, <2>3
<1>5. CASE members' = {} /\ account' = "closed" /\ Push(<<Plain("ERROR")>>)
  <2>1. toClient \in Seq(Quiet) => toClient' \in Seq(Quiet)
    BY <1>1, <1>5, QuietPush, QuietLines
  <2> QED
    BY <1>1, <1>3, <1>5, <2>1, MemberServed DEF Membership
<1>6. CASE UNCHANGED members /\ (UNCHANGED toClient \/ \E l \in Quiet : Push(<<l>>))
  BY <1>1, <1>3, <1>6, MemberAnswered
<1>7. CASE UNCHANGED members /\ \E who \in Me : ServerWelcome(who)
  <2>1. \E l \in Quiet : Push(<<l>>)
    BY <1>7, QuietLines DEF ServerWelcome, Accounts
  <2> QED
    BY <1>6, <1>7, <2>1
<1>8. line.verb = "NICK" => line.who \in Me
  BY <1>2 DEF ClientLines
<1> QED
  BY <1>4, <1>5, <1>6, <1>7, <1>8, QuietLines DEF ServerReads

LEMMA MemberServerSpeaks ==
    ASSUME IInv, Membership, Len(ChannelList) = 1, ServerSpeaks
    PROVE  Membership'
<1>1. /\ stream /\ account # "closed" /\ ServerShape
      /\ UNCHANGED <<transportVars, adapterVars, toServer, account>>
  BY DEF IInv, Core, OutputShape, ServerShape, ServerSpeaks, Me
<1>2. CASE UNCHANGED members /\ \E verb \in Chatter : Push(<<Plain(verb)>>)
  <2>1. \E l \in Quiet : Push(<<l>>)
    BY <1>2, QuietLines, ConstantTypes
  <2> QED
    BY <1>1, <1>2, <2>1, MemberAnswered
<1>3. ASSUME NEW channel \in members, members' = members \ {channel},
             Push(<<Line("KICK", account, channel)>>)
      PROVE  Membership'
  <2> DEFINE l == Line("KICK", account, channel)
  <2>1. members = Channels /\ members' = {} /\ channel \in Channels
    BY <1>1, <1>3, OneName DEF ServerShape
  <2>2. l \in ServerLines /\ Turns(l, members, {})
    BY <1>1, <2>1, ServerSays DEF ServerShape, Turns, Line
  <2>3. Leads(toClient, joined, members) => Leads(toClient', joined, members')
    BY <1>1, <1>3, <2>1, <2>2, LeadsFurther DEF Push, ServerShape
  <2>4. state # "REGISTERING"
    BY <1>3 DEF Membership
  <2> QED
    BY <1>1, <2>3, <2>4, MemberServed DEF Membership
<1> QED
  BY <1>2, <1>3 DEF ServerSpeaks

LEMMA MemberServerCloses == ASSUME IInv, Membership, ServerCloses PROVE Membership'
<1>1. /\ stream /\ ServerShape /\ account' = "closed" /\ members' = {} /\ toServer' = <<>>
      /\ UNCHANGED <<transportVars, adapterVars>>
  BY DEF ServerCloses, IInv, Core
<1>2. <<>> \in Seq(Asked)
  BY EmptySeq
<1>3. toClient \in Seq(Quiet) => toClient' \in Seq(Quiet)
  BY <1>1, QuietPush, QuietLines DEF ServerCloses
<1> QED
  BY <1>1, <1>2, <1>3, MemberServed DEF Membership

(* A bot with one channel is in it whenever it is READY and has read        *)
(* everything the server said: no kick, refused or repeated JOIN, lost      *)
(* connection or new nickname makes READY untrue (_handle_kick,             *)
(* _handle_join of IRCTransport).  With two channels a kick can.            *)
THEOREM ReadyWithOneChannel ==
    ASSUME Len(ChannelList) = 1
    PROVE  Spec => []ReadyMeansMember
<1>1. Init => Membership
  BY DEF Init, Membership
<1>2. IInv /\ Membership /\ [Next]_sessionVars => Membership'
  <2> SUFFICES ASSUME IInv, Membership, [Next]_sessionVars PROVE Membership'
    OBVIOUS
  <2>1. CASE PollFlush \/ EndFlush
    BY <2>1, MemberFlushes DEF PollFlush, EndFlush
  <2>2. CASE Client /\ ~(PollFlush \/ EndFlush)
    BY <2>2, MemberCalls, MemberReceives DEF Client
  <2>3. CASE Server
    BY <2>3, MemberServerReads, MemberServerSpeaks, MemberServerCloses DEF Server
  <2>4. CASE UNCHANGED sessionVars
    BY <2>4, MemberKept DEF sessionVars, transportVars, adapterVars, serverVars, Membership
  <2> QED
    BY <2>1, <2>2, <2>3, <2>4 DEF Next
<1>3. Membership => ReadyMeansMember
  BY LeadsNowhere DEF Membership, ReadyMeansMember
<1> QED
  BY <1>1, <1>2, <1>3, SessionInvariant, PTL DEF Spec

-----------------------------------------------------------------------------
(***************************************************************************)
(* The process shell.  The session keeps its shape whatever the process    *)
(* does with it (Core).  What is new is Roles: where the runner is says    *)
(* what the shell has been told, what the shell has been told says on      *)
(* which side of stop the session is, and the last poll of a forced        *)
(* shutdown leaves no session, since it comes when the deadline of QUIT    *)
(* has passed.                                                             *)
(***************************************************************************)

Ending == {"STOPPING", "STOPPED"}
Phases == {"idle", "send", "receive", "flush", "deliver", "return"}

Kinds ==
    /\ shell \in {"NEW", "RUNNING", "STOPPING", "STOPPED", "FAILED"}
    /\ runner \in DOMAIN NextOf \cup {"failed", "exited"}
    /\ asked \in BOOLEAN
    /\ worker \in {"RUNNING", "CLOSING", "CLOSED", "FAILED"}
    /\ phase \in Phases

(* A shell that runs has a session that goes on, one that was told to stop   *)
(* has one that ends, and one that has ended has none.                      *)
ShellSide ==
    /\ shell = "NEW" => phase = "idle" /\ runner \in {"launch", "failed", "exited"}
    /\ shell = "NEW" /\ runner = "launch" => state = "NEW"
    /\ shell = "NEW" /\ runner = "failed" => state \in {"NEW", "CONNECTING"}
    /\ shell = "RUNNING" => state \notin Ending
    /\ shell = "STOPPING" => state \in Ending /\ (phase = "idle" => state = "STOPPING")
    /\ shell \in {"STOPPED", "FAILED"} => state = "STOPPED" /\ runner = "exited"

(* The worker is closed by a shell that ends, and by nothing before it.      *)
WorkerSide ==
    /\ shell \in {"NEW", "RUNNING", "STOPPING"} => worker \in {"RUNNING", "FAILED"}
    /\ shell \in {"STOPPED", "FAILED"} => worker # "RUNNING"
    /\ shell = "STOPPED" => worker = "CLOSED"

(* Where the runner is. *)
RunnerSide ==
    /\ runner = "launch" =>
          /\ shell \in {"NEW", "RUNNING"} /\ (shell = "RUNNING" => phase # "idle")
          /\ phase \in {"idle", "flush", "deliver"} /\ messages = <<>>
    /\ runner = "failed" => shell = "NEW"
    /\ runner \in {"top", "poll", "interrupted", "forced", "deadline"} =>
          shell \in {"RUNNING", "STOPPING"}
    /\ runner = "exited" => phase = "idle" /\ shell \in {"NEW", "STOPPED", "FAILED"}
    /\ runner = "forced" /\ phase # "idle" => shell = "STOPPING"
    /\ state = "CONNECTING" => runner \in {"failed", "exited"}

(* The last poll of a forced shutdown comes after the deadline of QUIT. *)
LastPoll ==
    runner = "deadline" =>
        /\ shell = "STOPPING"
        /\ phase \in {"send", "receive"} => state = "STOPPED" \/ timer = 0
        /\ phase \in {"flush", "deliver", "return"} => state = "STOPPED"

Roles == Kinds /\ ShellSide /\ WorkerSide /\ RunnerSide /\ LastPoll

ShellInv == IInv /\ Roles

-----------------------------------------------------------------------------
(* Steps of the session within the process. *)

(* Only stop takes a session to its end. *)
LEMMA FailsOnItsSide ==
    ASSUME FailConnection
    PROVE  state' = (IF state = "STOPPING" THEN "STOPPED" ELSE "BACKOFF")
BY DEF FailConnection, Backoff, FinishStop

LEMMA ConnectsOnItsSide ==
    ASSUME Connect
    PROVE  state' \in {"REGISTERING", "BACKOFF"}
BY DEF Connect, Registration

(* A step of a poll: the session stays on its side of stop, and a deadline   *)
(* that has passed stays so until the tick sees it.                         *)
OnItsSide ==
    /\ state \in Ending => state' \in Ending
    /\ state \notin Ending => state' \notin Ending
    /\ state = "STOPPED" => state' = "STOPPED"
    /\ state' = "CONNECTING" => state = "CONNECTING"

LEMMA FlushSide ==
    ASSUME NEW from, NEW to, Flush(from, to)
    PROVE  /\ OnItsSide \/ (state = "STOPPED" /\ output # <<>>)
           /\ phase = from /\ phase' = to /\ messages' = messages
           /\ state' = "STOPPED" \/ timer' = timer \/ state' = "BACKOFF"
BY FailsOnItsSide DEF Flush, OnItsSide, Ending, transportVars

LEMMA TickSide ==
    ASSUME Tick
    PROVE  /\ OnItsSide /\ phase = "receive" /\ phase' = "flush" /\ messages' = messages
           /\ state = "STOPPING" /\ timer = 0 => state' = "STOPPED"
<1>1. phase = "receive" /\ phase' = "flush" /\ messages' = messages
  BY DEF Tick
<1>2. CASE ReconnectDue /\ Connect
  BY <1>1, <1>2, ConnectsOnItsSide DEF ReconnectDue, OnItsSide, Ending
<1>3. CASE (DeadlinePassed \/ PeerSilent) /\ FailConnection
  BY <1>1, <1>3, FailsOnItsSide DEF DeadlinePassed, PeerSilent, OnItsSide, Ending, Handshake
<1>4. CASE /\ ~(ReconnectDue \/ DeadlinePassed \/ PeerSilent)
           /\ UNCHANGED <<transportVars, stream, output, serverVars>>
  BY <1>1, <1>4 DEF DeadlinePassed, OnItsSide, transportVars
<1> QED
  BY <1>2, <1>3, <1>4 DEF Tick

LEMMA ReceivedSide ==
    ASSUME IInv, Received
    PROVE  /\ OnItsSide /\ phase = "receive" /\ phase' = "receive"
           /\ state' = "STOPPING" => timer' = timer
<1>1. CASE ReceiveFailure
  <2>1. state # "STOPPED"
    BY <1>1 DEF ReceiveFailure, IInv, Core, StreamMatchesState, Connected, Handshake
  <2> QED
    BY <1>1, <2>1, FailsOnItsSide DEF ReceiveFailure, OnItsSide, Ending
<1>2. CASE ~ReceiveFailure
  BY <1>2 DEF Received, Receive, ReceiveNicknameInUse, ReceiveWelcome, ReceiveJoin, ReceiveKick,
              ReceiveOther, OnItsSide, Ending
<1> QED
  BY <1>1, <1>2

LEMMA StopSide ==
    ASSUME StopTransport
    PROVE  state' \in Ending /\ (state = "STOPPED" => state' = "STOPPED")
                             /\ state # "CONNECTING"
BY DEF StopTransport, FinishStop, transportVars, Ending, Handshake

LEMMA FinishSide ==
    ASSUME FinishRuntime
    PROVE  /\ worker \in {"RUNNING", "FAILED"} /\ shell' \in {"STOPPED", "FAILED"}
           /\ worker' \in {"CLOSED", "CLOSING", "FAILED"} /\ (shell' = "STOPPED" => worker' = "CLOSED")
BY DEF FinishRuntime

(* The process takes a step of the session as it is. *)
LEMMA SessionStep ==
    ASSUME ShellInv, UNCHANGED processVars,
           PollFlush \/ Tick \/ EndFlush \/ Received \/ Server \/ BeginPoll
    PROVE  IInv'
BY StepInv DEF ShellInv, IInv, Allowed, Next, Client, Received

LEMMA PollSteps ==
    ASSUME ShellInv, UNCHANGED processVars, PollFlush \/ Tick \/ EndFlush \/ Received
    PROVE  Roles'
<1> USE DEF ShellInv, Roles, Kinds, ShellSide, WorkerSide, RunnerSide, LastPoll, processVars,
            OnItsSide, Phases
<1>0. state = "STOPPED" => output = <<>>
  BY DEF IInv, Core, StreamMatchesState, Connected, Handshake
<1>1. CASE PollFlush
  BY <1>0, <1>1, FlushSide DEF PollFlush, Ending
<1>2. CASE EndFlush
  BY <1>0, <1>2, FlushSide DEF EndFlush, Ending
<1>3. CASE Tick
  BY <1>3, TickSide DEF Ending
<1>4. CASE Received
  BY <1>4, ReceivedSide DEF Ending
<1> QED
  BY <1>1, <1>2, <1>3, <1>4

(* The server, the worker's thread and a request move no part of the process *)
(* but their own.                                                           *)
LEMMA Elsewhere ==
    ASSUME ShellInv,
           \/ Session(Server) \/ RequestStop \/ WorkerEnds \/ UNCHANGED vars
    PROVE  ShellInv'
<1>1. CASE Session(Server)
  <2>1. IInv' /\ UNCHANGED <<processVars, transportVars, adapterVars>>
    BY <1>1, SessionStep DEF Session, Server, ServerReads, ServerSpeaks, ServerCloses
  <2> QED
    BY <2>1 DEF ShellInv, Roles, Kinds, ShellSide, WorkerSide, RunnerSide, LastPoll, processVars,
                transportVars, adapterVars
<1>2. CASE RequestStop \/ WorkerEnds \/ UNCHANGED vars
  <2>1. UNCHANGED sessionVars
    BY <1>2 DEF RequestStop, WorkerEnds, vars
  <2>2. IInv'
    BY <2>1, StepInv DEF ShellInv, IInv, Allowed
  <2> QED
    BY <1>2, <2>1, <2>2 DEF ShellInv, Roles, Kinds, ShellSide, WorkerSide, RunnerSide, LastPoll,
             RequestStop, WorkerEnds, vars, processVars, sessionVars, transportVars, adapterVars
<1> QED
  BY <1>1, <1>2

-----------------------------------------------------------------------------
(* Steps of the process. *)

(* The session as it is, but for its phase and the messages. *)
LEMMA SameSession ==
    ASSUME ShellInv, UNCHANGED <<transportVars, stream, output, serverVars>>,
           messages' \in Seq(Verbs)
    PROVE  IInv'
<1>1. Core'
  BY NothingHappens DEF ShellInv, IInv, Same, transportVars, serverVars
<1> QED
  BY <1>1 DEF IInv, PollShape

(* A line of the process is added to the output. *)
LEMMA SendsNotice ==
    ASSUME ShellInv, Fits(<<Plain("NOTICE")>>), stream, output' = Append(output, Plain("NOTICE")),
           UNCHANGED <<transportVars, stream, serverVars>>, messages' \in Seq(Verbs)
    PROVE  IInv'
<1>1. output' \in Seq(ClientLines) /\ Len(output') <= MaxOutput
  BY SendsOne, ClientSays DEF ShellInv, IInv, Core
<1> QED
  BY <1>1 DEF ShellInv, IInv, Core, PollShape, TransportShape, OutputShape, ServerShape,
              StreamMatchesState, transportVars, serverVars

LEMMA Messages ==
    ASSUME ShellInv
    PROVE  messages \in Seq(Verbs) /\ <<>> \in Seq(Verbs)
           /\ (messages # <<>> => Tail(messages) \in Seq(Verbs))
BY EmptySeq, HeadTailProperties DEF ShellInv, IInv, PollShape

LEMMA HandleInv ==
    ASSUME ShellInv, HandleQuietly \/ HandleDispatch \/ HandleFailure
    PROVE  ShellInv'
<1>1. CASE HandleQuietly \/ HandleDispatch
  <2>1. IInv'
    BY <1>1, Messages, SameSession, SendsNotice DEF HandleQuietly, HandleDispatch, Dispatchable
  <2>2. UNCHANGED <<state, timer, phase, processVars>> /\ messages # <<>>
    BY <1>1 DEF HandleQuietly, HandleDispatch, transportVars
  <2> QED
    BY <2>1, <2>2 DEF ShellInv, Roles, Kinds, ShellSide, WorkerSide, RunnerSide, LastPoll,
                      processVars
<1>2. CASE HandleFailure
  <2>1. Core' /\ state' \in Ending
    BY <1>2, StopTransportInv, StopSide DEF HandleFailure, ShellInv, IInv
  <2>2. IInv'
    BY <1>2, <2>1, Messages DEF HandleFailure, IInv, PollShape
  <2>3. /\ shell = "RUNNING" /\ shell' = "STOPPING" /\ phase = "deliver" /\ phase' = "flush"
        /\ messages # <<>> /\ UNCHANGED <<runner, asked, worker>>
    BY <1>2 DEF HandleFailure
  <2> QED
    BY <2>1, <2>2, <2>3 DEF ShellInv, Roles, Kinds, ShellSide, WorkerSide, RunnerSide, LastPoll,
                            Ending, Phases
<1> QED
  BY <1>1, <1>2

(* What a call of the shell leaves: its side of the session, its runner and  *)
(* its worker.                                                              *)
LEMMA FlushHandledInv == ASSUME ShellInv, FlushHandled PROVE ShellInv'
<1>1. IInv' /\ UNCHANGED processVars /\ phase' = "return" /\ phase = "deliver"
      /\ shell = "RUNNING" /\ runner = "poll"
  BY Flushes DEF FlushHandled, ShellInv, IInv, Allowed, Flush
<1>2. state = "STOPPED" => output = <<>>
  BY DEF ShellInv, IInv, Core, StreamMatchesState, Connected, Handshake
<1>3. OnItsSide
  BY <1>2, FlushSide DEF FlushHandled, OnItsSide
<1> QED
  BY <1>1, <1>3 DEF ShellInv, Roles, Kinds, ShellSide, WorkerSide, RunnerSide, LastPoll,
                    processVars, OnItsSide, Phases, Ending

LEMMA ReturnInv == ASSUME ShellInv, Return PROVE ShellInv'
<1>1. IInv'
  BY Messages, SameSession DEF Return
<1>2. /\ phase \in {"deliver", "return"} /\ phase' = "idle" /\ messages' = messages
      /\ UNCHANGED <<state, timer, asked>>
  BY DEF Return, transportVars
<1>3. CASE state = "STOPPED"
  <2>1. FinishRuntime /\ runner' = "exited"
    BY <1>3 DEF Return
  <2> QED
    BY <1>1, <1>2, <1>3, <2>1, FinishSide
       DEF ShellInv, Roles, Kinds, ShellSide, WorkerSide, RunnerSide, LastPoll, Phases, NextOf,
           Ending
<1>4. CASE state # "STOPPED"
  <2>1. runner' = NextOf[runner] /\ UNCHANGED <<shell, worker>>
    BY <1>4 DEF Return
  <2>2. shell \in {"RUNNING", "STOPPING"} /\ (shell = "STOPPING" => state = "STOPPING")
    BY <1>2, <1>4 DEF ShellInv, Roles, Kinds, ShellSide, Ending
  <2>3. runner \in {"launch", "top", "poll", "interrupted", "forced"}
    BY <1>2, <1>4, <2>2 DEF ShellInv, Roles, Kinds, RunnerSide, LastPoll, NextOf
  <2>4. /\ runner' \in {"top", "poll", "interrupted", "deadline"}
        /\ runner' = "deadline" => runner = "forced"
    BY <2>1, <2>3 DEF NextOf
  <2> QED
    BY <1>1, <1>2, <1>4, <2>1, <2>2, <2>3, <2>4
       DEF ShellInv, Roles, Kinds, ShellSide, WorkerSide, RunnerSide, LastPoll, Phases, NextOf
<1> QED
  BY <1>3, <1>4

(* The launch, what can keep it from starting, and what is left then.        *)
LEMMA LaunchInv ==
    ASSUME ShellInv, StopBeforeLaunch \/ Launch \/ LaunchFails
    PROVE  ShellInv'
<1>1. shell = "NEW" /\ state = "NEW" /\ messages = <<>> /\ phase = "idle" /\ runner = "launch"
      /\ Core /\ worker \in {"RUNNING", "FAILED"} /\ asked \in BOOLEAN
  BY DEF ShellInv, IInv, Roles, Kinds, ShellSide, RunnerSide, WorkerSide, StopBeforeLaunch,
         Launch, LaunchFails
<1>2. CASE StopBeforeLaunch
  <2>1. Core' /\ state' = "STOPPED"
    BY <1>1, <1>2, StopTransportInv DEF StopBeforeLaunch, StopTransport, FinishStop, Handshake
  <2>2. FinishRuntime /\ runner' = "exited" /\ UNCHANGED <<phase, messages, asked>>
    BY <1>2 DEF StopBeforeLaunch
  <2> QED
    BY <1>1, <2>1, <2>2, FinishSide, Messages
       DEF ShellInv, IInv, PollShape, Roles, Kinds, ShellSide, WorkerSide, RunnerSide, LastPoll,
           Phases, NextOf
<1>3. CASE Launch
  <2>1. Core' /\ state' \in {"REGISTERING", "BACKOFF"}
    BY <1>1, <1>3, Connects DEF Launch
  <2>2. /\ shell' = "RUNNING" /\ phase' = "flush" /\ UNCHANGED <<messages, runner, asked, worker>>
    BY <1>3 DEF Launch
  <2> QED
    BY <1>1, <2>1, <2>2, Messages
       DEF ShellInv, IInv, PollShape, Roles, Kinds, ShellSide, WorkerSide, RunnerSide, LastPoll,
           Phases, Ending
<1>4. CASE LaunchFails
  <2>1. /\ state' \in {"NEW", "CONNECTING"} /\ runner' = "failed"
        /\ UNCHANGED <<nickname, joined, reconnectIndex, timer, silence, adapterVars, serverVars,
                       shell, asked, worker>>
    BY <1>4 DEF LaunchFails
  <2>2. Core'
    BY <1>1, <2>1 DEF Core, TransportShape, OutputShape, ServerShape, StreamMatchesState, States,
                      Connected, Handshake, adapterVars, serverVars
  <2> QED
    BY <1>1, <2>1, <2>2, Messages
       DEF ShellInv, IInv, PollShape, Roles, Kinds, ShellSide, WorkerSide, RunnerSide, LastPoll,
           Phases, NextOf, adapterVars
<1> QED
  BY <1>2, <1>3, <1>4

LEMMA CleanUpInv == ASSUME ShellInv, CleanUpLaunch PROVE ShellInv'
<1>1. /\ shell = "NEW" /\ state \in {"NEW", "CONNECTING"} /\ messages \in Seq(Verbs)
      /\ phase = "idle" /\ runner = "failed" /\ runner' = "exited" /\ Core
      /\ worker \in {"RUNNING", "FAILED"} /\ asked \in BOOLEAN
      /\ UNCHANGED <<adapterVars, serverVars, asked>>
  BY DEF ShellInv, IInv, PollShape, Roles, Kinds, ShellSide, RunnerSide, WorkerSide, CleanUpLaunch
<1>2. CASE FinishStop /\ FinishRuntime
  <2>1. TransportShape' /\ state' = "STOPPED"
    BY <1>1, <1>2, Stops DEF Core
  <2>2. Core'
    BY <1>1, <2>1 DEF Core, OutputShape, ServerShape, StreamMatchesState, Connected, Handshake,
                      adapterVars, serverVars
  <2> QED
    BY <1>1, <1>2, <2>1, <2>2, FinishSide
       DEF ShellInv, IInv, PollShape, Roles, Kinds, ShellSide, WorkerSide, RunnerSide, LastPoll,
           Phases, NextOf, adapterVars
<1>3. CASE UNCHANGED <<transportVars, shell, worker>>
  <2>1. Core'
    BY <1>1, <1>3, NothingHappens DEF Same, transportVars, adapterVars, serverVars
  <2> QED
    BY <1>1, <1>3, <2>1
       DEF ShellInv, IInv, PollShape, Roles, Kinds, ShellSide, WorkerSide, RunnerSide, LastPoll,
           Phases, NextOf, adapterVars, transportVars
<1> QED
  BY <1>2, <1>3 DEF CleanUpLaunch

(* stop, wherever the runner asks for it. *)
LEMMA StopShellInv ==
    ASSUME ShellInv, StopAsked \/ StopInterrupted \/ ForceStop
    PROVE  ShellInv'
<1>1. /\ phase = "idle" /\ runner \in {"top", "interrupted", "forced"}
      /\ StopShell /\ UNCHANGED <<runner, asked>>
  BY DEF StopAsked, StopInterrupted, ForceStop, AtTop
<1>2. Core' /\ state' \in Ending /\ state' # "CONNECTING"
  BY <1>1, StopTransportInv, StopSide DEF StopShell, ShellInv, IInv, Ending
<1>3. /\ shell \in {"RUNNING", "STOPPING"} /\ shell' = "STOPPING" /\ phase' = "flush"
      /\ UNCHANGED <<messages, worker>>
  BY <1>1 DEF StopShell
<1> QED
  BY <1>1, <1>2, <1>3
     DEF ShellInv, IInv, PollShape, Roles, Kinds, ShellSide, WorkerSide, RunnerSide, LastPoll,
         Phases, NextOf

LEMMA LoopInv ==
    ASSUME ShellInv, SkipSchedule \/ StepSchedule \/ Interrupt
    PROVE  ShellInv'
<1>1. /\ UNCHANGED <<state, timer, phase, messages, shell, worker>> /\ phase = "idle"
      /\ asked' \in BOOLEAN /\ runner \in {"top", "interrupted"}
      /\ runner' \in {"poll", "interrupted", "forced"}
  BY DEF SkipSchedule, StepSchedule, Interrupt, AtTop, sessionVars, transportVars, adapterVars,
         ShellInv, Roles, Kinds
<1>2. IInv'
  <2>1. CASE SkipSchedule \/ Interrupt
    BY <2>1, StepInv DEF SkipSchedule, Interrupt, ShellInv, IInv, Allowed
  <2>2. CASE StepSchedule
    <3>1. UNCHANGED <<transportVars, stream, messages, serverVars>> /\ messages \in Seq(Verbs)
      BY <2>2, Messages DEF StepSchedule
    <3>2. CASE Dispatchable("PRIVMSG")
      BY <2>2, <3>1, <3>2, SendsNotice DEF StepSchedule, Dispatchable
    <3>3. CASE ~Dispatchable("PRIVMSG")
      BY <2>2, <3>1, <3>3, SameSession DEF StepSchedule
    <3> QED
      BY <3>2, <3>3
  <2> QED
    BY <2>1, <2>2
<1> QED
  BY <1>1, <1>2 DEF ShellInv, Roles, Kinds, ShellSide, WorkerSide, RunnerSide, LastPoll, NextOf

(* The polls of the loop, and the one at the deadline of QUIT. *)
LEMMA PollInv == ASSUME ShellInv, PollShell \/ ForcePoll PROVE ShellInv'
<1>1. CASE PollShell
  <2>1. IInv' /\ UNCHANGED processVars
    BY <1>1, SessionStep DEF PollShell
  <2>2. /\ runner \in {"poll", "interrupted"} /\ phase = "idle" /\ phase' = "send"
        /\ state \notin {"NEW", "STOPPED"} /\ UNCHANGED <<state, messages>>
    BY <1>1 DEF PollShell, BeginPoll
  <2> QED
    BY <2>1, <2>2 DEF ShellInv, Roles, Kinds, ShellSide, WorkerSide, RunnerSide, LastPoll,
                      processVars, Phases
<1>2. CASE ForcePoll
  <2>1. /\ runner = "deadline" /\ phase = "idle" /\ phase' = "send" /\ timer' = 0
        /\ UNCHANGED <<state, nickname, joined, reconnectIndex, silence, stream, output, messages,
                       serverVars, processVars>>
    BY <1>2 DEF ForcePoll
  <2>2. IInv'
    BY <2>1 DEF ShellInv, IInv, Core, PollShape, TransportShape, OutputShape, ServerShape,
                StreamMatchesState, serverVars
  <2> QED
    BY <2>1, <2>2 DEF ShellInv, Roles, Kinds, ShellSide, WorkerSide, RunnerSide, LastPoll,
                      processVars, Phases
<1> QED
  BY <1>1, <1>2

-----------------------------------------------------------------------------
(* The invariant. *)

LEMMA ShellInitInv == ShellInit => ShellInv
<1> SUFFICES ASSUME ShellInit PROVE ShellInv
  OBVIOUS
<1>1. IInv
  BY InitInv DEF ShellInit
<1> QED
  BY <1>1 DEF ShellInit, Init, ShellInv, Roles, Kinds, ShellSide, WorkerSide, RunnerSide, LastPoll,
              Phases, NextOf

LEMMA ShellStepInv == ShellInv /\ [ShellNext]_vars => ShellInv'
<1> SUFFICES ASSUME ShellInv, [ShellNext]_vars PROVE ShellInv'
  OBVIOUS
<1>1. CASE Session(PollFlush) \/ Session(Tick) \/ Session(EndFlush) \/ Session(Received)
  BY <1>1, SessionStep, PollSteps DEF Session, ShellInv
<1>2. CASE Session(Server) \/ RequestStop \/ WorkerEnds \/ Ended \/ UNCHANGED vars
  BY <1>2, Elsewhere DEF Ended
<1>3. CASE Runner /\ ~(Session(PollFlush) \/ Session(Tick) \/ Session(EndFlush))
  BY <1>3, HandleInv, FlushHandledInv, ReturnInv, LaunchInv, CleanUpInv, StopShellInv, LoopInv,
     PollInv DEF Runner
<1> QED
  BY <1>1, <1>2, <1>3, LoopInv DEF ShellNext, Runner

(* The process keeps the session in its shape and every part in its role.    *)
THEOREM ShellInvariant == ShellSpec => []ShellInv
BY ShellInitInv, ShellStepInv, PTL DEF ShellSpec

(* Every variable of the process has its type, and the output fits           *)
(* (ProcessShell, OperatorPilotRunner, IRCSocketAdapter).                   *)
THEOREM ShellTypes == ShellSpec => []ShellTypeOK
<1>1. ShellInv => ShellTypeOK
  BY WiderLines DEF ShellInv, IInv, Core, TransportShape, OutputShape, Roles, Kinds, Phases,
                    ShellTypeOK
<1> QED
  BY <1>1, ShellInvariant, PTL

(* Persistence is closed behind the session, and between two calls the shell *)
(* and the transport agree on whether the session is to end                 *)
(* (ProcessShell._finish_runtime, stop and poll).                           *)
THEOREM ShellOwns == ShellSpec => []ShellOwnsItsParts
<1>1. ShellInv => PersistenceOutlivesSession
  BY DEF ShellInv, IInv, Core, Roles, Kinds, ShellSide, WorkerSide, StreamMatchesState, Connected,
         Handshake, PersistenceOutlivesSession
<1>2. ShellInv => ShellFollowsSession
  BY DEF ShellInv, Roles, Kinds, ShellSide, Ending, ShellFollowsSession
<1> QED
  BY <1>1, <1>2, ShellInvariant, PTL DEF ShellOwnsItsParts

(* A runner that has started ends its shell before it returns, and a shell   *)
(* that says STOPPED drained its worker (OperatorPilotRunner.run,           *)
(* run_operator_pilot).                                                     *)
THEOREM ShellEndsItsParts == ShellSpec => []RunnerLeavesNothing
<1>1. ShellInv => RunnerLeavesNothing
  BY DEF ShellInv, Roles, Kinds, WorkerSide, RunnerSide, RunnerLeavesNothing
<1> QED
  BY <1>1, ShellInvariant, PTL

=============================================================================
