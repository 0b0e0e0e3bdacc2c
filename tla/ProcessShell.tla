----------------------------- MODULE ProcessShell -----------------------------
(***************************************************************************)
(* The process around the session: the loop of OperatorPilotRunner, the    *)
(* shell it polls, the launch and its cleanup, and the order in which they *)
(* end the IRC session and the persistence worker.  One thread runs all of *)
(* it; the server, the worker's thread and a request to stop come between  *)
(* any two steps.                                                          *)
(*                                                                         *)
(* A call of the adapter runs through the phases of IRCSession, and its    *)
(* messages are handled when it is over, in phase deliver.  The worker is  *)
(* seen as its owner sees it; PersistenceWorker models it in full.         *)
(***************************************************************************)
EXTENDS IRCSession

VARIABLES
    shell,     \* ProcessShell._state
    runner,    \* where run, or what replaces it after an exception, is
    asked,     \* PilotControl.stop_requested
    worker     \* state of the persistence worker

processVars == <<shell, runner, asked, worker>>
vars == <<sessionVars, processVars>>

ShellInit ==
    /\ Init
    /\ shell = "NEW"
    /\ runner = "launch"
    /\ asked = FALSE
    /\ worker = "RUNNING"

-----------------------------------------------------------------------------
(* The shell.                                                              *)

\* _finish_runtime: the worker drains and closes in time, or close raises.
FinishRuntime ==
    \/ /\ worker = "RUNNING"
       /\ worker' = "CLOSED"
       /\ shell' = "STOPPED"
    \/ /\ worker = "RUNNING"
       /\ worker' \in {"CLOSING", "FAILED"}
       /\ shell' = "FAILED"
    \/ /\ worker = "FAILED"
       /\ shell' = "FAILED"
       /\ UNCHANGED worker

\* Mutant: the worker is closed as soon as the shell is asked to stop.
StopShellFirst ==
    /\ shell \in {"RUNNING", "STOPPING"}
    /\ shell' = "STOPPING"
    /\ worker' = IF worker = "RUNNING" THEN "CLOSED" ELSE worker
    /\ StopTransport
    /\ phase' = "flush"
    /\ UNCHANGED messages

\* stop, on a shell that was started.
StopShell ==
    /\ shell \in {"RUNNING", "STOPPING"}
    /\ shell' = "STOPPING"
    /\ StopTransport
    /\ phase' = "flush"
    /\ UNCHANGED <<messages, worker>>

\* What handling a message may ask of the priority sink: an answer in the
\* channel, or the empty batch of an identity event.
Dispatchable(verb) ==
    /\ worker = "RUNNING"
    /\ stream /\ state = "READY"
    /\ verb = "PRIVMSG" => Fits(<<Plain("NOTICE")>>)

\* The message asks for nothing: it is an observation for the roster, not a
\* command, or about nobody the game knows.
HandleQuietly ==
    /\ phase = "deliver"
    /\ messages # <<>>
    /\ shell = "RUNNING"
    /\ messages' = Tail(messages)
    /\ UNCHANGED <<transportVars, stream, output, phase, serverVars,
                   processVars>>

HandleDispatch ==
    /\ phase = "deliver"
    /\ messages # <<>>
    /\ Head(messages) \in {"PRIVMSG", "NICK"}
    /\ shell = "RUNNING"
    /\ Dispatchable(Head(messages))
    /\ output' = IF Head(messages) = "PRIVMSG"
                 THEN Append(output, Plain("NOTICE")) ELSE output
    /\ messages' = Tail(messages)
    /\ UNCHANGED <<transportVars, stream, phase, serverVars, processVars>>

\* The worker or the sink raises: the application failed, the rest of the
\* messages is dropped, and the transport is stopped.
HandleFailure ==
    /\ phase = "deliver"
    /\ messages # <<>>
    /\ Head(messages) \in {"PRIVMSG", "NICK"}
    /\ shell = "RUNNING"
    /\ ~Dispatchable(Head(messages))
    /\ shell' = "STOPPING"
    /\ messages' = <<>>
    /\ StopTransport
    /\ phase' = "flush"
    /\ UNCHANGED <<runner, asked, worker>>

\* The flush behind a poll that handled something.
FlushHandled ==
    /\ messages = <<>>
    /\ shell = "RUNNING"
    /\ runner = "poll"
    /\ Flush("deliver", "return")
    /\ UNCHANGED processVars

NextOf == [launch |-> "top", top |-> "poll", poll |-> "top",
           interrupted |-> "interrupted", forced |-> "deadline",
           deadline |-> "exited"]

\* A call of the shell returns; one that leaves the transport STOPPED finishes
\* the runtime first, and the runner ends.
Return ==
    /\ phase \in {"deliver", "return"}
    /\ messages = <<>>
    /\ phase' = "idle"
    /\ IF state = "STOPPED"
       THEN FinishRuntime /\ runner' = "exited"
       ELSE runner' = NextOf[runner] /\ UNCHANGED <<shell, worker>>
    /\ UNCHANGED <<transportVars, stream, output, messages, serverVars, asked>>

-----------------------------------------------------------------------------
(* The runner.                                                             *)

\* A stop asked for before the launch: the shell ends without a session.
StopBeforeLaunch ==
    /\ runner = "launch" /\ phase = "idle"
    /\ asked
    /\ StopTransport
    /\ FinishRuntime
    /\ runner' = "exited"
    /\ UNCHANGED <<phase, messages, asked>>

\* start: the partyline listener, then the first connection.
Launch ==
    /\ runner = "launch" /\ phase = "idle"
    /\ ~asked
    /\ Connect
    /\ shell' = "RUNNING"
    /\ phase' = "flush"
    /\ UNCHANGED <<messages, runner, asked, worker>>

\* The listener cannot be bound, or an interrupt ends the attempt to connect:
\* start raises.
LaunchFails ==
    /\ runner = "launch" /\ phase = "idle"
    /\ ~asked
    /\ state' \in {"NEW", "CONNECTING"}
    /\ runner' = "failed"
    /\ UNCHANGED <<nickname, joined, reconnectIndex, timer, silence,
                   adapterVars, serverVars, shell, asked, worker>>

\* run_operator_pilot stops the shell at the recovered game time, which the
\* shell accepts only if its clock was not told a later one by start.
CleanUpLaunch ==
    /\ runner = "failed"
    /\ runner' = "exited"
    /\ \/ FinishStop /\ FinishRuntime
       \/ UNCHANGED <<transportVars, shell, worker>>
    /\ UNCHANGED <<adapterVars, serverVars, asked>>

AtTop == runner = "top" /\ phase = "idle"

\* The loop sees the request.
StopAsked ==
    /\ AtTop
    /\ asked
    /\ shell = "RUNNING"
    /\ StopShell
    /\ UNCHANGED <<runner, asked>>

\* The schedule has nothing to do, or is not asked.
SkipSchedule ==
    /\ AtTop
    /\ asked => shell = "STOPPING"
    /\ runner' = "poll"
    /\ UNCHANGED <<sessionVars, shell, asked, worker>>

StepSchedule ==
    /\ AtTop
    /\ ~asked
    /\ shell = "RUNNING" /\ state = "READY"
    /\ IF Dispatchable("PRIVMSG")
       THEN /\ output' = Append(output, Plain("NOTICE"))
            /\ runner' = "poll"
       ELSE /\ runner' = "forced"
            /\ UNCHANGED output
    /\ UNCHANGED <<transportVars, stream, phase, messages, serverVars, shell,
                   asked, worker>>

PollShell ==
    /\ \/ runner = "poll"
       \/ runner = "interrupted" /\ shell = "STOPPING"
    /\ BeginPoll
    /\ UNCHANGED processVars

\* A keyboard interrupt, taken while the loop sleeps; another one while
\* _finish_after_interrupt does.
Interrupt ==
    /\ phase = "idle"
    /\ asked' = TRUE
    /\ \/ runner = "top" /\ runner' = "interrupted"
       \/ runner = "interrupted" /\ runner' = "forced"
    /\ UNCHANGED <<sessionVars, shell, worker>>

StopInterrupted ==
    /\ runner = "interrupted" /\ phase = "idle"
    /\ shell = "RUNNING"
    /\ StopShell
    /\ UNCHANGED <<runner, asked>>

\* _force_bounded_shutdown: stop, and one poll at the deadline of the stop.
ForceStop ==
    /\ runner = "forced" /\ phase = "idle"
    /\ StopShell
    /\ UNCHANGED <<runner, asked>>

\* Mutant: the poll comes before the deadline.
ForcePollEarly ==
    /\ runner = "deadline" /\ phase = "idle"
    /\ phase' = "send"
    /\ UNCHANGED <<transportVars, stream, output, messages, serverVars,
                   processVars>>

ForcePoll ==
    /\ runner = "deadline" /\ phase = "idle"
    /\ phase' = "send"
    /\ timer' = 0
    /\ UNCHANGED <<state, nickname, joined, reconnectIndex, silence, stream,
                   output, messages, serverVars, processVars>>

-----------------------------------------------------------------------------

\* The steps of a poll that IRCSession models.
Session(step) == step /\ UNCHANGED processVars

Received ==
    \/ ReceiveNicknameInUse \/ ReceiveWelcome \/ ReceiveJoin \/ ReceiveKick
    \/ ReceiveOther \/ ReceiveFailure

Runner ==
    \/ HandleQuietly \/ HandleDispatch \/ HandleFailure
    \/ FlushHandled \/ Return
    \/ StopBeforeLaunch \/ Launch \/ LaunchFails \/ CleanUpLaunch
    \/ StopAsked \/ SkipSchedule \/ StepSchedule \/ PollShell
    \/ StopInterrupted \/ ForceStop \/ ForcePoll
    \/ Session(PollFlush) \/ Session(Tick) \/ Session(EndFlush)

RequestStop ==
    /\ ~asked
    /\ asked' = TRUE
    /\ UNCHANGED <<sessionVars, shell, runner, worker>>

\* The worker's thread latches a failure, or ends after a close that timed out.
WorkerEnds ==
    /\ \/ worker = "RUNNING" /\ worker' = "FAILED"
       \/ worker = "CLOSING" /\ worker' \in {"CLOSED", "FAILED"}
    /\ UNCHANGED <<sessionVars, shell, runner, asked>>

Ended == runner = "exited" /\ UNCHANGED vars

ShellNext ==
    \/ Runner \/ Session(Received) \/ Session(Server)
    \/ RequestStop \/ Interrupt \/ WorkerEnds \/ Ended

ShellSpec == ShellInit /\ [][ShellNext]_vars

\* The loop goes on: its thread is scheduled, a sleep ends, and a poll reads a
\* bounded number of times.
FairShellSpec == ShellSpec /\ WF_vars(Runner)

-----------------------------------------------------------------------------

ShellTypeOK ==
    /\ shell \in {"NEW", "RUNNING", "STOPPING", "STOPPED", "FAILED"}
    /\ runner \in DOMAIN NextOf \cup {"failed", "exited"}
    /\ asked \in BOOLEAN
    /\ worker \in {"RUNNING", "CLOSING", "CLOSED", "FAILED"}
    /\ phase \in {"idle", "send", "receive", "flush", "deliver", "return"}
    /\ state \in States
    /\ output \in Seq(Lines) /\ Len(output) <= MaxOutput

\* Persistence is closed behind the session: while the bot can still send or
\* receive a line, or could connect again, the worker is not closed.
PersistenceOutlivesSession ==
    worker \in {"CLOSING", "CLOSED"} => state = "STOPPED" /\ ~stream

\* Between two calls, the shell and the transport agree on whether the session
\* is to end; a shell that has ended holds no connection.
ShellFollowsSession ==
    phase = "idle" =>
        /\ shell = "RUNNING" => state \notin {"STOPPING", "STOPPED"}
        /\ shell = "STOPPING" => state = "STOPPING"
        /\ shell \in {"STOPPED", "FAILED"} => state = "STOPPED"

\* The shell ends what it owns in the right order: the session, then persistence.
ShellOwnsItsParts == PersistenceOutlivesSession /\ ShellFollowsSession

\* A runner that has started ends its shell before it returns or raises,
\* whatever happened: exceptions, one interrupt or two, a late answer.  Then
\* the worker is closed, closing or failed; a shell that says STOPPED drained
\* it.
RunnerLeavesNothing ==
    runner = "exited" /\ shell # "NEW" =>
        /\ shell \in {"STOPPED", "FAILED"}
        /\ worker # "RUNNING"
        /\ shell = "STOPPED" => worker = "CLOSED"

\* A request to stop, an interrupt and a failed application end the process.
ShutdownCompletes == (asked \/ shell = "STOPPING") ~> runner = "exited"

\* A failed launch ends the process: no worker thread stays behind.
FailedLaunchEnds == runner = "exited" => worker # "RUNNING"
=============================================================================
