SPECIFICATION FairShellSpec
CONSTANTS
    ChannelList <- OneChannel
    Delays <- OneDelay
    HandshakeTimeout = 2
    IdleTimeout = 1
    StopTimeout = 2
    MaxOutput = 3
    Chatter = {"PRIVMSG", "NICK"}
    MaxElapse = 1
    MaxWire = 2
    MaxBatch = 2
INVARIANTS
    ShellTypeOK
    ShellOwnsItsParts
    RunnerLeavesNothing
PROPERTIES
    ShutdownCompletes
