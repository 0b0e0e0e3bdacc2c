SPECIFICATION ShellSpec
CONSTANTS
    ChannelList <- OneChannel
    Delays <- OneDelay
    HandshakeTimeout = 1
    IdleTimeout = 1
    StopTimeout = 1
    MaxOutput = 3
    Chatter = {"PRIVMSG", "NICK"}
    MaxElapse = 1
    MaxWire = 2
    MaxBatch = 1
INVARIANT
    FailedLaunchEnds
