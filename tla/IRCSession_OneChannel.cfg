SPECIFICATION FairSpec
CONSTANTS
    ChannelList <- OneChannel
    Delays <- TwoDelays
    HandshakeTimeout = 2
    IdleTimeout = 1
    StopTimeout = 1
    MaxOutput = 3
    Chatter = {"PING", "PRIVMSG", "NICK"}
    MaxElapse = 1
    MaxWire = 2
    MaxBatch = 1
INVARIANTS
    TypeOK
    StreamMatchesState
    ReadyMeansMember
PROPERTIES
    QuitIsFinal
    SessionMovesOn
