SPECIFICATION Spec
CONSTANTS
    ChannelList <- TwoChannels
    Delays <- TwoDelays
    HandshakeTimeout = 3
    IdleTimeout = 1
    StopTimeout = 1
    MaxOutput = 3
    Chatter = {"PING", "PRIVMSG"}
    MaxElapse = 1
    MaxWire = 2
    MaxBatch = 1
INVARIANT
    ReadyMeansMember
