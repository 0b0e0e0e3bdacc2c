SPECIFICATION Spec
CONSTANTS
    Op = Op
    Ann = Ann
    Here = Here
    There = There
    W1 = W1
    W2 = W2
    Nobody = Nobody
    Short = Short
    Nicks <- MCNicks
    Handles <- MCHandles
    Allowed <- MCAllowed
    Peers <- MCPeers
    Loopback <- MCLoopback
    Words <- MCWords
    Spontaneous <- MCSpontaneous
    MaxSessions = 2
    MaxPendingDCC = 1
    MaxSessionFailures = 2
    MaxIPFailures = 2
    AuthTimeout = 1
    DCCTimeout = 1
    BootstrapTimeout = 2
    FailureWindow = 1
    MaxRemembered = 2
    MaxBusy = 3
INVARIANTS
    TypeOK
    SessionsAreSound
PROPERTIES
    OwnerIsKept
    HandshakesEnd
CHECK_DEADLOCK FALSE
