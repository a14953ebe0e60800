CONSTANTS
    MaxHandshakes = 3
    MaxCounter = 1
    MaxTime = 3
    HANDSHAKE_TIMEOUT <- MCHandshakeTimeout
    REKEY_INTERVAL <- MCRekey
    KEEPALIVE_INTERVAL <- MCKeepalive
    UINT64 <- MCUint64
CHECK_DEADLOCK FALSE
SPECIFICATION FairLosslessSpec
PROPERTIES
    RekeyHappens
    HandshakeEnds
