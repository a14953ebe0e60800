CONSTANTS
    MaxHandshakes = 2
    MaxCounter = 2
    MaxTime = 2
    HANDSHAKE_TIMEOUT <- MCHandshakeTimeout
    REKEY_INTERVAL <- MCRekey
    KEEPALIVE_INTERVAL <- MCKeepalive
    UINT64 <- MCUint64
CHECK_DEADLOCK FALSE
SPECIFICATION Spec
INVARIANTS
    NonceNeverReused
    NoDuplicateDelivery
    RekeyKeepsBothDirections
PROPERTIES
    KeepaliveJustified
