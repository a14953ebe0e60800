SPECIFICATION DPFairSpec
CONSTANTS
    Apps = {a1, a2}
    TCPIP_MBOX_SIZE = 2
    OUTER_RCVBUF = 1
    PBUF_POOL_SIZE = 2
    MaxDatagrams = 2
INVARIANTS PbufsAccounted DatagramsAccounted
PROPERTY NobodyStarves
