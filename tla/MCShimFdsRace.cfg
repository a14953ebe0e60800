CONSTANTS
    t1 = t1
    t2 = t2
    Threads <- MCTwoThreads
    TSVITA_LWIP_FD_FIRST = 128
    TSVITA_LWIP_FD_LAST = 130
    LWIP_SOCKET_OFFSET = 128
    MEMP_NUM_NETCONN = 3
    RealFds <- MCRealFds
SPECIFICATION Spec
INVARIANT UdpTimeoutRefused
