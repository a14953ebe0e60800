CONSTANTS
    WORD_BITS <- MCWordBits
    WORDS <- MCWords
    REJECT_AFTER_MESSAGES <- MCLimit
    UINT64 <- MCUint64
SPECIFICATION Spec
INVARIANTS
    RingRemembersWindow
PROPERTY ImplementsContract
