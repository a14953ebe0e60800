SPECIFICATION AppsSpec
CONSTANTS
    MaxKeys = 3
    MaxRuns = 3
    FRACTIONS = 3
    MaxWall = 12
    OCTETS = 2
    READ_SIZE = 20
    MaxLines = 4
    MaxText = 5
    PublicKey <- MCPublicKey
    Lines <- MCLines
    Characters <- MCCharacters
    CAPACITY = 30
    Damages = {0, 1, 255}
    Datagrams <- MCDatagrams
CHECK_DEADLOCK FALSE
INVARIANTS KeyNeverTorn AnnouncedKeyLives CopiesAgree
    ReleasedOnce ApprovedMeansEchoes
    LabReleases LabReportsTrue ApprovedMeansRandom RefusedWithinSecond
    ConfigIsWhatFileSays LiteralIsDotted AcceptsExactlyIntact
PROPERTIES UserConfigKept ProbeEnds LabRunEnds
