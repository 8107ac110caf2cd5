SPECIFICATION MCSpec
CONSTANTS
    Names <- MCNames
    UserAttrs <- MCUserAttrs
    MaxNames = 3
    MaxAllowedBatchSize = 2
    ValidityPeriod = 2
    Counts <- MCCounts
    Periods <- MCPeriods
    None = None
    BlockSize = 2
    Bytes <- MCBytes
    MaxLen = 3
    Keys = {k1, k2}
    NumLen = 1
    NoText = NoText
    Goroutines = {g1, g2}
    WordBits = 5
    letterIdxBits = 2
    LetterCount = 3
    Words <- MCWords
    StringLength = 3
    MaxDraws = 2
    Requests = {r1, r2, r3}
    Conns = {m1, m2, m3}
    AdminBind = TRUE
    NoConn = NoConn
    Commands = {c1, c2}
    ClientKeys = {m1, m2, m3}
    Absent = Absent
    Empty = Empty
SYMMETRY MCSymmetry
INVARIANTS
    BatchComplete
    AttributesReadable
    EnrollmentIDReadable
    RoundTrip
    UnpaddingExact
    FixedLength
    LettersFromDraws
    DrawsDisjoint
    SearchHasConn
    NoStrayConns
    StoredKeyCertified
    StoredPairMatches
    StoredKeyAuthenticates
    SuccessMeansStored
