SPECIFICATION Spec
CONSTANTS
    Jobs = {j1, j2}
    HostIds = {q1}
    Unparsed = Unparsed
    InvalidId = InvalidId
    NoJob = NoJob
    NoEntry = NoEntry
    NoToken = NoToken
    d0 = d0
    d1 = d1
    f0 = f0
    Root = d0
    Entries <- TreeEntries
    Dirs <- TreeDirs
    Parent <- TreeParent
    MaxRetries = 1
    BaseDepth = 1
    Requests <- AllRequests
    TestConnection <- TestOfNoJob
    MaxTokens = 1
    MaxPrompts = 2
CHECK_DEADLOCK FALSE
INVARIANTS NobodyWaitsForNothing OnePlaceAtATime OthersAreFollowed
PROPERTIES TransfersAreComplete UpdateEnds
