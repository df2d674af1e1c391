SPECIFICATION Spec
CONSTANTS
    Clients = {c1, c2}
    Connections = {a1, a2}
    Null = Null
    MaxJobs = 2
    MaxRequests = 2
    MaxTotal = 2
    MaxRestarts = 1
    Methods = {"submitJob", "lookupJob", "cancelJob"}
    GivenStates = {"None"}
    QueueSteps <- FirstStep
    Events = {"close", "remove", "crash", "split"}
SYMMETRY SessionSymmetry
CHECK_DEADLOCK FALSE
INVARIANTS OneAnswer RoutesLive ChainUnbroken IdBeforeNotice AcknowledgedIsKept MessagesAreUnderstood
PROPERTIES IdsAreFresh
