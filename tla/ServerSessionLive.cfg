SPECIFICATION LiveSpec
CONSTANTS
    Clients = {c1}
    Connections = {a1, a2}
    Null = Null
    MaxJobs = 2
    MaxRequests = 2
    MaxTotal = 2
    MaxRestarts = 1
    Methods = {"listQueues", "submitJob", "cancelJob"}
    GivenStates = {"None", "Finished"}
    QueueSteps <- AllSteps
    Events = {"remove", "quit", "split"}
CHECK_DEADLOCK FALSE
PROPERTIES EventuallyAnswered EventuallyTold
