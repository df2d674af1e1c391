SPECIFICATION LiveSpec
CONSTANTS
    Jobs = {j1, j2}
    SchedulerIds = {1, 2}
    InvalidId = InvalidId
    NoJob = NoJob
    LineStates = {"QueuedRemote", "RunningRemote"}
    ClientIds = {InvalidId}
    Events = {"remove", "cancel", "sshFails", "ackLost", "copyOutFails"}
INVARIANTS
    NoOrphan
PROPERTIES
    EventuallyReleased
