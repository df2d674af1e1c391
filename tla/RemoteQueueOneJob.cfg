SPECIFICATION Spec
CONSTANTS
    Jobs = {j1}
    SchedulerIds = {1, 2, 3, 4, 5}
    InvalidId = InvalidId
    NoJob = NoJob
    LineStates = {"QueuedRemote", "RunningRemote"}
    ClientIds = {InvalidId}
    Events = {"remove", "cancel", "dialog", "reconfigure", "writeFails", "sshFails",
              "filesMissing", "ackLost", "unparsable",
              "qstatFails", "killFails", "copyOutFails"}
INVARIANTS
    LaunchesBounded
PROPERTIES
    FinishedHasLeft
