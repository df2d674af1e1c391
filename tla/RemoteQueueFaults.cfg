SPECIFICATION Spec
CONSTANTS
    Jobs = {j1, j2}
    SchedulerIds = {1, 2}
    InvalidId = InvalidId
    NoJob = NoJob
    LineStates = {"QueuedRemote", "RunningRemote"}
    ClientIds = {InvalidId}
    Events = {"remove", "cancel", "dialog", "reconfigure", "sshFails", "unparsable",
              "unreadable", "qstatFails", "killFails"}
SYMMETRY JobSymmetry
INVARIANTS
    TypeOK
    SingleStage
    IndexConsistent
    TrackedIsActive
PROPERTIES
    FinishedNotRevived
    ImplementsLifecycle
