SPECIFICATION Spec
CONSTANTS
    Jobs = {1, 2, 3}
    CoreCounts = {1, 2}
    CoreSettings = {1}
    IdealThreadCount = 2
    NoJob = NoJob
    Events = {"setCores", "cancel", "program", "clean", "exit", "crash"}
CHECK_DEADLOCK FALSE
INVARIANTS TypeOK FifoOrder
PROPERTIES StartsAffordable
