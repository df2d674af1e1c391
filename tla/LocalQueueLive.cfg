SPECIFICATION LiveSpec
CONSTANTS
    Jobs = {1, 2, 3}
    CoreCounts = {1, 2}
    CoreSettings = {}
    IdealThreadCount = 2
    NoJob = NoJob
    Events = {"remove", "cancel", "dialog", "writeFails", "processFails", "copyFails", "clean"}
CHECK_DEADLOCK FALSE
INVARIANTS EndedIsOver HeldWhileActive
PROPERTIES EventuallyServed
