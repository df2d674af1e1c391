SPECIFICATION Spec
CONSTANTS
    Ids = {1, 2}
    Watched = {1}
    MaxEntries = 0
    ManyErrors = 1
    Addresses = {a1, a2}
    Null = Null
    Progress = {"RunningLocal", "Canceled"}
    Hides = {FALSE}
    Filters <- TwoFilters
    Events = {"diskFull", "unwritable"}
SYMMETRY AddressSymmetry
CHECK_DEADLOCK FALSE
INVARIANTS TableIsCurrent SyncedIsOnDisk NotifiesTruly
