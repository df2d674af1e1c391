SPECIFICATION Spec
CONSTANTS
    Ids = {1, 2}
    Offers <- TwoOffers
    NewName = "New"
    Renamed = "View"
    MaxRows = 2
    MaxEdits = 1
    MaxPatterns = 1
    MaxOpenings = 1
    Events = {"unknown"}
CHECK_DEADLOCK FALSE
INVARIANTS CleanMeansSame
