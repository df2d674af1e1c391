CONSTANTS
    Queues = {q1, q2}
    Programs = {p1, p2}
    Null = Null
    MaxName = 2
    BaseName <- BeforeDot
    Position <- Listing
    MaxProgramName = 1
    Types = {"PBS/Torque"}
    Values = {0, 1}
    ProgramValues = {0}
    MaxOpen = 2
SPECIFICATION Spec
SYMMETRY AddressSymmetry
INVARIANTS NamesAgree SurvivesQuit
CHECK_DEADLOCK FALSE
CONSTRAINT FewThings
