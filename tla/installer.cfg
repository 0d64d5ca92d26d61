\* Two runs of the script over eight services, cut anywhere, with edits between them.
SPECIFICATION Spec
CONSTANTS
    KitFiles <- MCKitFiles
    Config = "jest.config.cjs"
    Base = "jest.base.cjs"
    Services <- MCServices
    Editable <- MCEditable
    Offered  <- MCOffered
    MaxRuns = 2
INVARIANTS
    RunnerlessHasACause
    DoneIsComplete
    LeftoversHaveACause
    RefusalHasACause
PROPERTIES
    OwnWorkIsKept
    SameAgain
CHECK_DEADLOCK FALSE
