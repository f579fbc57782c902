SPECIFICATION LiveSpec
CONSTANTS
    Networks = {n1, n2}
    Private = {"d"}
    Fresh = 2
    SignedRetry = 1
    CrossNetwork = 1
    Day = 3
    Grace = 1
    N = 4
    Op <- MCOp
    Body <- MCBody
    Direct <- MCDirect
    Bindings = {TRUE, FALSE}
    Skews = {0}
    Limits = {2}
    MaxCopies = 2
    MaxFaults = 1
    Horizon = 4
INVARIANTS NoOvertaking AppliedOnce
PROPERTIES OriginalReceipt Delivered
CHECK_DEADLOCK FALSE
