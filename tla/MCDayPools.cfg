CONSTANTS
    Ppm = 4
    DayLen = 24
    HourLen = 1
    Params <- TwoVersions
    Levers <- CutLever
    Horizon = 24
    Instants = {0, 20, 24}
    MaxUnits = 1
    MaxMinted = 1
SPECIFICATION Spec
INVARIANTS NoSliceOverdrawn DrawsAccounted SpendAccounted
PROPERTIES DrawsStayWithinBudget AnonymousPaced
CHECK_DEADLOCK FALSE
