CONSTANTS
    Accounts = {alice, bob}
    alice = alice
    bob = bob
    k1 = k1
    k2 = k2
    t1 = t1
    Freezes = {FALSE}
    Rotating = {alice}
    Active = {alice}
    Funded = {alice}
    CallKeys = {}
    DepositKeys = {}
    TransferKeys = {t1}
    EscrowKeys = {k1, k2}
    Minted = {"paid"}
    Transferable <- AllBuckets
    Shares = {1}
    Caps = {2}
    Fee = 1
    InboundCap = 2
    TransferDelay = 1
    SpikeFloor = 2
    LotsPerAccount = 1
    HoldsPerAccount = 1
    HoldsTotal = 2
    TransfersPendingMax = 1
    DayLen = 2
    Horizon = 2
    TTL = 1
    Untils = {1}
    MaxUnits = 1
    MaxSupply = 2
SYMMETRY EscrowKeySymmetry
SPECIFICATION Spec
INVARIANTS HeldIsHolds BooksBalance InboundAccounted
PROPERTIES DueIsPaid SettledForGood KeepsEscrow
