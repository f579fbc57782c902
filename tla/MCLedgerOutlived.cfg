CONSTANTS
    Accounts = {alice, bob}
    alice = alice
    bob = bob
    k1 = k1
    k2 = k2
    t1 = t1
    Freezes = {FALSE}
    Rotating = {alice}
    Active = {alice}
    Funded = {}
    CallKeys = {}
    DepositKeys = {}
    TransferKeys = {}
    EscrowKeys = {k1}
    Minted = {}
    Transferable <- AllBuckets
    Shares = {1}
    Caps = {2}
    Fee = 0
    InboundCap = 2
    TransferDelay = 2
    SpikeFloor = 2
    LotsPerAccount = 2
    HoldsPerAccount = 1
    HoldsTotal = 2
    TransfersPendingMax = 1
    DayLen = 2
    Horizon = 3
    TTL = 1
    Untils = {1}
    MaxUnits = 2
    MaxSupply = 2
SPECIFICATION Spec
INVARIANTS EscrowOutlived
