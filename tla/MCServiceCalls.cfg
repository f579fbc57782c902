CONSTANTS
    c1 = c1
    a1 = a1
    a2 = a2
    alice = alice
    net1 = net1
    Account <- Accounts
    Calls = {c1, a1, a2}
    Signed = {c1}
    AsyncCalls = {c1}
    MaxDuration = 1
    HoldGrace = 2
    LeaseGrace = 1
    SettleAttempts = 2
    RemoteSlots = 2
    AnonymousRemoteSlots = 1
    HoldsPerAccount = 2
    HoldsTotal = 3
    AnonymousHoldsTotal = 2
    MaxUnits = 1
    Horizon = 6
    MaxCrashes = 1
SPECIFICATION LiveSpec
INVARIANTS CallMatchesHold RunsUnderHold JobMatchesCall SignedFindSlot
PROPERTIES OutcomeForGood CallsEnd

