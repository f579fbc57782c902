CONSTANTS
    n1 = n1
    n2 = n2
    n3 = n3
    alice = alice
    bob = bob
    carol = carol
    o1 = o1
    Auths = {n1, n2, n3}
    Amount <- OneEach
    Accounts = {alice, bob, carol}
    AccountDaily = 1
    BoardDaily = 2
    Operators = {o1}
    LastDay = 1
    MaxFailures = 2
SPECIFICATION Spec
SYMMETRY Symmetry
INVARIANTS MintedForMoney NeverWrittenOff WithinDaily
CHECK_DEADLOCK FALSE
