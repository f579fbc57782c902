SPECIFICATION Spec
CONSTANTS
    rq = rq
    w1 = w1
    w2 = w2
    Requester = rq
    NoOne = NoOne
    Workers <- MCWorkers
    Reviewers <- MCReviewers
    Offers <- MCLateOffers
    Known <- MCKnown
    Linkable = {}
    SplitPayout = TRUE
    WorkUSDC = FALSE
    MinSplit = 2
    DeferredPPM = 1
    Ppm = 2
    Deadline = 2
    ReviewerGrace = 1
    LateGrace = 1
    Deferral = 2
    ClaimTTLs <- MCTTLs
    MaxFence = 1
    MaxGeneration = 0
    Horizon = 3
INVARIANT LateAcceptOpen
CHECK_DEADLOCK FALSE
