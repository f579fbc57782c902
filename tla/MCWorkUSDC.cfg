SPECIFICATION Spec
CONSTANTS
    rq = rq
    w1 = w1
    w2 = w2
    Requester = rq
    NoOne = NoOne
    Workers <- MCWorkers
    Reviewers <- MCReviewers
    Offers <- MCUSDCOffers
    Known <- MCKnown
    Linkable <- MCLinkable
    SplitPayout = TRUE
    WorkUSDC = TRUE
    MinSplit = 2
    DeferredPPM = 1
    Ppm = 2
    Deadline = 2
    ReviewerGrace = 1
    LateGrace = 1
    Deferral = 2
    ClaimTTLs <- MCOneTTL
    MaxFence = 2
    MaxGeneration = 1
    Horizon = 2
INVARIANTS USDCToWorker JudgedAsRead
CHECK_DEADLOCK FALSE
