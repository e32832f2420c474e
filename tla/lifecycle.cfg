SPECIFICATION FairSpec
CONSTANTS
    n1 = n1
    n2 = n2
    r1 = r1
    r2 = r2
    alice = alice
    bob = bob
    NoName = NoName
    Requests <- OneRequest
    Reviews <- TwoReviews
    Users <- TwoUsers
    ResourceTtl = 1
    MaxOps = 3
    MaxFaults = 0
    MaxCrashes = 1
    MaxResyncs = 0
    MaxClock = 0
    Disturbances = {"EditRequest", "EditReview", "EarlyReview", "ForeignJob"}
    RequesterAnnotations = {alice, "Invalid"}
    ReviewerAnnotations = {alice, bob, "Missing"}
    Targets = {"Found", "NoContainer"}
INVARIANT LifecycleInv
PROPERTIES FollowsLifecycle ApprovedIsActedOn
CHECK_DEADLOCK FALSE
