SPECIFICATION Spec
CONSTANTS
    n1 = n1
    n2 = n2
    r1 = r1
    r2 = r2
    alice = alice
    bob = bob
    NoName = NoName
    Requests <- OneRequest
    Reviews <- TwoReviews
    Users <- TwoUsers
    ResourceTtl = 1
    MaxOps = 3
    MaxFaults = 2
    MaxCrashes = 1
    MaxResyncs = 0
    MaxClock = 0
    Disturbances = {"DeleteReview", "EditRequest", "EditReview", "EarlyReview", "DeleteJob", "ForeignJob"}
    RequesterAnnotations = {alice, "Missing"}
    ReviewerAnnotations = {alice, bob}
    Targets = {"Found", "NotFound"}
INVARIANTS TypeOK ApprovedStatesAreEarned IInv EarnedInv
PROPERTIES TerminalIsFinal JobRunsOnce
SYMMETRY ReviewSymmetry
CHECK_DEADLOCK FALSE
