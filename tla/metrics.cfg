SPECIFICATION MetricsSpec
CONSTANTS
    n1 = n1
    r1 = r1
    alice = alice
    bob = bob
    NoName = NoName
    Requests <- OneRequest
    Reviews <- OneReview
    Users <- TwoUsers
    ResourceTtl = 1
    MaxOps = 3
    MaxFaults = 1
    MaxCrashes = 1
    MaxResyncs = 0
    MaxClock = 1
    Disturbances = {"EarlyReview", "ForeignJob", "DeleteRequest", "DeleteReview"}
    RequesterAnnotations = {alice, "Invalid"}
    ReviewerAnnotations = {alice, bob, "Missing"}
    Targets = {"Found", "NotFound", "NoContainer"}
INVARIANTS ReviewReconcilesAreCountedOnce NoRequestReconcileIsCountedTwice CountsInv
PROPERTIES StatesAreCounted RequeuesAreCounted
CHECK_DEADLOCK FALSE
