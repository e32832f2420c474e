SPECIFICATION FairSpec
CONSTANTS
    n1 = n1
    n2 = n2
    r1 = r1
    r2 = r2
    alice = alice
    bob = bob
    NoName = NoName
    Requests <- OneRequest
    Reviews <- OneReview
    Users <- TwoUsers
    ResourceTtl = 1
    MaxOps = 2
    MaxFaults = 0
    MaxCrashes = 0
    MaxResyncs = 0
    MaxClock = 0
    Disturbances = {"EarlyReview"}
    RequesterAnnotations = {alice}
    ReviewerAnnotations = {bob}
    Targets = {"Found"}
PROPERTIES RequestsGetAState
CHECK_DEADLOCK FALSE
