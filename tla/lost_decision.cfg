SPECIFICATION Spec
CONSTANTS
    n1 = n1
    n2 = n2
    r1 = r1
    r2 = r2
    alice = alice
    bob = bob
    NoName = NoName
    Requests <- OneRequest
    Reviews <- OneReview
    Users <- TwoUsers
    ResourceTtl = 1
    MaxOps = 3
    MaxFaults = 0
    MaxCrashes = 0
    MaxResyncs = 0
    MaxClock = 0
    Disturbances = {"EditRequest"}
    RequesterAnnotations = {alice}
    ReviewerAnnotations = {bob}
    Targets = {"Found"}
INVARIANTS DecisionIsRecorded
CHECK_DEADLOCK FALSE
