SPECIFICATION ResyncSpec
CONSTANTS
    n1 = n1
    r1 = r1
    alice = alice
    bob = bob
    NoName = NoName
    Requests <- OneRequest
    Reviews <- OneReview
    Users <- TwoUsers
    ResourceTtl = 1
    MaxOps = 2
    MaxFaults = 1
    MaxCrashes = 0
    MaxResyncs = 0
    MaxClock = 0
    Disturbances = {}
    RequesterAnnotations = {alice}
    ReviewerAnnotations = {alice, bob}
    Targets = {"Found"}
PROPERTY ApprovedIsActedOn
CHECK_DEADLOCK FALSE
