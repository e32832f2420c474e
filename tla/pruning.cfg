SPECIFICATION ResyncSpec
CONSTANTS
    n1 = n1
    r1 = r1
    alice = alice
    bob = bob
    NoName = NoName
    Requests <- OneRequest
    Reviews <- OneReview
    Users <- TwoUsers
    ResourceTtl = 1
    MaxOps = 2
    MaxFaults = 1
    MaxCrashes = 1
    MaxResyncs = 0
    MaxClock = 1
    Disturbances = {"EditRequest", "EditReview"}
    RequesterAnnotations = {alice}
    ReviewerAnnotations = {bob}
    Targets = {"Found"}
PROPERTIES OnlyOldObjectsArePruned OldRequestsArePruned OldReviewsArePruned RequestsGetAState
CHECK_DEADLOCK FALSE
