SPECIFICATION FairSpec
CONSTANTS
    n1 = n1
    n2 = n2
    r1 = r1
    r2 = r2
    alice = alice
    bob = bob
    NoName = NoName
    Requests <- OneRequest
    Reviews <- TwoReviews
    Users <- TwoUsers
    ResourceTtl = 1
    MaxOps = 3
    MaxFaults = 0
    MaxCrashes = 0
    MaxResyncs = 1
    MaxClock = 0
    Disturbances = {"ForeignJob"}
    RequesterAnnotations = {alice}
    ReviewerAnnotations = {alice, bob}
    Targets = {"Found"}
INVARIANTS DecisionIsRecorded ConflictIsWithAnotherJob RecordsInv ConflictsInv
PROPERTIES RequestsGetAState ReviewsAreAnswered OutcomesAreRecorded
CHECK_DEADLOCK FALSE
