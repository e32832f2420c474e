SPECIFICATION HandoverSpec
CONSTANTS
    n1 = n1
    n2 = n2
    r1 = r1
    r2 = r2
    alice = alice
    bob = bob
    NoName = NoName
    Requests <- OneRequest
    Reviews <- OneReview
    Users <- TwoUsers
    ResourceTtl = 1
    MaxOps = 3
    MaxFaults = 0
    MaxCrashes = 1
    MaxResyncs = 0
    MaxClock = 1
    Disturbances = {"DeleteRequest", "DeleteReview"}
    RequesterAnnotations = {alice}
    ReviewerAnnotations = {alice, bob}
    Targets = {"Found", "NotFound"}
INVARIANTS HandoverTypeOK OnlyApprovedRequestsRun HandoverInv
PROPERTIES JobRunsOnce DecidedWhilePending TerminalIsNeverReopened
CHECK_DEADLOCK FALSE
