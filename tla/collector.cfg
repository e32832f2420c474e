SPECIFICATION CollectorFairSpec
CONSTANTS
    n1 = n1
    n2 = n2
    r1 = r1
    alice = alice
    NoName = NoName
    Requests <- OneRequest
    Reviews <- OneReview
    Users <- OneUser
    MaxChanges = 2
    MaxFailures = 1
    MaxRestarts = 1
INVARIANTS CollectorTypeOK GaugesTellWhatWasListed GaugesAddUp
PROPERTY GaugesConverge
