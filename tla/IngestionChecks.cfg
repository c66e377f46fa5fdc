SPECIFICATION Spec
CONSTANTS
    GreenMax = 20
    YellowMax = 55
    RedMax = 85
    a = a
    b = b
    unit = unit
    plan = plan
    ci = ci
    other = other
    NoPacket = NoPacket
    PullRequests = {a, b}
    Names = {unit, plan}
    Checks = {ci, other}
    PolicyOf <- Policies
    Workers = {w1}
    MaxHead = 1
    MaxCheckRuns = 2
    MaxIgnored = 1
    MaxFailures = 1
    MaxReports = 2
    MaxRedeliveries = 0
CHECK_DEADLOCK FALSE
INVARIANTS
    AcceptedCheckReachedAll
