SPECIFICATION Spec
CONSTANTS
    GreenMax = 20
    YellowMax = 55
    RedMax = 85
    a = a
    b = b
    unit = unit
    plan = plan
    ci = ci
    other = other
    NoPacket = NoPacket
    PullRequests = {a}
    Names = {unit, plan}
    Checks = {ci}
    PolicyOf <- Policies
    Workers = {w1, w2}
    MaxHead = 2
    MaxCheckRuns = 1
    MaxIgnored = 0
    MaxFailures = 1
    MaxReports = 3
    MaxRedeliveries = 1
CHECK_DEADLOCK FALSE
SYMMETRY Symmetry
INVARIANTS
    CurrentPacketDescribesHead
    AnnouncedStoredShown
    EvidenceFromBoundCheck
