SPECIFICATION FairSpec
CONSTANTS
    GreenMax = 20
    YellowMax = 55
    RedMax = 85
    p1 = p1
    p2 = p2
    h1 = h1
    h2 = h2
    unit = unit
    plan = plan
    ci = ci
    operator = operator
    NoActor = NoActor
    NoPacket = NoPacket
    NoRequest = NoRequest
    Teams = {t1}
    Workers = {w1}
    PacketIDs = {p1}
    Heads = {h1}
    Names = {unit, plan}
    Actors = {operator}
    GitHubApps = {}
    PacketOf <- TwoPieces
    MaxRequests = 3
    MaxFailures = 2
    SoleReporter = FALSE
    ClientsRetry = TRUE
    Backend = "memory"
CHECK_DEADLOCK FALSE
INVARIANT
    SettledDecisionIsCurrent
PROPERTY
    CompleteEvidenceIsApproved
