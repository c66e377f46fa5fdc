SPECIFICATION Spec
CONSTANTS
    GreenMax = 20
    YellowMax = 55
    RedMax = 85
    p1 = p1
    p2 = p2
    h1 = h1
    h2 = h2
    unit = unit
    plan = plan
    ci = ci
    operator = operator
    NoActor = NoActor
    NoPacket = NoPacket
    NoRequest = NoRequest
    Teams = {t1}
    Workers = {w1, w2}
    PacketIDs = {p1, p2}
    Heads = {h1, h2}
    Names = {unit, plan}
    Actors = {operator, NoActor}
    GitHubApps = {}
    PacketOf <- PendingAndBlocked
    MaxRequests = 2
    MaxFailures = 1
    SoleReporter = FALSE
    ClientsRetry = FALSE
    Backend = "postgres"
CHECK_DEADLOCK FALSE
SYMMETRY WorkerSymmetry
INVARIANTS
    TypeOK
    AuditExplainsStatus
    LaneFollowsDecision
    SuccessHasWitness
PROPERTIES
    ImplementsLedger
