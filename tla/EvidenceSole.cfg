SPECIFICATION ReadsSpec
CONSTANTS
    GreenMax = 20
    YellowMax = 55
    RedMax = 85
    p1 = p1
    h1 = h1
    unit = unit
    plan = plan
    operator = operator
    NoActor = NoActor
    NoPacket = NoPacket
    NoRequest = NoRequest
    Teams = {t1}
    Workers = {w1, w2}
    PacketIDs = {p1}
    Heads = {h1}
    Names = {unit, plan}
    Actors = {operator}
    GitHubApps = {}
    PacketOf <- TwoPieces
    MaxRequests = 3
    MaxFailures = 0
    SoleReporter = TRUE
    ClientsRetry = FALSE
    Backend = "postgres"
    ListLimit = 50
    MaxCalls = 1
CHECK_DEADLOCK FALSE
SYMMETRY WorkerSymmetry
INVARIANTS
    GreenIsBacked
    SuccessIsBacked
    AuditIsChain
    ViewIsExplained
PROPERTY
    LifecycleRespected
