SPECIFICATION MCSpec
CONSTANTS
    Configs <- MCConfigs
    Worlds <- MCWorlds
    EnvironmentNames = {"A", "B"}
    Modes <- MCModes
    Credentials <- MCCredentials
    JWT <- MCJWT
    Now = 5
    Authorizations <- MCAuthorizations
    Calls <- MCCalls
    OtherRequests <- MCOtherRequests
    Publishers = {"p1", "p2"}
    Subscribers = {"s1", "s2", "s3"}
    TypeOf <- MCTypeOf
    Backends = {"memory", "nats"}
    MaxFailures = 2
    MaxCrashes = 1
INVARIANTS
    ValidConfigServes
    RunOutlivesServers
    UpdateNeedsWriter
    TransportsAgree
    ClosedIsQuiet
    RecordedIsDelivered
PROPERTIES
    ShutdownEndsRun
    PublishedIsHandled
CHECK_DEADLOCK FALSE
