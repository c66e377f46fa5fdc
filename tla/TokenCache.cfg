SPECIFICATION FairSpec
CONSTANTS
    Callers = {c1, c2}
    LocalOffset = 1
    GitHubOffset = 0
    Lifetime = 5
    Margin = 2
    Backdate = 1
    JWTLifetime = 18
    MaxDelay = 2
    MaxTime = 9
    MaxFailures = 1
CHECK_DEADLOCK FALSE
INVARIANTS
    NoExpiredCall
    JWTIsTimely
PROPERTY
    EveryoneServed
