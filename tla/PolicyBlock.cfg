SPECIFICATION Spec
CONSTANTS
    GreenMax = 20
    YellowMax = 55
    RedMax = 85
    unit = unit
    plan = plan
    check1 = check1
    check2 = check2
    security = security
    platform = platform
    NoStrategy = NoStrategy
    NotRequired = NotRequired
    NoCheck = NoCheck
    MaxRules = 2
    RuleNames <- MCRuleNames
    MutationKinds = {"auth"}
    Patterns = {"infra"}
    Criticalities = {"normal", "tier0"}
    Teams = {security, platform}
    Names = {unit, plan}
    Checks = {check1, check2}
    Strategies = {"direct", "canary"}
    Configurations <- MCConfigurations
    Changes <- MCChanges
CHECK_DEADLOCK FALSE
INVARIANT
    ViolationBlocks
