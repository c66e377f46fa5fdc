SPECIFICATION MCSpec
CONSTANTS
    GreenMax = 20
    YellowMax = 55
    RedMax = 85
    unit = unit
    plan = plan
    check1 = check1
    check2 = check2
    security = security
    platform = platform
    NoStrategy = NoStrategy
    NotRequired = NotRequired
    NoCheck = NoCheck
    MaxRules = 3
    RuleNames <- MCRuleNames
    MutationKinds = {"auth"}
    Patterns = {"infra"}
    Criticalities = {"normal", "tier0"}
    Teams = {security, platform}
    Names = {unit, plan}
    Checks = {check1, check2}
    Strategies = {"direct", "canary"}
    Configurations <- MCConfigurations
    Changes <- MCChanges
    ChangedFiles <- MCChangedFiles
    NodeIDs = {"a", "b", "c", "e", "x"}
    Manifests <- MCManifests
    CodeOwners <- MCCodeOwners
    Configured <- MCConfigured
    Forwards = {TRUE, FALSE}
    Jobs = {"n", "w"}
    Inputs <- MCJobs
    External <- MCExternal
    Reviewed = {"schema"}
    MayFail = TRUE
    Keys = {"green", "red"}
    MaxListed = 6
    MaxOutcomes = 7
CHECK_DEADLOCK FALSE
INVARIANTS
    RequirementsOrderFree
    ApprovedIsUnconstrained
    ClassifyIsMaximum
    WiderChangeIsNoSafer
    ConflictsAreRouted
    TraversalExact
PROPERTIES
    ResolutionEnds
    AdverseNeverCalms
