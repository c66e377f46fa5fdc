--------------------------- MODULE MCPolicyEngine ---------------------------
(* Small instances of PolicyEngine for TLC: all sequences of up to MaxRules of
   the rules below, which include ones that Validate must refuse. *)
EXTENDS PolicyEngine, TLC

CONSTANTS MaxRules, unit, plan, check1, check2, security, platform

Blank == [name |-> "blank", mutations |-> {"auth"}, paths |-> {}, criticalities |-> {},
          riskScoreGTE |-> 0, ownershipTeams |-> {}, reviewers |-> {}, evidence |-> {},
          githubChecks |-> {}, strategy |-> NoStrategy, requiresCanary |-> FALSE,
          block |-> FALSE, minimumLane |-> NoLane]

Bound(name, check) == { [evidence |-> name, check |-> check] }

Rules == {
    [Blank EXCEPT !.name = "legacy", !.evidence = {unit}],
    [Blank EXCEPT !.name = "bound", !.evidence = {unit, plan}, !.githubChecks = Bound(unit, check1)],
    [Blank EXCEPT !.name = "same", !.evidence = {unit}, !.githubChecks = Bound(unit, check1),
                  !.minimumLane = "YELLOW"],
    \* In conflict with "bound": another check for the evidence, other evidence for the check.
    [Blank EXCEPT !.name = "rival", !.evidence = {unit}, !.githubChecks = Bound(unit, check2)],
    [Blank EXCEPT !.name = "shared", !.evidence = {plan}, !.githubChecks = Bound(plan, check1)],
    [Blank EXCEPT !.name = "block", !.mutations = {}, !.riskScoreGTE = 85,
                  !.reviewers = {platform}, !.minimumLane = "BLACK", !.block = TRUE],
    [Blank EXCEPT !.name = "owned", !.ownershipTeams = {security}, !.reviewers = {security},
                  !.minimumLane = "RED"],
    [Blank EXCEPT !.name = "tier0", !.mutations = {}, !.criticalities = {"tier0"},
                  !.paths = {"infra"}, !.strategy = "canary", !.requiresCanary = TRUE],
    \* Refused: no condition, no effect, binding without its evidence, out of range.
    [Blank EXCEPT !.name = "always", !.mutations = {}, !.evidence = {unit}],
    [Blank EXCEPT !.name = "noop"],
    [Blank EXCEPT !.name = "undeclared", !.githubChecks = Bound(unit, check1)],
    [Blank EXCEPT !.name = "range", !.riskScoreGTE = 101, !.evidence = {unit}] }

MCRuleNames == { rule.name : rule \in Rules }

MCConfigurations == UNION { [1..n -> Rules] : n \in 0..MaxRules }

MCChanges == [mutations : {{}, {"auth"}}, paths : {{"infra"}}, criticality : {"normal", "tier0"},
              score : {84, 85}, owners : {{}, {security}}]

=============================================================================
