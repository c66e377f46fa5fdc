---------------------------- MODULE PolicyEngine ----------------------------
(***************************************************************************)
(* policy.RuleEngine.Evaluate: validates the configured rules, then walks  *)
(* them in the order of the configuration file and folds each rule that    *)
(* matches the change into one evaluation.  Each iteration of the loop is  *)
(* a step, so that what an evaluation promises after some rules can be     *)
(* compared with what the rules still to come may do to it.                *)
(*                                                                         *)
(* Teams and owners stand for their case-folded names; a path pattern is   *)
(* what a change touches or does not.  Descriptions, reasons, environments *)
(* and RequiresRollbackPlan (which accumulates as RequiresCanary does) are *)
(* left out.                                                               *)
(***************************************************************************)
EXTENDS MergeLanes, Sequences

CONSTANTS
    RuleNames,      \* rule names, trimmed and lower-cased
    MutationKinds,  \* supported mutation kinds
    Patterns,       \* path patterns
    Criticalities,  \* supported criticalities
    Teams,          \* reviewer and ownership teams
    Names,          \* evidence names
    Checks,         \* GitHub checks: a check name and the App that reports it
    Strategies,     \* supported deployment strategies, "direct" among them
    NoStrategy,     \* the rule asks for no strategy
    NotRequired,    \* the evidence is not required
    NoCheck,        \* the evidence is required but bound to no check
    Configurations, \* the rule sequences to consider, valid or not
    Changes         \* the changes to consider

Binding == [evidence : Names, check : Checks]

\* RuleConfig: when, require, action.
Rule == [name : RuleNames,
         mutations : SUBSET MutationKinds, paths : SUBSET Patterns,
         criticalities : SUBSET Criticalities, riskScoreGTE : Int,
         ownershipTeams : SUBSET Teams,
         reviewers : SUBSET Teams, evidence : SUBSET Names, githubChecks : SUBSET Binding,
         strategy : Strategies \cup {NoStrategy}, requiresCanary : BOOLEAN,
         block : BOOLEAN, minimumLane : Lane \cup {NoLane}]

\* What the conditions of a rule can see of a Change Packet.
Change == [mutations : SUBSET MutationKinds, paths : SUBSET Patterns,
           criticality : Criticalities, score : 0..100, owners : SUBSET Teams]

ASSUME PolicyConstants ==
    /\ Configurations \subseteq Seq(Rule)
    /\ Changes \subseteq Change
    /\ "direct" \in Strategies /\ NoStrategy \notin Strategies
    /\ NotRequired # NoCheck
    /\ NotRequired \notin Checks /\ NoCheck \notin Checks

VARIABLES
    policies,       \* the configuration
    change,         \* the change to evaluate
    stage,          \* "start", "evaluating", "done", or "refused" on an error
    index,          \* the rule the loop is at
    evaluation      \* the Evaluation under construction

vars == <<policies, change, stage, index, evaluation>>

-----------------------------------------------------------------------------
(* Validation. *)

hasCondition(rule) ==
    \/ rule.mutations # {} \/ rule.paths # {} \/ rule.criticalities # {}
    \/ rule.riskScoreGTE # 0 \/ rule.ownershipTeams # {}

hasEffect(rule) ==
    \/ rule.reviewers # {} \/ rule.evidence # {} \/ rule.githubChecks # {}
    \/ rule.strategy # NoStrategy \/ rule.requiresCanary
    \/ rule.block \/ rule.minimumLane # NoLane

\* A binding is for evidence of its own rule, and there is one for each.
validateRequirements(rule) ==
    /\ \A binding \in rule.githubChecks : binding.evidence \in rule.evidence
    /\ \A a, b \in rule.githubChecks : a.evidence = b.evidence => a = b

validateRule(rule) ==
    /\ hasCondition(rule)
    /\ hasEffect(rule)
    /\ rule.riskScoreGTE \in 0..100
    /\ validateRequirements(rule)

Validate(config) ==
    /\ \A i, j \in 1..Len(config) : config[i].name = config[j].name => i = j
    /\ \A i \in 1..Len(config) : validateRule(config[i])
    /\ \A i, j \in 1..Len(config) :
        \A a \in config[i].githubChecks, b \in config[j].githubChecks :
            a.evidence = b.evidence <=> a.check = b.check

-----------------------------------------------------------------------------
(* Matching: every condition that is given must hold. *)

matchesRule(rule, packet) ==
    /\ rule.mutations # {} => rule.mutations \cap packet.mutations # {}
    /\ rule.paths # {} => rule.paths \cap packet.paths # {}
    /\ rule.criticalities # {} => packet.criticality \in rule.criticalities
    /\ rule.riskScoreGTE > 0 => packet.score >= rule.riskScoreGTE
    /\ rule.ownershipTeams # {} => rule.ownershipTeams \cap packet.owners # {}

-----------------------------------------------------------------------------
(* Folding one rule into the evaluation. *)

Evaluation == [status : {"approved", "pending", "blocked"},
               minimumLane : Lane \cup {NoLane},
               reviewers : SUBSET Teams,
               evidence : [Names -> Checks \cup {NoCheck, NotRequired}],
               strategy : Strategies, requiresCanary : BOOLEAN,
               violations : SUBSET RuleNames]

NewEvaluation ==
    [status |-> "approved", minimumLane |-> NoLane, reviewers |-> {},
     evidence |-> [name \in Names |-> NotRequired],
     strategy |-> "direct", requiresCanary |-> FALSE, violations |-> {}]

\* The check the rule binds its evidence to, or NoCheck.
githubCheck(rule, name) ==
    IF \E binding \in rule.githubChecks : binding.evidence = name
    THEN (CHOOSE binding \in rule.githubChecks : binding.evidence = name).check
    ELSE NoCheck

\* Faulty: the first rule that names the evidence decides on its binding.
appendFirstEvidence(value, candidate) ==
    IF value = NotRequired THEN candidate ELSE value

\* A binding replaces the lack of one and is never replaced.
appendUniqueEvidence(value, candidate) ==
    IF value \in {NotRequired, NoCheck} THEN candidate ELSE value

applyEvidenceRequirements(evidence, rule) ==
    [name \in Names |->
        IF name \in rule.evidence
        THEN appendUniqueEvidence(evidence[name], githubCheck(rule, name))
        ELSE evidence[name]]

\* The guard on an empty rule.Action.MinimumLane is the caller's.
maxMinimumLane(a, b) ==
    IF b = NoLane THEN a
    ELSE IF a = NoLane \/ order[b] > order[a] THEN b ELSE a

\* Unlike the other requirements, the strategy is that of the last rule to ask.
deploymentStrategy(strategy, rule) ==
    IF rule.strategy = NoStrategy THEN strategy ELSE rule.strategy

\* Faulty: only this rule's own evidence makes the decision pending.
statusOfOwnEvidence(status, rule, reviewers, evidence) ==
    IF rule.block THEN "blocked"
    ELSE IF rule.evidence # {} THEN "pending"
    ELSE status

\* applyPolicyAction: a rule that does not block overwrites the status as soon
\* as anything is required, by this rule or by an earlier one.
policyAction(status, rule, reviewers, evidence) ==
    IF rule.block THEN "blocked"
    ELSE IF reviewers # {} \/ \E name \in Names : evidence[name] # NotRequired
    THEN "pending"
    ELSE status

applyRule(before, rule) ==
    LET reviewers == before.reviewers \cup rule.reviewers
        evidence == applyEvidenceRequirements(before.evidence, rule)
    IN  [status |-> policyAction(before.status, rule, reviewers, evidence),
         minimumLane |-> maxMinimumLane(before.minimumLane, rule.minimumLane),
         reviewers |-> reviewers,
         evidence |-> evidence,
         strategy |-> deploymentStrategy(before.strategy, rule),
         requiresCanary |-> before.requiresCanary \/ rule.requiresCanary,
         violations |-> IF rule.block THEN before.violations \cup {rule.name}
                        ELSE before.violations]

-----------------------------------------------------------------------------

Init ==
    /\ policies \in Configurations
    /\ change \in Changes
    /\ stage = "start"
    /\ index = 1
    /\ evaluation = NewEvaluation

Begin ==
    /\ stage = "start"
    /\ stage' = IF Validate(policies) THEN "evaluating" ELSE "refused"
    /\ UNCHANGED <<policies, change, index, evaluation>>

SkipRule ==
    /\ stage = "evaluating" /\ index <= Len(policies)
    /\ ~matchesRule(policies[index], change)
    /\ index' = index + 1
    /\ UNCHANGED <<policies, change, stage, evaluation>>

ApplyRule ==
    /\ stage = "evaluating" /\ index <= Len(policies)
    /\ matchesRule(policies[index], change)
    /\ evaluation' = applyRule(evaluation, policies[index])
    /\ index' = index + 1
    /\ UNCHANGED <<policies, change, stage>>

Finish ==
    /\ stage = "evaluating" /\ index > Len(policies)
    /\ stage' = "done"
    /\ UNCHANGED <<policies, change, index, evaluation>>

Next == Begin \/ SkipRule \/ ApplyRule \/ Finish

Spec == Init /\ [][Next]_vars

-----------------------------------------------------------------------------
(* Properties. *)

TypeOK ==
    /\ policies \in Configurations
    /\ change \in Changes
    /\ stage \in {"start", "evaluating", "done", "refused"}
    /\ index \in 1..Len(policies) + 1
    /\ evaluation \in Evaluation

\* Decision.AppliedPolicies: the rules that have been folded in.
Applied == { policies[i] : i \in { j \in 1..index - 1 : matchesRule(policies[j], change) } }

(***************************************************************************)
(* What is required does not depend on the order of the rules: reviewers,  *)
(* evidence, check bindings, minimum lane and canary are what the set of   *)
(* matched rules asks for, no less and no more.                            *)
(***************************************************************************)
RequirementsOrderFree ==
    /\ evaluation.reviewers = UNION { rule.reviewers : rule \in Applied }
    /\ \A name \in Names :
        (evaluation.evidence[name] # NotRequired) <=> (\E rule \in Applied : name \in rule.evidence)
    /\ \A rule \in Applied : \A binding \in rule.githubChecks :
        evaluation.evidence[binding.evidence] = binding.check
    /\ \A name \in Names : evaluation.evidence[name] \in Checks =>
        \E rule \in Applied :
            [evidence |-> name, check |-> evaluation.evidence[name]] \in rule.githubChecks
    /\ \A rule \in Applied : order[rule.minimumLane] <= order[evaluation.minimumLane]
    /\ evaluation.minimumLane = NoLane
        \/ \E rule \in Applied : evaluation.minimumLane = rule.minimumLane
    /\ evaluation.requiresCanary <=> \E rule \in Applied : rule.requiresCanary

(***************************************************************************)
(* A change is approved outright only if nothing at all is required of it: *)
(* no reviewer, no evidence, no violation.  The control plane relies on it *)
(* when it takes an approved packet without evidence as complete.          *)
(***************************************************************************)
ApprovedIsUnconstrained ==
    evaluation.status = "approved" =>
        /\ evaluation.reviewers = {}
        /\ \A name \in Names : evaluation.evidence[name] = NotRequired
        /\ evaluation.violations = {}

(***************************************************************************)
(* A GitHub check settles at most one piece of evidence: no two pieces are *)
(* bound to the same check, so a check_run event has one requirement to    *)
(* update (matchingEvidenceRequirement stops at the first).             *)
(***************************************************************************)
CheckSettlesOneEvidence ==
    \A a, b \in Names :
        a # b /\ evaluation.evidence[a] \in Checks => evaluation.evidence[a] # evaluation.evidence[b]

(***************************************************************************)
(* A change that violates policy is blocked: a rule with "block" that      *)
(* matched has recorded a violation saying "policy blocked change          *)
(* propagation".                                                           *)
(***************************************************************************)
ViolationBlocks ==
    stage = "done" /\ evaluation.violations # {} => evaluation.status = "blocked"

=============================================================================
