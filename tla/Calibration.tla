----------------------------- MODULE Calibration -----------------------------
(***************************************************************************)
(* The risk calibration report: the newest outcomes, up to a limit,        *)
(* counted per lane and per risk type (a key here), and the recommendation *)
(* that the share of adverse ones calls for.                               *)
(***************************************************************************)
EXTENDS Naturals, Sequences, FiniteSets

CONSTANTS
    Keys,           \* lanes, or risk types
    MaxListed,      \* how many outcomes the report asks the store for
    MaxOutcomes     \* bound on the outcomes recorded

\* RiskCalibrationReport asks for 10000.
ASSUME CalibrationConstants == MaxListed \in Nat \ {0}

VARIABLE outcomes   \* [key, kind] of the outcomes on record, in order of ObservedAt

Kinds == {"success", "rollback", "incident"}

ReportInit == outcomes = <<>>

SaveDeploymentOutcome(key, kind) ==
    /\ Len(outcomes) < MaxOutcomes
    /\ outcomes' = Append(outcomes, [key |-> key, kind |-> kind])

ReportNext == \E key \in Keys, kind \in Kinds : SaveDeploymentOutcome(key, kind)

ReportSpec == ReportInit /\ [][ReportNext]_outcomes

-----------------------------------------------------------------------------

\* The indices of the newest outcomes, no more than MaxListed.
ListDeploymentOutcomes(s) == {k \in DOMAIN s : k + MaxListed > Len(s)}

\* Faulty: incidents are forgotten.
addRollbacks(s, key) ==
    LET counted == {k \in ListDeploymentOutcomes(s) : s[k].key = key}
    IN [samples |-> Cardinality(counted),
        adverse |-> Cardinality({k \in counted : s[k].kind = "rollback"})]

addCalibration(s, key) ==
    LET counted == {k \in ListDeploymentOutcomes(s) : s[k].key = key}
    IN [samples |-> Cardinality(counted),
        adverse |-> Cardinality({k \in counted : s[k].kind \in {"rollback", "incident"}})]

\* At least 20% adverse of at least 5 samples, less than 5% of at least 5.
calibrationMetrics(counter) ==
    IF counter.samples >= 5 /\ 5 * counter.adverse >= counter.samples THEN "review"
    ELSE IF counter.samples >= 5 /\ 20 * counter.adverse < counter.samples THEN "monitor"
    ELSE "collect_more"

Recommendation(s, key) == calibrationMetrics(addCalibration(s, key))

AdverseIsHeeded ==
    LET last == outcomes'[Len(outcomes')] IN
    (outcomes' # <<>> /\ last.kind \in {"rollback", "incident"}) =>
        /\ Recommendation(outcomes, last.key) = "review" => Recommendation(outcomes', last.key) = "review"
        /\ Recommendation(outcomes, last.key) # "monitor" => Recommendation(outcomes', last.key) # "monitor"

(***************************************************************************)
(* A bad outcome never calms: recording a rollback or an incident under a  *)
(* key leaves a call for review of that key in place and never leads to    *)
(* "no change recommended", also when the report's limit drops an older    *)
(* outcome from the count (addCalibration and calibrationMetrics).         *)
(***************************************************************************)
AdverseNeverCalms == [][AdverseIsHeeded]_outcomes

=============================================================================
