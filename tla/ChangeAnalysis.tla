--------------------------- MODULE ChangeAnalysis ---------------------------
(***************************************************************************)
(* The analysis of a change, from its files to its merge lane: the         *)
(* mutation engine (mutations.RuleBasedEngine), conflict risk              *)
(* (conflictrisk.Analyze), the risk engine (risk.WeightedEngine) and the   *)
(* lane (MergeLanes).  Several jobs analyse changes side by side, in the   *)
(* webhook service or as a local scan; one step is one file, one mutation  *)
(* or one stage.                                                           *)
(*                                                                         *)
(* A file is what the engines can tell about it:                           *)
(*   path, norm  its name and its name after normalizedPath                *)
(*   has         the rule patterns its lowered path matches                *)
(*   ext         its extension; "manifest" for a dependency manifest       *)
(*   patch       what the signal extractors find in the patch              *)
(*   body        what the analyzers find in the content, when it loads     *)
(*   markers     whether the patch holds all three conflict markers        *)
(***************************************************************************)
EXTENDS MergeLanes, FiniteSets, FiniteSetsExt, Sequences, SequencesExt

CONSTANTS
    Jobs,        \* the analyses that run
    Inputs,      \* [Jobs -> [files, engine, criticality, drift, padding]]: who analyses what
    External,    \* path -> the mutations the configured external analyzers report
    Reviewed,    \* kinds for which policy requires a mandatory review
    MayFail      \* whether external analyzers may fail

\* Files come in a sequence, and external analyzers report mutations.
ASSUME AnalysisConstants ==
    /\ \A i \in Inputs, j \in Jobs :
           /\ i[j].files \in Seq(ToSet(i[j].files)) /\ i[j].padding \in Nat /\ i[j].drift \in BOOLEAN
           /\ \A file \in ToSet(i[j].files) : file.path \in DOMAIN External
    /\ \A path \in DOMAIN External : \A m \in External[path] :
           /\ m = [kind |-> m.kind, severity |-> m.severity, confidence |-> m.confidence, files |-> m.files]
           /\ m.confidence \in Int

VARIABLES
    input,       \* the member of Inputs
    jobStage,    \* where each job is
    todo,        \* the files a job has not classified
    unread,      \* the positions of files whose content did not load
    found,       \* what was found in the file at hand and is not in the map
    mutations,   \* kind -> mutation: Classify's map
    conflict,    \* domain.ConflictAssessment
    risk,        \* [score, byType]
    lane

jobVars == <<input, jobStage, todo, unread, found, mutations, conflict, risk, lane>>

-----------------------------------------------------------------------------
(* Mutation rules and analyzers.  Confidences are percentages.             *)

MutationRule(kind, severity, confidence, patterns, signals) ==
    [kind |-> kind, severity |-> severity, confidence |-> confidence,
     patterns |-> patterns, signals |-> signals]

DefaultRules ==
    { MutationRule("auth", "high", 85, {"auth/", "jwt", "oauth", "rbac", "acl"}, {"go:auth_symbol"}),
      MutationRule("schema", "high", 90, {"^migrations/", "^db/migrations/", ".sql$"}, {"sql:ddl"}),
      MutationRule("runtime_config", "medium", 80,
           {"helm/", "k8s/", "deploy/", "config/", "values.yaml$", "values.yml$"}, {"yaml:runtime_key"}),
      MutationRule("api", "high", 88, {"openapi.yaml$", "openapi.yml$", ".proto$"}, {"api:contract_surface"}),
      MutationRule("dependency", "medium", 92,
           {"go.mod$", "go.sum$", "package-lock.json$", "package.json$"}, {}),
      MutationRule("deployment", "high", 82, {".github/workflows/", "deployments/"}, {}),
      MutationRule("observability", "medium", 70, {"telemetry/", "observability/", "alerts/", "dashboards/"}, {}) }

\* The extractors: each supports one extension and looks at the patch, the
\* YAML one at the path too.
extractSignals(file) ==
    LET holds(s) == IF s \in file.patch THEN {s} ELSE {} IN
    CASE file.ext = "go" -> holds("go:auth_symbol") \cup holds("go:function_change")
      [] file.ext = "sql" -> holds("sql:ddl")
      [] file.ext = "yaml" -> holds("yaml:runtime_key") \cup
             (IF "openapi" \in file.has THEN {"api:contract_surface"} ELSE {})
      [] file.ext = "manifest" -> {"manifest:dependency"}
      [] OTHER -> {}

\* A path pattern is enough; otherwise one of the required signals is.
Matches(rule, file) ==
    \/ rule.patterns \cap file.has # {}
    \/ rule.signals \cap extractSignals(file) # {}

Mutation(kind, severity, confidence, file) ==
    [kind |-> kind, severity |-> severity, confidence |-> confidence, files |-> {file.path}]

RuleMutations(file) ==
    {Mutation(r.kind, r.severity, r.confidence, file) : r \in {q \in DefaultRules : Matches(q, file)}}

goASTAnalyzer(file, content) ==
    {m \in {Mutation("auth", "high", 92, file), Mutation("data_access", "medium", 76, file)} :
        file.ext = "go" /\ m.kind \in content}

sqlDDLAnalyzer(file, content) ==
    {m \in {Mutation("schema", "high", 96, file)} : file.ext = "sql" /\ "ddl" \in content}

openAPIAnalyzer(file, content) ==
    IF ".proto$" \in file.has THEN {Mutation("api", "high", 91, file)}
    ELSE {m \in {Mutation("api", "high", 93, file)} :
             {"openapi.yaml$", "openapi.yml$"} \cap file.has # {} /\ "openapi" \in content}

manifestAnalyzer(file) ==
    {m \in {Mutation("dependency", "medium", 97, file)} : file.ext = "manifest"}

\* flattenKeys finds a runtime key at any depth of the YAML document.
runtimeConfigAnalyzer(file, content) ==
    {m \in {Mutation("runtime_config", "medium", 86, file)} :
        /\ file.ext = "yaml"
        /\ {"helm/", "k8s/", "deploy/", "config/"} \cap file.has # {}
        /\ "runtime_key" \in content}

DefaultAnalyzers(file, content) ==
    goASTAnalyzer(file, content) \cup sqlDDLAnalyzer(file, content) \cup openAPIAnalyzer(file, content)
        \cup manifestAnalyzer(file) \cup runtimeConfigAnalyzer(file, content)

\* Everything one pass of Classify's loop adds for a file.
Found(file, content, engine) ==
    RuleMutations(file) \cup DefaultAnalyzers(file, content)
        \cup (IF engine = "external" THEN External[file.path] ELSE {})

severityRank(severity) ==
    IF severity = "critical" THEN 4 ELSE IF severity = "high" THEN 3
    ELSE IF severity = "medium" THEN 2 ELSE 1

\* What becomes of a mutation when the kind is reported again: the files are
\* joined, severity and confidence only rise.
Merge(old, m) ==
    [old EXCEPT !.files = @ \cup m.files,
                !.confidence = IF m.confidence > @ THEN m.confidence ELSE @,
                !.severity = IF severityRank(m.severity) > severityRank(@) THEN m.severity ELSE @]

\* A faulty variant: the first report of a kind keeps its severity.
addMutationFirst(into, m) ==
    [k \in DOMAIN into \cup {m.kind} |->
        IF k # m.kind THEN into[k]
        ELSE IF k \in DOMAIN into THEN [into[k] EXCEPT !.files = @ \cup m.files] ELSE m]

\* One mutation per kind.
addMutation(into, m) ==
    [k \in DOMAIN into \cup {m.kind} |->
        IF k # m.kind THEN into[k] ELSE IF k \in DOMAIN into THEN Merge(into[k], m) ELSE m]

-----------------------------------------------------------------------------
(* Conflict risk.                                                          *)

isPolicySensitive(file) ==
    file.has \cap {"codeowners", "merger.yaml", "^.github/workflows/", "^config/", "^deployments/",
                   "terraform", "migration", "schema"} # {}

Finding(kind, paths) == [kind |-> kind, paths |-> paths]

EmptyPath == ""

\* Files whose path normalises to nothing are skipped.
Named(files) == {file \in ToSet(files) : file.norm # EmptyPath}

Sensitive(files) == {file \in Named(files) : isPolicySensitive(file)}

Marked(files) == {file \in Named(files) : file.markers}

PathsOf(files) == {file.path : file \in files}

\* The normalised paths that several diff entries share.
Overlaps(files) ==
    {n \in {file.norm : file \in Named(files)} :
        \E i, k \in DOMAIN files : i # k /\ files[i].norm = n /\ files[k].norm = n}

\* The findings; overlaps is the order in which the map of paths was ranged over.
Findings(files, drift, overlaps) ==
    LET overlap(n) == Finding("overlapping_diff_entries", PathsOf({f \in Named(files) : f.norm = n}))
        one(condition, kind, paths) == IF condition THEN <<Finding(kind, paths)>> ELSE <<>>
    IN one(drift, "base_drift", {})
         \o [i \in 1..Len(overlaps) |-> overlap(overlaps[i])]
         \o one(Sensitive(files) # {}, "policy_sensitive_files", PathsOf(Sensitive(files)))
         \o one(Marked(files) # {}, "conflict_markers", PathsOf(Marked(files)))

\* What the findings add up to.
FindingScore(files, drift, overlaps) ==
    (IF drift THEN 25 ELSE 0) + 20 * Len(overlaps)
      + (IF Sensitive(files) # {} THEN 10 ELSE 0) + (IF Marked(files) # {} THEN 45 ELSE 0)

\* A faulty variant: a later finding overwrites the route of the markers.
RouteLastFirst(kinds) ==
    IF kinds = {} THEN "none"
    ELSE IF kinds \ {"conflict_markers"} # {} THEN "refresh_and_verify" ELSE "human_resolution"

Route(kinds) ==
    IF kinds = {} THEN "none"
    ELSE IF "conflict_markers" \in kinds THEN "human_resolution" ELSE "refresh_and_verify"

AtMost(n, bound) == IF n > bound THEN bound ELSE n

Analyze(files, drift, overlaps) ==
    LET findings == Findings(files, drift, overlaps)
    IN [findings |-> findings,
        score |-> AtMost(FindingScore(files, drift, overlaps), 100),
        route |-> Route({finding.kind : finding \in ToSet(findings)})]

NoConflict == [findings |-> <<>>, score |-> 0, route |-> "none"]

-----------------------------------------------------------------------------
(* Risk.                                                                   *)

defaultWeights ==
    [auth |-> 35, schema |-> 32, runtime_config |-> 20, api |-> 26, dependency |-> 15,
     infrastructure |-> 28, data_access |-> 24, deployment |-> 24, observability |-> 12, unknown |-> 8]

\* A faulty variant: what nobody recognised weighs more than what somebody did.
WeightCautious(kind) == IF kind \in {"auth", "schema", "unknown"} THEN 35 ELSE 15

Weight(kind) == defaultWeights[kind]

severityFromScore(score) ==
    IF score >= 80 THEN "critical" ELSE IF score >= 55 THEN "high"
    ELSE IF score >= 25 THEN "medium" ELSE "low"

CriticalityScore(criticality) ==
    IF criticality = "high" THEN 10 ELSE IF criticality = "tier0" THEN 20 ELSE 0

\* The loop over the mutations: the kinds of each risk type (classifyRisk) add
\* up; a kind that has no weight adds nothing to the type "runtime".  A type
\* that nothing adds to is a type with score 0.
ByType(kinds, conflictScore) ==
    LET of(kind) == IF kind \in kinds THEN Weight(kind) ELSE 0
    IN [security |-> of("auth"), schema |-> of("schema"), dependency |-> of("dependency"),
        rollout |-> of("runtime_config") + of("deployment"),
        runtime |-> of("api") + of("infrastructure") + of("data_access")
                      + of("observability") + of("unknown"),
        conflict |-> conflictScore]

clampScore(score) == IF score > 100 THEN 100 ELSE IF score < 0 THEN 0 ELSE score

Evaluate(kinds, conflictScore, criticality, fileCount) ==
    LET byType == ByType(kinds, conflictScore)
        volume == IF fileCount > 20 THEN 8 ELSE 0
        score == clampScore(byType.security + byType.schema + byType.dependency + byType.rollout
                              + byType.runtime + byType.conflict
                              + CriticalityScore(criticality) + volume)
    IN [score |-> score, severity |-> severityFromScore(score),
        byType |-> [t \in DOMAIN byType |-> <<byType[t], severityFromScore(byType[t])>>]]

NoRisk == [score |-> 0, severity |-> "low", byType |-> [t \in {} |-> <<0, "low">>]]

-----------------------------------------------------------------------------

NoFunction == [k \in {} |-> k]

AnalysisInit ==
    /\ input \in Inputs
    /\ jobStage = [j \in Jobs |-> "classify"]
    /\ todo = [j \in Jobs |-> input[j].files]
    /\ unread = [j \in Jobs |-> {}]
    /\ found = [j \in Jobs |-> {}]
    /\ mutations = [j \in Jobs |-> NoFunction]
    /\ conflict = [j \in Jobs |-> NoConflict]
    /\ risk = [j \in Jobs |-> NoRisk]
    /\ lane = [j \in Jobs |-> "YELLOW"]

FileCount(j) == Len(input[j].files) + input[j].padding

\* Classify's loop comes to the next file.  Content that does not load is
\* analysed as empty: the loader's error is dropped.
ReadFile(j, loads) ==
    /\ jobStage[j] = "classify" /\ found[j] = {} /\ todo[j] # <<>>
    /\ LET file == Head(todo[j])
       IN found' = [found EXCEPT ![j] = Found(file, IF loads THEN file.body ELSE {}, input[j].engine)]
    /\ unread' = [unread EXCEPT ![j] = IF loads THEN @ ELSE @ \cup {Len(input[j].files) - Len(todo[j]) + 1}]
    /\ todo' = [todo EXCEPT ![j] = Tail(@)]
    /\ UNCHANGED <<input, jobStage, mutations, conflict, risk, lane>>

\* The rules and analyzers add what they found, in any order.
AddMutation(j, m) ==
    /\ jobStage[j] = "classify" /\ m \in found[j]
    /\ mutations' = [mutations EXCEPT ![j] = addMutation(@, m)]
    /\ found' = [found EXCEPT ![j] = @ \ {m}]
    /\ UNCHANGED <<input, jobStage, todo, unread, conflict, risk, lane>>

\* An external analyzer that fails or times out fails the whole analysis.
AnalyzerFails(j) ==
    /\ MayFail /\ jobStage[j] = "classify" /\ input[j].engine = "external"
    /\ todo[j] # <<>> \/ found[j] # {}
    /\ jobStage' = [jobStage EXCEPT ![j] = "failed"]
    /\ UNCHANGED <<input, todo, unread, found, mutations, conflict, risk, lane>>

Unknown(j) ==
    [k \in {"unknown"} |->
        [kind |-> k, severity |-> "low", confidence |-> 35, files |-> PathsOf(ToSet(input[j].files))]]

\* The end of Classify: a change in which nothing was recognised is "unknown".
Classified(j) ==
    /\ jobStage[j] = "classify" /\ found[j] = {} /\ todo[j] = <<>>
    /\ mutations' = [mutations EXCEPT ![j] =
           IF DOMAIN @ = {} /\ FileCount(j) > 0 THEN Unknown(j) ELSE @]
    /\ jobStage' = [jobStage EXCEPT ![j] = "conflict"]
    /\ UNCHANGED <<input, todo, unread, found, conflict, risk, lane>>

AnalyzeConflict(j) ==
    /\ jobStage[j] = "conflict"
    /\ \E overlaps \in SetToSeqs(Overlaps(input[j].files)) :
           conflict' = [conflict EXCEPT ![j] = Analyze(input[j].files, input[j].drift, overlaps)]
    /\ jobStage' = [jobStage EXCEPT ![j] = "risk"]
    /\ UNCHANGED <<input, todo, unread, found, mutations, risk, lane>>

EvaluateRisk(j) ==
    /\ jobStage[j] = "risk"
    /\ risk' = [risk EXCEPT ![j] =
           Evaluate(DOMAIN mutations[j], conflict[j].score, input[j].criticality, FileCount(j))]
    /\ jobStage' = [jobStage EXCEPT ![j] = "lane"]
    /\ UNCHANGED <<input, todo, unread, found, mutations, conflict, lane>>

\* What the assigner reads; policy (module PolicyEngine) is here one rule that
\* asks for a review.
Packet(kinds, score, route) ==
    LET reviewed == kinds \cap Reviewed # {}
    IN [status |-> IF reviewed THEN "pending" ELSE "approved", minimumLane |-> NoLane,
        score |-> score, canary |-> FALSE, route |-> route,
        reviewers |-> IF reviewed THEN {[team |-> "owners", mandatory |-> TRUE]} ELSE {}]

AssignLane(j) ==
    /\ jobStage[j] = "lane"
    /\ lane' = [lane EXCEPT ![j] = Assign(Packet(DOMAIN mutations[j], risk[j].score, conflict[j].route))]
    /\ jobStage' = [jobStage EXCEPT ![j] = "done"]
    /\ UNCHANGED <<input, todo, unread, found, mutations, conflict, risk>>

Step(j) ==
    \/ \E loads \in BOOLEAN : ReadFile(j, loads)
    \/ \E m \in found[j] : AddMutation(j, m)
    \/ AnalyzerFails(j) \/ Classified(j) \/ AnalyzeConflict(j) \/ EvaluateRisk(j) \/ AssignLane(j)

AnalysisNext == \E j \in Jobs : Step(j)

AnalysisSpec == AnalysisInit /\ [][AnalysisNext]_jobVars

-----------------------------------------------------------------------------

\* The mutations that the first k files of in give rise to; the content of the
\* ones at the positions missing did not load.
ReportsOf(in, missing, k) ==
    LET content(i) == IF i \in missing THEN {} ELSE in.files[i].body
    IN UNION {Found(in.files[i], content(i), in.engine) : i \in 1..k}

Reports(j) == ReportsOf(input[j], unread[j], Len(input[j].files))

\* The map that reports should lead to, whatever order they come in.
IsMaximum(map, reports) ==
    /\ DOMAIN map = {m.kind : m \in reports}
    /\ \A kind \in DOMAIN map :
           LET ofKind == {m \in reports : m.kind = kind} IN
           /\ map[kind].files = UNION {m.files : m \in ofKind}
           /\ \A m \in ofKind : /\ severityRank(m.severity) <= severityRank(map[kind].severity)
                                /\ m.confidence <= map[kind].confidence
           /\ \E m \in ofKind : m.severity = map[kind].severity
           /\ \E m \in ofKind : m.confidence = map[kind].confidence

Analysed(j) == jobStage[j] \in {"conflict", "risk", "lane", "done"}

(***************************************************************************)
(* Classify does not depend on the order of files, rules and analyzers:    *)
(* a kind is reported iff some file gives rise to it, for exactly those    *)
(* files, with the highest severity and confidence among their reports,    *)
(* and "unknown" iff no file gives rise to anything.                       *)
(***************************************************************************)
ClassifyIsMaximum ==
    \A j \in Jobs : Analysed(j) =>
        \/ IsMaximum(mutations[j], Reports(j)) /\ (Reports(j) = {} => FileCount(j) = 0)
        \/ Reports(j) = {} /\ FileCount(j) > 0 /\ DOMAIN mutations[j] = {"unknown"}

\* Job w analyses a change that contains job n's, under the same conditions:
\* at says where each of n's files is among w's.  External analyzers report
\* kinds that have a weight, and policy does not ask for a review of exactly
\* those changes in which nothing was recognised.
Widens(w, n) ==
    /\ \E at \in [DOMAIN input[n].files -> DOMAIN input[w].files] :
           /\ \A i, k \in DOMAIN at : at[i] = at[k] => i = k
           /\ \A i \in DOMAIN at : input[w].files[at[i]] = input[n].files[i]
    /\ Len(input[n].files) <= Len(input[w].files) /\ input[n].padding <= input[w].padding
    /\ input[n].engine = input[w].engine /\ input[n].criticality = input[w].criticality
    /\ input[n].drift => input[w].drift
    /\ unread[w] = {}
    /\ DOMAIN mutations[w] \subseteq DOMAIN defaultWeights /\ "unknown" \notin Reviewed

\* The lane is RED because someone has to act first, and not for the score.
Waits(j) ==
    /\ lane[j] = "RED"
    /\ conflict[j].route = "refresh_and_verify" \/ DOMAIN mutations[j] \cap Reviewed # {}

(***************************************************************************)
(* Adding files to a change never makes it look safer: its risk score does *)
(* not fall, although the "unknown" mutation disappears as soon as one     *)
(* file is recognised, and its lane does not fall either, but for one      *)
(* case: forcedLane comes before the thresholds (lanes/assigner.go 28), so *)
(* a change that is BLACK for its score is RED once it also has to be      *)
(* refreshed or reviewed.                                                  *)
(***************************************************************************)
WiderChangeIsNoSafer ==
    \A w, n \in Jobs : (jobStage[w] = "done" /\ jobStage[n] = "done" /\ Widens(w, n)) =>
        /\ risk[n].score <= risk[w].score
        /\ order[lane[n]] <= order[lane[w]] \/ (risk[n].score > RedMax /\ Waits(w))

(***************************************************************************)
(* docs/getting-started.md:216: conflict markers in any named file end in  *)
(* BLACK, and base drift, overlapping entries or policy-sensitive files in *)
(* RED at least, whatever else the change contains.                        *)
(***************************************************************************)
ConflictsAreRouted ==
    \A j \in Jobs : jobStage[j] = "done" =>
        /\ (\E file \in Named(input[j].files) : file.markers) => lane[j] = "BLACK"
        /\ (input[j].drift \/ Overlaps(input[j].files) # {} \/
              \E file \in Named(input[j].files) : isPolicySensitive(file)) =>
               order[lane[j]] >= order["RED"]

(***************************************************************************)
(* internal/scan/scan.go:3: a local scan "produces the same Change Packet  *)
(* and merge-lane decision the services would".                            *)
(***************************************************************************)
ScanMatchesService ==
    \A s, t \in Jobs :
        (jobStage[s] = "done" /\ jobStage[t] = "done" /\ unread[s] = unread[t]
           /\ input[s].files = input[t].files) => lane[s] = lane[t]

(***************************************************************************)
(* internal/conflictrisk/analyzer.go:16: "Analyze returns a deterministic  *)
(* assessment": two assessments of one packet are equal.                   *)
(***************************************************************************)
AssessmentDeterministic ==
    \A s, t \in Jobs :
        (jobStage[s] = "done" /\ jobStage[t] = "done" /\ input[s] = input[t]) => conflict[s] = conflict[t]

=============================================================================
