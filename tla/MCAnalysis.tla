----------------------------- MODULE MCAnalysis -----------------------------
(***************************************************************************)
(* One run over what Merger computes about changes: a behaviour is a       *)
(* policy evaluation (PolicyEngine, from MCPolicyEngine), a pair of change *)
(* analyses (ChangeAnalysis), a runtime graph resolution (RuntimeGraph) or *)
(* a history of deployment outcomes (Calibration); the variable part says  *)
(* which.  The parts share no state: the variables of the others keep the  *)
(* value Off, or one that means nothing going on.                          *)
(***************************************************************************)
EXTENDS MCPolicyEngine, MCChangeInputs, ChangeAnalysis, RuntimeGraph, Calibration

VARIABLE part

-----------------------------------------------------------------------------
(* Graphs over five ids, one of them never declared. *)

Changed(service, system, nodes, lines) ==
    [service |-> service, system |-> system, nodes |-> nodes, lines |-> lines]
ApiFile == Changed("api", "none", {"a"}, {1})
ChartFile == Changed("none", "ledger", {"b"}, {1, 2})
TextFile == Changed("none", "none", {}, {})

\* The direction of an edge is not looked at, so one of each pair is enough.
Drawn == {<<"a", "b">>, <<"b", "x">>, <<"x", "c">>, <<"a", "c">>, <<"c", "e">>, <<"e", "b">>}
Ranks == {[a |-> "normal", b |-> "high", c |-> "tier0", e |-> "", x |-> ""],
          [a |-> "tier0", b |-> "", c |-> "high", e |-> "normal", x |-> ""]}
Opts(owners, path, depth) == [codeOwners |-> owners, manifestPath |-> path, depth |-> depth]

MCChangedFiles == {<<TextFile>>, <<ApiFile>>, <<ChartFile, ApiFile>>}
MCManifests == [nodes : {{}, {"a"}, {"a", "b", "c", "e"}}, edges : SUBSET Drawn, rank : Ranks]
MCCodeOwners == <<"platform", "payments">>
MCConfigured ==
    {Opts(TRUE, FALSE, 0), Opts(TRUE, TRUE, 0), Opts(FALSE, TRUE, 1), Opts(FALSE, TRUE, 2)}

\* The manifests are as the proofs of RuntimeGraph assume them.
ASSUME GraphAssumption == ManifestsOverIDs

-----------------------------------------------------------------------------

allVars == <<part, vars, jobVars, resolveVars, outcomes>>

Off == "off"

NoPolicy ==
    /\ policies = <<>> /\ change = CHOOSE c \in Changes : TRUE
    /\ stage = "done" /\ index = 1 /\ evaluation = NewEvaluation

NoJobs ==
    /\ jobStage = [j \in Jobs |-> Off]
    /\ input = Off /\ todo = Off /\ unread = Off /\ found = Off
    /\ mutations = Off /\ conflict = Off /\ risk = Off /\ lane = Off

NoGraph ==
    /\ options = Off /\ resolution = Off /\ sources = <<>>
    /\ impact = [state |-> "resolved"] /\ walk = Idle

MCInit ==
    \/ part = "policy" /\ Init /\ NoJobs /\ NoGraph /\ ReportInit
    \/ part = "analysis" /\ AnalysisInit /\ NoPolicy /\ NoGraph /\ ReportInit
    \/ part = "graph" /\ ResolveInit /\ NoPolicy /\ NoJobs /\ ReportInit
    \/ part = "report" /\ ReportInit /\ NoPolicy /\ NoJobs /\ NoGraph

Resolve == part = "graph" /\ ResolveNext /\ UNCHANGED <<part, vars, jobVars, outcomes>>

MCNext ==
    \/ part = "policy" /\ Next /\ UNCHANGED <<part, jobVars, resolveVars, outcomes>>
    \/ part = "analysis" /\ AnalysisNext /\ UNCHANGED <<part, vars, resolveVars, outcomes>>
    \/ Resolve
    \/ part = "report" /\ ReportNext /\ UNCHANGED <<part, vars, jobVars, resolveVars>>

\* The fairness of ResolveSpec (RuntimeGraph).
MCSpec == MCInit /\ [][MCNext]_allVars /\ WF_allVars(Resolve)

=============================================================================
