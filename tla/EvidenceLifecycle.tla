-------------------------- MODULE EvidenceLifecycle --------------------------
(***************************************************************************)
(* The life of one piece of evidence and what a packet's evidence adds up  *)
(* to: the pure helpers of internal/controlplane/service.go.               *)
(***************************************************************************)
EXTENDS MergeLanes

EvidenceStatus == {"pending", "running", "satisfied", "failed", "waived"}

\* No row for the name in the execution table.
NoExecution == "absent"

Complete == {"satisfied", "waived"}

Transitions ==
    { <<"pending", "running">>, <<"pending", "satisfied">>,
      <<"pending", "failed">>,  <<"pending", "waived">>,
      <<"running", "satisfied">>, <<"running", "failed">>,
      <<"running", "waived">>,
      <<"failed", "running">>,  <<"failed", "waived">> }

\* Faulty: reporting the same status again is an invalid transition.
canTransitionNoRepeat(from, to) == <<from, to>> \in Transitions

\* Faulty: complete evidence may be run again.
canTransitionRerun(from, to) ==
    \/ from = to
    \/ <<from, to>> \in Transitions
    \/ from \in Complete /\ to = "failed"

\* Reporting the status the evidence already has is always allowed.
canTransitionEvidence(from, to) == from = to \/ <<from, to>> \in Transitions

findEvidenceRequirement(evidence, name) ==
    { requirement \in evidence : requirement.name = name }

\* Faulty: one complete piece is enough.
someEvidenceComplete(evidence, statusByName) ==
    \E requirement \in evidence :
        requirement.required /\ statusByName[requirement.name] \in Complete

\* Faulty: a run in progress counts.
evidenceUnderWay(evidence, statusByName) ==
    \A requirement \in evidence :
        requirement.required => statusByName[requirement.name] \in Complete \cup {"running"}

\* A name without a row has status "", which is not complete.
requiredEvidenceComplete(evidence, statusByName) ==
    \A requirement \in evidence :
        requirement.required => statusByName[requirement.name] \in Complete

hasMandatoryReviewers(reviewers) == \E reviewer \in reviewers : reviewer.mandatory

\* Faulty: the lane follows the risk score alone.
reconcileByRisk(packet, statusByName) ==
    LET decided == [packet EXCEPT !.status =
            IF packet.status = "blocked" THEN "blocked"
            ELSE IF requiredEvidenceComplete(packet.evidence, statusByName)
            THEN "approved" ELSE "pending"]
    IN  [decided EXCEPT !.lane = thresholdLane(decided)]

\* reconcileDecision on a copy of the packet: a blocked decision is final, any
\* other is recomputed from the evidence; the lane follows the decision.
reconcileDecision(packet, statusByName) ==
    LET status ==
            IF packet.status = "blocked" THEN "blocked"
            ELSE IF /\ requiredEvidenceComplete(packet.evidence, statusByName)
                    /\ ~hasMandatoryReviewers(packet.reviewers)
            THEN "approved"
            ELSE "pending"
        decided == [packet EXCEPT !.status = status]
    IN  [decided EXCEPT !.lane = Assign(decided)]

=============================================================================
