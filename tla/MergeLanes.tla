----------------------------- MODULE MergeLanes -----------------------------
(***************************************************************************)
(* Merge lanes and their assignment: lanes.ThresholdAssigner and the part  *)
(* of a Change Packet that it reads.  A packet here is a record            *)
(*                                                                         *)
(*   status       the policy decision's status                             *)
(*   minimumLane  the lane policy asks for at least, or NoLane             *)
(*   score        the risk score                                           *)
(*   reviewers    a set of [team, mandatory]                               *)
(*   canary       whether deployment requires a canary                     *)
(*   route        the conflict analysis' route; RequiresHumanResolution    *)
(*                is set exactly when the route is "human_resolution"      *)
(*                (conflictrisk.Analyze assigns both together)             *)
(*                                                                         *)
(* and whatever else the module that uses it keeps in it.                  *)
(***************************************************************************)
EXTENDS Integers

CONSTANTS GreenMax, YellowMax, RedMax   \* lanes.Config

(***************************************************************************)
(* config.Validate refuses to start a service on any other thresholds.     *)
(***************************************************************************)
ASSUME ThresholdsOrdered ==
    /\ GreenMax \in 0..100 /\ YellowMax \in 0..100 /\ RedMax \in 0..100
    /\ GreenMax < YellowMax
    /\ YellowMax < RedMax

-----------------------------------------------------------------------------

Lane == {"GREEN", "YELLOW", "RED", "BLACK"}

\* Stands for the empty string: a decision without a minimum lane.
NoLane == "unset"

DecisionStatus == {"pending", "approved", "escalated", "blocked"}

ConflictRoute == {"none", "refresh_and_verify", "human_resolution"}

\* The strictness order of the lanes; a name the map lacks reads as 0.
order == [GREEN |-> 1, YELLOW |-> 2, RED |-> 3, BLACK |-> 4, unset |-> 0]

maxLane(aLane, bLane) ==
    IF bLane # NoLane /\ order[bLane] > order[aLane] THEN bLane ELSE aLane

-----------------------------------------------------------------------------

requiresEscalatedReview(packet) ==
    \E reviewer \in packet.reviewers : reviewer.mandatory

MustBlock(packet) ==
    packet.status = "blocked" \/ packet.route = "human_resolution"

\* The lane is overridden, whatever the risk score is.
IsForced(packet) ==
    \/ MustBlock(packet)
    \/ packet.route = "refresh_and_verify"
    \/ packet.minimumLane = "BLACK"
    \/ packet.status \in {"pending", "escalated"}

\* A stale base is sent to RED before the minimum lane is looked at, but no
\* order of these tests matters to the result: maxLane honours a BLACK minimum.
forcedLane(packet) ==
    IF MustBlock(packet)
    THEN "BLACK"
    ELSE maxLane("RED", packet.minimumLane)

Automatable(packet) ==
    /\ packet.score <= GreenMax
    /\ packet.reviewers = {}
    /\ ~packet.canary

thresholdLane(packet) ==
    IF Automatable(packet)
    THEN maxLane("GREEN", packet.minimumLane)
    ELSE IF packet.score <= YellowMax /\ ~requiresEscalatedReview(packet)
    THEN maxLane("YELLOW", packet.minimumLane)
    ELSE IF packet.score <= RedMax \/ requiresEscalatedReview(packet) \/ packet.canary
    THEN maxLane("RED", packet.minimumLane)
    ELSE "BLACK"

Assign(packet) ==
    IF IsForced(packet) THEN forcedLane(packet) ELSE thresholdLane(packet)

=============================================================================
