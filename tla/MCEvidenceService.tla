--------------------------- MODULE MCEvidenceService ---------------------------
(* Small instances of EvidenceService for TLC. *)
EXTENDS EvidenceRefinement, TLC

CONSTANTS p1, p2, h1, h2, unit, plan, ci, operator

WorkerSymmetry == Permutations(Workers)

Requires(names) == [name : names, required : {TRUE}]

Base == [status |-> "pending", lane |-> "RED", minimumLane |-> NoLane, score |-> GreenMax,
         reviewers |-> {}, canary |-> FALSE, route |-> "none",
         evidence |-> Requires({unit, plan}), head |-> h1]

\* Low risk, exactly at the threshold, waiting for two pieces of evidence.
TwoPieces == [id \in PacketIDs |-> Base]

\* One packet waiting for two pieces, one blocked by policy.
PendingAndBlocked ==
    [id \in PacketIDs |->
        IF id = p1
        THEN Base
        ELSE [Base EXCEPT !.status = "blocked", !.lane = "BLACK", !.head = h2,
                          !.minimumLane = "YELLOW", !.evidence = Requires({unit})]]

OnePiece == [id \in PacketIDs |-> [Base EXCEPT !.evidence = Requires({unit})]]

=============================================================================
