------------------------- MODULE MCControlPlaneReads -------------------------
(* Small instances of ControlPlaneReads for TLC. *)
EXTENDS ControlPlaneReads

CONSTANTS p1, h1, unit, plan, operator

WorkerSymmetry == Permutations(Workers)

\* Low risk, exactly at the threshold, waiting for two pieces of evidence.
TwoPieces ==
    [id \in PacketIDs |->
        [status |-> "pending", lane |-> "RED", minimumLane |-> NoLane, score |-> GreenMax,
         reviewers |-> {}, canary |-> FALSE, route |-> "none",
         evidence |-> [name : {unit, plan}, required : {TRUE}], head |-> h1]]

=============================================================================
