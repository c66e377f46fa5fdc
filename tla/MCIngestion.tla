----------------------------- MODULE MCIngestion -----------------------------
(* Small instances of Ingestion for TLC. *)
EXTENDS Ingestion, TLC

CONSTANTS a, b, unit, plan, ci, other

Symmetry == Permutations(Workers)

Base == [status |-> "pending", minimumLane |-> NoLane, score |-> 10, reviewers |-> {},
         canary |-> FALSE, route |-> "none", violated |-> FALSE,
         evidence |-> {[name |-> unit, required |-> TRUE, check |-> ci]}]

\* The first commit needs a bound check; the second also breaks a rule and needs
\* evidence that is reported by hand.
Policies ==
    [h \in 1..MaxHead |->
        IF h = 1 THEN Base
        ELSE [Base EXCEPT !.violated = TRUE, !.status = "escalated",
              !.evidence = @ \cup {[name |-> plan, required |-> TRUE, check |-> "none"]}]]

=============================================================================
