------------------------- MODULE EvidenceRefinement -------------------------
(* EvidenceService implements EvidenceLedger. *)
EXTENDS EvidenceService

RequiredNames(evidence) == {requirement.name : requirement \in {r \in evidence : r.required}}

Ledger == INSTANCE EvidenceLedger WITH
    trail <- audit,
    Reports <- AuditEntry,
    standing <- [id \in PacketIDs |->
        IF packets[id] = NoPacket THEN "unknown" ELSE packets[id].status],
    RequiredBy <- [id \in PacketIDs |-> RequiredNames(PacketOf[id].evidence)]

(***************************************************************************)
(* The service, with its overlapping, failing and repeated calls, keeps    *)
(* the ledger's promises: each of its steps is a step of the ledger or     *)
(* leaves trail and standings alone.                                       *)
(***************************************************************************)
ImplementsLedger == Ledger!Spec

=============================================================================
