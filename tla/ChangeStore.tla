----------------------------- MODULE ChangeStore -----------------------------
(***************************************************************************)
(* The repository shared by the ingest and the control-plane processes     *)
(* (store.Repository): Change Packets, the current status of each piece of *)
(* evidence, and the audit trail.  Every method runs under one mutex       *)
(* (MemoryRepository) or in one SQL statement or transaction               *)
(* (PostgresRepository), so each is one atomic operation here; nothing is  *)
(* atomic across two of them.                                              *)
(*                                                                         *)
(* Timestamps, summaries and URLs are left out.                            *)
(***************************************************************************)
EXTENDS EvidenceLifecycle, Sequences

CONSTANTS
    PacketIDs,      \* Change Packet identifiers
    Heads,          \* head commits of pull requests
    Names,          \* evidence names
    Teams,          \* reviewer teams
    Actors,         \* who reports evidence: principals, GitHub Apps, NoActor
    GitHubApps,     \* the actors that are GitHub Apps reporting a check run
    NoActor,        \* an update with an empty UpdatedBy
    NoPacket,       \* no packet is stored under an identifier
    Backend         \* "memory" or "postgres" (store.NewRepository)

VARIABLES
    packets,        \* packets[id]: the stored packet, or NoPacket
    executions,     \* executions[id][name]: the status of the evidence
    audit           \* audit[id]: the audit entries, oldest first

storeVars == <<packets, executions, audit>>

-----------------------------------------------------------------------------

Reviewer == [team : Teams, mandatory : BOOLEAN]

EvidenceRequirement == [name : Names, required : BOOLEAN]

Packet == [status : DecisionStatus, lane : Lane, minimumLane : Lane \cup {NoLane},
           score : 0..100, reviewers : SUBSET Reviewer, canary : BOOLEAN,
           route : ConflictRoute, evidence : SUBSET EvidenceRequirement,
           head : Heads]

\* An update reported for a GitHub check run carries the run, App and commit.
Metadata == {"none", "check_run"}

AuditEntry == [name : Names, from : EvidenceStatus, to : EvidenceStatus,
               actor : Actors, metadata : Metadata]

ASSUME StoreConstants ==
    /\ NoPacket \notin Packet
    /\ GitHubApps \subseteq Actors
    /\ NoActor \notin GitHubApps
    /\ Backend \in {"memory", "postgres"}

StoreTypeOK ==
    /\ packets \in [PacketIDs -> Packet \cup {NoPacket}]
    /\ executions \in [PacketIDs -> [Names -> EvidenceStatus \cup {NoExecution}]]
    /\ audit \in [PacketIDs -> Seq(AuditEntry)]

StoreInit ==
    /\ packets = [id \in PacketIDs |-> NoPacket]
    /\ executions = [id \in PacketIDs |-> [name \in Names |-> NoExecution]]
    /\ audit = [id \in PacketIDs |-> <<>>]

-----------------------------------------------------------------------------

\* Faulty: a save starts every requirement over.
resetEvidence(packet, statusByName) ==
    [name \in Names |->
        IF findEvidenceRequirement(packet.evidence, name) # {}
        THEN "pending"
        ELSE statusByName[name]]

\* ensureEvidenceLocked / syncEvidenceRequirements: a row for each requirement,
\* the status of the rows that exist left alone.
ensureEvidence(packet, statusByName) ==
    [name \in Names |->
        IF statusByName[name] = NoExecution
           /\ findEvidenceRequirement(packet.evidence, name) # {}
        THEN "pending"
        ELSE statusByName[name]]

SaveChangePacket(id, packet) ==
    /\ packets' = [packets EXCEPT ![id] = packet]
    /\ executions' = [executions EXCEPT ![id] = ensureEvidence(packet, executions[id])]
    /\ UNCHANGED audit

\* MemoryRepository's copy of an entry ranges over the map it has just made,
\* so the copy has no metadata; PostgresRepository stores what it is given.
cloneAuditEntry(entry) ==
    IF Backend = "memory" THEN [entry EXCEPT !.metadata = "none"] ELSE entry

\* The execution and its audit entry are written together.
RecordEvidenceUpdate(id, entry) ==
    /\ executions' = [executions EXCEPT ![id][entry.name] = entry.to]
    /\ audit' = [audit EXCEPT ![id] = Append(@, cloneAuditEntry(entry))]
    /\ UNCHANGED packets

\* The status of a name in the execution list, as currentEvidenceStatus has it.
currentEvidenceStatus(id, name) ==
    IF executions[id][name] = NoExecution THEN "pending" ELSE executions[id][name]

=============================================================================
