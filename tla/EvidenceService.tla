--------------------------- MODULE EvidenceService ---------------------------
(***************************************************************************)
(* controlplane.Service.UpdateEvidenceExecution, the one path by which     *)
(* evidence changes: API requests (HTTP and gRPC) and GitHub check_run     *)
(* webhooks all end in it, in two processes that share the store.  A call  *)
(* makes five calls of its own, to the store and to GitHub, and holds no   *)
(* lock across them; each is an action here:                               *)
(*                                                                         *)
(*   GetChangePacket -> currentEvidenceStatus -> RecordEvidenceUpdate      *)
(*     -> (ListEvidenceExecutions, decide) -> SaveChangePacket             *)
(*     -> PublishWithEvidence                                              *)
(*                                                                         *)
(* Any of them can fail, or the process can stop, which ends the call with *)
(* the effects so far left in place.  Ingestion of a pull request is here  *)
(* only as what it leaves behind: the packet is saved, and its first check *)
(* is published afterwards (ingest.finalize).                              *)
(***************************************************************************)
EXTENDS ChangeStore

CONSTANTS
    NoRequest,      \* a worker without a request
    Workers,        \* calls of UpdateEvidenceExecution that may overlap
    PacketOf,       \* PacketOf[id]: the packet that ingestion saves under id
    MaxRequests,    \* bound on the requests clients make
    MaxFailures,    \* bound on the calls that fail
    SoleReporter,   \* assume no two overlapping calls report the same evidence
    ClientsRetry    \* assume a client repeats a call that failed

VARIABLES
    ingestion,      \* ingestion[id]: how far ingest.finalize has come
    published,      \* published[head]: conclusion of the newest check run
    pc,             \* pc[w]: the next call of w, or how w answered
    input,          \* input[w]: the request
    packet,         \* packet[w]: the copy of the packet that w works on
    from,           \* from[w]: the status of the evidence that w has read
    requests,       \* requests made so far
    failures        \* failures so far

workerVars == <<pc, input, packet, from, requests, failures>>
vars == <<storeVars, ingestion, published, workerVars>>

-----------------------------------------------------------------------------

Conclusion == {"success", "neutral", "action_required"}

\* PublishWithEvidence's conclusion for a lane; YELLOW and RED are neutral.
conclusion(lane) ==
    [GREEN |-> "success", YELLOW |-> "neutral", RED |-> "neutral",
     BLACK |-> "action_required"][lane]

Request == [id : PacketIDs, name : Names, to : EvidenceStatus, actor : Actors]

Answered == {"idle", "done", "refused", "failed"}
InFlight == {"get", "status", "record", "reload", "save", "publish"}

(***************************************************************************)
(* What policy evaluation and lane assignment make of a packet: an         *)
(* approved decision only without requirements, evidence required once per *)
(* name, the lane assigned last (policy.applyPolicyAction,                 *)
(* policy.appendUniqueEvidence, ingest.assignMergeLane).                   *)
(***************************************************************************)
ASSUME PacketsFromPolicy ==
    /\ PacketOf \in [PacketIDs -> Packet]
    /\ \A id \in PacketIDs :
        /\ PacketOf[id].lane = Assign(PacketOf[id])
        /\ PacketOf[id].status = "approved" =>
                PacketOf[id].evidence = {} /\ PacketOf[id].reviewers = {}

ASSUME ServiceConstants ==
    /\ MaxRequests \in Nat
    /\ MaxFailures \in Nat
    /\ SoleReporter \in BOOLEAN
    /\ ClientsRetry \in BOOLEAN

WorkerTypeOK ==
    /\ pc \in [Workers -> Answered \cup InFlight]
    /\ input \in [Workers -> Request \cup {NoRequest}]
    /\ \A w \in Workers : pc[w] \in InFlight \cup {"failed"} => input[w] \in Request
    /\ packet \in [Workers -> Packet \cup {NoPacket}]
    /\ \A w \in Workers : pc[w] \in InFlight \ {"get"} => packet[w] \in Packet
    /\ from \in [Workers -> EvidenceStatus \cup {NoExecution}]
    /\ \A w \in Workers : pc[w] = "record" => from[w] \in EvidenceStatus

TypeOK ==
    /\ StoreTypeOK
    /\ ingestion \in [PacketIDs -> {"waiting", "saved", "finished"}]
    /\ published \in [Heads -> Conclusion \cup {"none"}]
    /\ WorkerTypeOK
    /\ requests \in 0..MaxRequests
    /\ failures \in 0..MaxFailures

Init ==
    /\ StoreInit
    /\ ingestion = [id \in PacketIDs |-> "waiting"]
    /\ published = [head \in Heads |-> "none"]
    /\ pc = [w \in Workers |-> "idle"]
    /\ input = [w \in Workers |-> NoRequest]
    /\ packet = [w \in Workers |-> NoPacket]
    /\ from = [w \in Workers |-> NoExecution]
    /\ requests = 0
    /\ failures = 0

-----------------------------------------------------------------------------
(* Ingestion, as far as the service sees it. *)

IngestSave(id) ==
    /\ ingestion[id] = "waiting"
    /\ SaveChangePacket(id, PacketOf[id])
    /\ ingestion' = [ingestion EXCEPT ![id] = "saved"]
    /\ UNCHANGED <<published, workerVars>>

\* checks.Publish of the packet as ingestion built it, after the save.
IngestPublish(id) ==
    /\ ingestion[id] = "saved"
    /\ published' = [published EXCEPT ![PacketOf[id].head] = conclusion(PacketOf[id].lane)]
    /\ ingestion' = [ingestion EXCEPT ![id] = "finished"]
    /\ UNCHANGED <<storeVars, workerVars>>

-----------------------------------------------------------------------------
(* UpdateEvidenceExecution. *)

\* The request's own validation, before any store access.
ValidRequest(request) == request.to = "waived" => request.actor # NoActor

SamePlace(r, s) == r.id = s.id /\ r.name = s.name

\* The call ends here; what it has read is not used again, and the request only
\* if the client repeats it.
Answer(w, how) ==
    /\ pc' = [pc EXCEPT ![w] = how]
    /\ input' = [input EXCEPT ![w] = IF how = "failed" THEN @ ELSE NoRequest]
    /\ packet' = [packet EXCEPT ![w] = NoPacket]
    /\ from' = [from EXCEPT ![w] = NoExecution]

Submit(w, request) ==
    /\ pc[w] \in Answered
    /\ ClientsRetry => pc[w] # "failed"
    /\ SoleReporter => \A v \in Workers :
            pc[v] \in InFlight => ~SamePlace(input[v], request)
    /\ requests < MaxRequests
    /\ requests' = requests + 1
    /\ \/ /\ ValidRequest(request)
          /\ input' = [input EXCEPT ![w] = request]
          /\ pc' = [pc EXCEPT ![w] = "get"]
          /\ UNCHANGED <<packet, from>>
       \/ /\ ~ValidRequest(request)
          /\ Answer(w, "refused")
    /\ UNCHANGED <<storeVars, ingestion, published, failures>>

\* The client sends the same request again after an error.
Retry(w) ==
    /\ pc[w] = "failed"
    /\ SoleReporter => \A v \in Workers \ {w} :
            pc[v] \in InFlight => ~SamePlace(input[v], input[w])
    /\ pc' = [pc EXCEPT ![w] = "get"]
    /\ UNCHANGED <<storeVars, ingestion, published, input, packet, from, requests, failures>>

\* Faulty: an unknown packet is not noticed.
GetUnchecked(w) ==
    /\ pc[w] = "get"
    /\ packet' = [packet EXCEPT ![w] = packets[input[w].id]]
    /\ pc' = [pc EXCEPT ![w] = "status"]
    /\ UNCHANGED <<storeVars, ingestion, published, input, from, requests, failures>>

\* s.repository.GetChangePacket and findEvidenceRequirement.
GetChangePacket(w) ==
    LET stored == packets[input[w].id]
        found == /\ stored # NoPacket
                 /\ findEvidenceRequirement(stored.evidence, input[w].name) # {}
    IN
    /\ pc[w] = "get"
    /\ \/ /\ found
          /\ packet' = [packet EXCEPT ![w] = stored]
          /\ pc' = [pc EXCEPT ![w] = "status"]
          /\ UNCHANGED <<input, from>>
       \/ /\ ~found
          /\ Answer(w, "refused")
    /\ UNCHANGED <<storeVars, ingestion, published, requests, failures>>

\* Faulty: the lifecycle is not consulted.
ReadAnyStatus(w) ==
    /\ pc[w] = "status"
    /\ from' = [from EXCEPT ![w] = currentEvidenceStatus(input[w].id, input[w].name)]
    /\ pc' = [pc EXCEPT ![w] = "record"]
    /\ UNCHANGED <<storeVars, ingestion, published, input, packet, requests, failures>>

\* Faulty: an update that changes nothing is answered at once.
ReadStatusShortCut(w) ==
    LET current == currentEvidenceStatus(input[w].id, input[w].name) IN
    /\ pc[w] = "status"
    /\ \/ /\ current = input[w].to
          /\ Answer(w, "done")
       \/ /\ current # input[w].to
          /\ canTransitionEvidence(current, input[w].to)
          /\ from' = [from EXCEPT ![w] = current]
          /\ pc' = [pc EXCEPT ![w] = "record"]
          /\ UNCHANGED <<input, packet>>
       \/ /\ ~canTransitionEvidence(current, input[w].to)
          /\ Answer(w, "refused")
    /\ UNCHANGED <<storeVars, ingestion, published, requests, failures>>

ReadStatus(w) ==
    LET current == currentEvidenceStatus(input[w].id, input[w].name) IN
    /\ pc[w] = "status"
    /\ \/ /\ canTransitionEvidence(current, input[w].to)
          /\ from' = [from EXCEPT ![w] = current]
          /\ pc' = [pc EXCEPT ![w] = "record"]
          /\ UNCHANGED <<input, packet>>
       \/ /\ ~canTransitionEvidence(current, input[w].to)
          /\ Answer(w, "refused")
    /\ UNCHANGED <<storeVars, ingestion, published, requests, failures>>

\* Faulty: the entry starts from the status every requirement starts from.
RecordFromPending(w) ==
    /\ pc[w] = "record"
    /\ RecordEvidenceUpdate(input[w].id,
            [name |-> input[w].name, from |-> "pending", to |-> input[w].to,
             actor |-> input[w].actor,
             metadata |-> IF input[w].actor \in GitHubApps THEN "check_run" ELSE "none"])
    /\ pc' = [pc EXCEPT ![w] = "reload"]
    /\ from' = [from EXCEPT ![w] = NoExecution]
    /\ UNCHANGED <<ingestion, published, input, packet, requests, failures>>

\* The audit entry is built from the status that was read, not from the one
\* that is overwritten.
RecordUpdate(w) ==
    /\ pc[w] = "record"
    /\ RecordEvidenceUpdate(input[w].id,
            [name |-> input[w].name, from |-> from[w], to |-> input[w].to,
             actor |-> input[w].actor,
             metadata |-> IF input[w].actor \in GitHubApps THEN "check_run" ELSE "none"])
    /\ pc' = [pc EXCEPT ![w] = "reload"]
    /\ from' = [from EXCEPT ![w] = NoExecution]
    /\ UNCHANGED <<ingestion, published, input, packet, requests, failures>>

\* ListEvidenceExecutions, then the decision and the lane on the copy read by
\* GetChangePacket.
Reconcile(w) ==
    /\ pc[w] = "reload"
    /\ packet' = [packet EXCEPT ![w] = reconcileDecision(@, executions[input[w].id])]
    /\ pc' = [pc EXCEPT ![w] = "save"]
    /\ UNCHANGED <<storeVars, ingestion, published, input, from, requests, failures>>

SavePacket(w) ==
    /\ pc[w] = "save"
    /\ SaveChangePacket(input[w].id, packet[w])
    /\ pc' = [pc EXCEPT ![w] = "publish"]
    /\ UNCHANGED <<ingestion, published, input, packet, from, requests, failures>>

PublishWithEvidence(w) ==
    /\ pc[w] = "publish"
    /\ published' = [published EXCEPT ![packet[w].head] = conclusion(packet[w].lane)]
    /\ Answer(w, "done")
    /\ UNCHANGED <<storeVars, ingestion, requests, failures>>

\* A call of the worker fails or its process stops.  An operation that took
\* effect but was reported as an error is its success followed by this.
Fail(w) ==
    /\ pc[w] \in InFlight
    /\ failures < MaxFailures
    /\ failures' = failures + 1
    /\ Answer(w, "failed")
    /\ UNCHANGED <<storeVars, ingestion, published, requests>>

\* GitHub created the check run but the worker saw an error.
PublishUnacknowledged(w) ==
    /\ pc[w] = "publish"
    /\ failures < MaxFailures
    /\ failures' = failures + 1
    /\ published' = [published EXCEPT ![packet[w].head] = conclusion(packet[w].lane)]
    /\ Answer(w, "failed")
    /\ UNCHANGED <<storeVars, ingestion, requests>>

-----------------------------------------------------------------------------

Step(w) ==
    \/ GetChangePacket(w)
    \/ ReadStatus(w)
    \/ RecordUpdate(w)
    \/ Reconcile(w)
    \/ SavePacket(w)
    \/ PublishWithEvidence(w)

Next ==
    \/ \E id \in PacketIDs : IngestSave(id) \/ IngestPublish(id)
    \/ \E w \in Workers :
        \/ \E request \in Request : Submit(w, request)
        \/ Retry(w)
        \/ Step(w)
        \/ Fail(w)
        \/ PublishUnacknowledged(w)

Spec == Init /\ [][Next]_vars

(***************************************************************************)
(* A handler that has started keeps running until it answers or fails, and *)
(* a client whose request failed sends it again.  Nothing is assumed about *)
(* new requests, about ingestion or about failures.                        *)
(***************************************************************************)
FairSpec ==
    /\ Spec
    /\ \A w \in Workers : WF_vars(Step(w)) /\ WF_vars(Retry(w))
-----------------------------------------------------------------------------
(* Properties. *)

Stored(id) == packets[id] # NoPacket

EvidenceComplete(id) == requiredEvidenceComplete(packets[id].evidence, executions[id])

\* Entry k is the newest of the first n entries of log that are about name.
Newest(log, n, name, k) ==
    /\ k \in 1..n
    /\ log[k].name = name
    /\ \A j \in 1..n : log[j].name = name => j <= k

(***************************************************************************)
(* The audit trail explains the table: the status of every piece of        *)
(* evidence is the one its newest audit entry ends in, and evidence        *)
(* without an entry is still pending.  The code writes the two tables in   *)
(* RecordEvidenceUpdate and one of them again in every SaveChangePacket,   *)
(* which may run on a stale packet.                                        *)
(***************************************************************************)
AuditExplainsStatus ==
    \A id \in PacketIDs, name \in Names :
        LET log == audit[id] IN
        \/ /\ executions[id][name] \in {NoExecution, "pending"}
           /\ \A k \in 1..Len(log) : log[k].name # name
        \/ \E k \in 1..Len(log) :
            /\ Newest(log, Len(log), name, k)
            /\ executions[id][name] = log[k].to

\* After the first n entries of the audit trail all required evidence was
\* satisfied or waived at the same time.
CompleteAfter(log, evidence, n) ==
    \A requirement \in evidence : requirement.required =>
        \E k \in 1..n :
            /\ Newest(log, n, requirement.name, k)
            /\ log[k].to \in Complete

(***************************************************************************)
(* An approval has a witness: whenever a stored packet is approved, there  *)
(* is a point in its audit trail at which all its required evidence was    *)
(* complete at once.  This holds however many calls overlap and fail:      *)
(* reconcileDecision reads all statuses in one store operation.            *)
(***************************************************************************)
ApprovalHasWitness ==
    \A id \in PacketIDs :
        Stored(id) /\ packets[id].status = "approved" =>
            \E n \in 0..Len(audit[id]) :
                CompleteAfter(audit[id], packets[id].evidence, n)

(***************************************************************************)
(* A successful check has a witness: a head commit whose newest            *)
(* merger/change-control check is "success" has a stored packet whose      *)
(* required evidence was complete at some point of its audit trail.        *)
(***************************************************************************)
SuccessHasWitness ==
    \A head \in Heads : published[head] = "success" =>
        \E id \in PacketIDs :
            /\ Stored(id)
            /\ packets[id].head = head
            /\ \E n \in 0..Len(audit[id]) :
                CompleteAfter(audit[id], packets[id].evidence, n)

(***************************************************************************)
(* Waived evidence is attributed: the newest audit entry of every waived   *)
(* piece of evidence is the waiver and names an actor.                     *)
(***************************************************************************)
WaiverIsAttributed ==
    \A id \in PacketIDs, name \in Names :
        executions[id][name] = "waived" =>
            \E k \in 1..Len(audit[id]) :
                /\ Newest(audit[id], Len(audit[id]), name, k)
                /\ audit[id][k].to = "waived"
                /\ audit[id][k].actor # NoActor

(***************************************************************************)
(* The stored lane is never laxer than the stored decision: pending and    *)
(* escalated decisions are at least RED, blocked ones BLACK, and the       *)
(* minimum lane policy asked for survives every reconciliation.            *)
(***************************************************************************)
LaneFollowsDecision ==
    \A id \in PacketIDs : Stored(id) =>
        /\ packets[id].status \in {"pending", "escalated"} => packets[id].lane \in {"RED", "BLACK"}
        /\ packets[id].status = "blocked" => packets[id].lane = "BLACK"
        /\ order[packets[id].lane] >= order[packets[id].minimumLane]

(***************************************************************************)
(* A blocked packet stays blocked and BLACK, whatever evidence is reported *)
(* for it.                                                                 *)
(***************************************************************************)
BlockedIsFinal ==
    [][\A id \in PacketIDs :
        Stored(id) /\ packets[id].status = "blocked" =>
            Stored(id)' /\ packets[id].status' = "blocked" /\ packets[id].lane' = "BLACK"]_vars

(***************************************************************************)
(* GREEN is backed by evidence: the required evidence of a packet that is  *)
(* stored as GREEN is complete now, and it waits for no reviewer.          *)
(***************************************************************************)
GreenIsBacked ==
    \A id \in PacketIDs :
        Stored(id) /\ packets[id].lane = "GREEN" =>
            EvidenceComplete(id) /\ ~hasMandatoryReviewers(packets[id].reviewers)

(***************************************************************************)
(* A successful check is backed by evidence: some stored packet of the     *)
(* head commit has all its required evidence complete now.                 *)
(***************************************************************************)
SuccessIsBacked ==
    \A head \in Heads : published[head] = "success" =>
        \E id \in PacketIDs :
            Stored(id) /\ packets[id].head = head /\ EvidenceComplete(id)

(***************************************************************************)
(* Evidence moves only along the lifecycle: satisfied and waived evidence  *)
(* never changes again and failed evidence is rerun or waived, never just  *)
(* declared satisfied.                                                     *)
(***************************************************************************)
LifecycleRespected ==
    [][\A id \in PacketIDs, name \in Names :
        canTransitionEvidence(currentEvidenceStatus(id, name),
                              currentEvidenceStatus(id, name)')]_vars

(***************************************************************************)
(* The audit trail of a piece of evidence is a chain: each entry starts    *)
(* from the status the one before it ended in, the first from pending.     *)
(* The entry's FromStatus is what the call read before it recorded the     *)
(* update, not what the update replaced.                                   *)
(***************************************************************************)
AuditIsChain ==
    \A id \in PacketIDs : \A k \in 1..Len(audit[id]) :
        LET log == audit[id] IN
        \/ /\ log[k].from = "pending"
           /\ \A j \in 1..(k - 1) : log[j].name # log[k].name
        \/ \E j \in 1..(k - 1) :
            /\ Newest(log, k - 1, log[k].name, j)
            /\ log[k].from = log[j].to

\* Every request has been answered, and none with an error.
Settled == \A w \in Workers : pc[w] \in {"idle", "done", "refused"}

\* The stored packet is what its evidence calls for, or, before anything is
\* reported, what policy made of it.
DecisionIsCurrent(id) ==
    packets[id] = IF audit[id] = <<>> THEN PacketOf[id]
                  ELSE reconcileDecision(packets[id], executions[id])

(***************************************************************************)
(* Once all requests are answered, the stored decision and lane are what   *)
(* the stored evidence calls for, and a packet that nothing was reported   *)
(* for is as policy left it.                                               *)
(***************************************************************************)
SettledDecisionIsCurrent ==
    Settled => \A id \in PacketIDs : Stored(id) => DecisionIsCurrent(id)

(***************************************************************************)
(* Once all requests are answered and ingestion is finished, the newest    *)
(* check on the packet's head commit shows the packet's stored lane.       *)
(***************************************************************************)
SettledCheckIsCurrent ==
    Settled => \A id \in PacketIDs : Stored(id) /\ ingestion[id] = "finished" =>
        published[packets[id].head] = conclusion(packets[id].lane)

(***************************************************************************)
(* What a check run reported keeps its provenance: an audit entry written  *)
(* for a GitHub App carries the check-run metadata it was reported with.   *)
(***************************************************************************)
CheckProvenanceKept ==
    \A id \in PacketIDs : \A k \in 1..Len(audit[id]) :
        audit[id][k].actor \in GitHubApps => audit[id][k].metadata = "check_run"

(***************************************************************************)
(* Complete evidence is eventually acted upon: when the last required      *)
(* piece is in and no reviewer is required, the stored packet becomes      *)
(* approved, although the call that reported it may fail after recording   *)
(* it: the repeated report is accepted and reconciles the decision.        *)
(***************************************************************************)
CompleteEvidenceIsApproved ==
    \A id \in PacketIDs :
        (/\ Stored(id)
         /\ packets[id].status # "blocked"
         /\ ~hasMandatoryReviewers(packets[id].reviewers)
         /\ EvidenceComplete(id)) ~> (Stored(id) /\ packets[id].status = "approved")

=============================================================================
