--------------------------- MODULE EvidenceProofs ---------------------------
(* Proofs about EvidenceService, for any workers, packets, names and bounds.

   First the service itself: types, lanes, the freshness of what a sole
   reporter writes, and the repair that a repeated call makes.  Then the audit
   trail: it explains the statuses and witnesses every approval, however the
   calls overlap and fail.  For this reason the service implements
   EvidenceLedger, and a packet view, which reads packet and trail one after
   the other, is explained by the trail it shows. *)
EXTENDS EvidenceService, EvidenceRefinement, ControlPlaneReads, SequenceTheorems, TLAPS

-----------------------------------------------------------------------------
(* Lanes. *)

(***************************************************************************)
(* lanes.maxLane returns a lane that is one of its arguments and not below *)
(* either of them; an empty second argument is ignored.                    *)
(***************************************************************************)
LEMMA MaxLaneFacts ==
    ASSUME NEW a \in Lane, NEW b \in Lane \cup {NoLane}
    PROVE  /\ maxLane(a, b) \in {a, b} \cap Lane
           /\ order[maxLane(a, b)] >= order[a]
           /\ order[maxLane(a, b)] >= order[b]
  <1>1. \A lane \in Lane \cup {NoLane} : order[lane] \in 0..4
    BY DEF order, Lane, NoLane
  <1>2. order[NoLane] = 0
    BY DEF order, NoLane
  <1>3. order[a] \in 0..4 /\ order[b] \in 0..4
    BY <1>1
  <1>4. CASE b # NoLane /\ order[b] > order[a]
    BY <1>3, <1>4 DEF maxLane
  <1>5. CASE ~(b # NoLane /\ order[b] > order[a])
    <2>1. maxLane(a, b) = a
      BY <1>5 DEF maxLane
    <2>2. order[a] >= order[b]
      BY <1>2, <1>3, <1>5
    <2>3. QED
      BY <1>3, <2>1, <2>2
  <1>6. QED
    BY <1>4, <1>5

(***************************************************************************)
(* lanes.Assign always yields a lane; GREEN only for an approved decision  *)
(* without reviewers, at least RED for a pending or escalated one, BLACK   *)
(* for a blocked one, and never less than the minimum lane.                *)
(***************************************************************************)
LEMMA AssignFacts ==
    ASSUME NEW pkt \in Packet
    PROVE  /\ Assign(pkt) \in Lane
           /\ Assign(pkt) = "GREEN" => pkt.status = "approved" /\ pkt.reviewers = {}
           /\ pkt.status \in {"pending", "escalated"} => Assign(pkt) \in {"RED", "BLACK"}
           /\ pkt.status = "blocked" => Assign(pkt) = "BLACK"
           /\ order[Assign(pkt)] >= order[pkt.minimumLane]
  <1>1. pkt.minimumLane \in Lane \cup {NoLane} /\ pkt.status \in DecisionStatus
    BY DEF Packet
  <1>2. \A a \in Lane : /\ maxLane(a, pkt.minimumLane) \in {a, pkt.minimumLane} \cap Lane
                        /\ order[maxLane(a, pkt.minimumLane)] >= order[a]
                        /\ order[maxLane(a, pkt.minimumLane)] >= order[pkt.minimumLane]
    BY <1>1, MaxLaneFacts
  <1>3. /\ order["GREEN"] = 1 /\ order["YELLOW"] = 2 /\ order["RED"] = 3
        /\ order["BLACK"] = 4 /\ order[NoLane] = 0
    BY DEF order, Lane, NoLane
  <1>4. order[pkt.minimumLane] <= 4
    BY <1>1, <1>3 DEF Lane
  <1>5. CASE IsForced(pkt)
    BY <1>1, <1>2, <1>3, <1>4, <1>5 DEF Assign, forcedLane, MustBlock, IsForced, Lane
  <1>6. CASE ~IsForced(pkt)
    BY <1>1, <1>2, <1>3, <1>4, <1>6
       DEF Assign, thresholdLane, Automatable, MustBlock, IsForced, Lane, DecisionStatus
  <1>7. QED
    BY <1>5, <1>6

(***************************************************************************)
(* reconcileDecision changes nothing of the packet but status and lane,    *)
(* keeps a blocked decision, approves only on complete evidence without    *)
(* mandatory reviewers, and leaves the lane that Assign gives the result.  *)
(***************************************************************************)
LEMMA ReconcileFacts ==
    ASSUME NEW pkt \in Packet, NEW statuses,
           NEW res, res = reconcileDecision(pkt, statuses)
    PROVE  /\ res \in Packet
           /\ res.evidence = pkt.evidence /\ res.head = pkt.head
           /\ res.reviewers = pkt.reviewers /\ res.minimumLane = pkt.minimumLane
           /\ res.lane = Assign(res)
           /\ pkt.status = "blocked" <=> res.status = "blocked"
           /\ res.status = "approved" =>
                /\ requiredEvidenceComplete(pkt.evidence, statuses)
                /\ ~hasMandatoryReviewers(pkt.reviewers)
  <1> DEFINE new == IF pkt.status = "blocked" THEN "blocked"
                    ELSE IF /\ requiredEvidenceComplete(pkt.evidence, statuses)
                            /\ ~hasMandatoryReviewers(pkt.reviewers)
                    THEN "approved" ELSE "pending"
             decided == [pkt EXCEPT !.status = new]
  <1>1. new \in DecisionStatus
    BY DEF DecisionStatus
  <1>2. decided \in Packet
    BY <1>1 DEF Packet
  <1>3. Assign(decided) \in Lane
    BY <1>2, AssignFacts
  <1>4. res = [decided EXCEPT !.lane = Assign(decided)]
    BY DEF reconcileDecision
  <1> HIDE DEF decided
  <1>5. /\ res \in Packet
        /\ \A f \in {"status", "minimumLane", "score", "reviewers", "canary", "route",
                     "evidence", "head"} : res[f] = decided[f]
        /\ res.lane = Assign(decided)
    BY <1>2, <1>3, <1>4 DEF Packet
  <1>6. Assign(res) = Assign(decided)
    BY <1>5 DEF Assign, IsForced, forcedLane, MustBlock, thresholdLane, Automatable,
                requiresEscalatedReview
  <1>7. /\ decided.status = new /\ decided.evidence = pkt.evidence /\ decided.head = pkt.head
        /\ decided.reviewers = pkt.reviewers /\ decided.minimumLane = pkt.minimumLane
    BY DEF decided, Packet
  <1>8. QED
    BY <1>5, <1>6, <1>7

-----------------------------------------------------------------------------
(* Type correctness. *)

(***************************************************************************)
(* SaveChangePacket keeps the store well typed.                            *)
(***************************************************************************)
LEMMA SaveChangePacketType ==
    ASSUME StoreTypeOK, NEW id \in PacketIDs, NEW pkt \in Packet,
           SaveChangePacket(id, pkt)
    PROVE  StoreTypeOK'
  <1>1. executions[id] \in [Names -> EvidenceStatus \cup {NoExecution}]
    BY DEF StoreTypeOK
  <1>2. ensureEvidence(pkt, executions[id]) \in [Names -> EvidenceStatus \cup {NoExecution}]
    BY <1>1 DEF ensureEvidence, EvidenceStatus
  <1>3. QED
    BY <1>2 DEF StoreTypeOK, SaveChangePacket

(***************************************************************************)
(* RecordEvidenceUpdate keeps the store well typed, and what it appends is *)
(* an audit entry about the same evidence ending in the same status.       *)
(***************************************************************************)
LEMMA CloneFacts ==
    ASSUME NEW entry \in AuditEntry
    PROVE  /\ cloneAuditEntry(entry) \in AuditEntry
           /\ cloneAuditEntry(entry).name = entry.name
           /\ cloneAuditEntry(entry).to = entry.to
           /\ cloneAuditEntry(entry).actor = entry.actor
  BY DEF cloneAuditEntry, AuditEntry, Metadata

LEMMA RecordEvidenceUpdateType ==
    ASSUME StoreTypeOK, NEW id \in PacketIDs, NEW entry \in AuditEntry,
           RecordEvidenceUpdate(id, entry)
    PROVE  StoreTypeOK'
  <1>1. entry.name \in Names /\ entry.to \in EvidenceStatus
    BY DEF AuditEntry
  <1>2. executions' \in [PacketIDs -> [Names -> EvidenceStatus \cup {NoExecution}]]
    BY <1>1 DEF StoreTypeOK, RecordEvidenceUpdate
  <1>3. Append(audit[id], cloneAuditEntry(entry)) \in Seq(AuditEntry)
    BY CloneFacts DEF StoreTypeOK
  <1>4. audit' \in [PacketIDs -> Seq(AuditEntry)]
    BY <1>3 DEF StoreTypeOK, RecordEvidenceUpdate
  <1>5. QED
    BY <1>2, <1>4 DEF StoreTypeOK, RecordEvidenceUpdate

(***************************************************************************)
(* The audit entry that UpdateEvidenceExecution builds is well formed.     *)
(***************************************************************************)
LEMMA EntryType ==
    ASSUME TypeOK, NEW w \in Workers, pc[w] = "record"
    PROVE  /\ input[w] \in Request
           /\ [name |-> input[w].name, from |-> from[w], to |-> input[w].to,
               actor |-> input[w].actor,
               metadata |-> IF input[w].actor \in GitHubApps THEN "check_run" ELSE "none"]
                \in AuditEntry
  <1>1. input[w] \in Request /\ from[w] \in EvidenceStatus
    BY DEF TypeOK, WorkerTypeOK, InFlight
  <1>2. QED
    BY <1>1 DEF Request, AuditEntry, Metadata

(***************************************************************************)
(* Ending a call leaves the workers well typed; an error answer comes only *)
(* to a request.                                                           *)
(***************************************************************************)
LEMMA AnswerType ==
    ASSUME WorkerTypeOK, NEW w \in Workers, NEW how \in Answered,
           how = "failed" => pc[w] \in InFlight,
           Answer(w, how)
    PROVE  WorkerTypeOK'
  <1>1. pc' \in [Workers -> Answered \cup InFlight] /\ pc'[w] = how
    BY DEF WorkerTypeOK, Answer
  <1>2. input' \in [Workers -> Request \cup {NoRequest}]
    BY DEF WorkerTypeOK, Answer
  <1>3. how = "failed" => input'[w] \in Request
    BY DEF WorkerTypeOK, Answer
  <1>4. packet' \in [Workers -> Packet \cup {NoPacket}] /\ from' \in [Workers -> EvidenceStatus \cup {NoExecution}]
    BY DEF WorkerTypeOK, Answer
  <1>5. \A v \in Workers \ {w} : /\ pc'[v] = pc[v] /\ input'[v] = input[v]
                                /\ packet'[v] = packet[v] /\ from'[v] = from[v]
    BY DEF WorkerTypeOK, Answer
  <1>6. how \notin InFlight
    BY DEF Answered, InFlight
  <1>7. QED
    BY <1>1, <1>2, <1>3, <1>4, <1>5, <1>6 DEF WorkerTypeOK, InFlight

(***************************************************************************)
(* Every variable of the service stays in its type: in particular a call   *)
(* that goes on past GetChangePacket holds a packet, and one that records  *)
(* an update holds the status it has read.                                 *)
(***************************************************************************)
THEOREM TypeCorrect == Spec => []TypeOK
  <1>1. Init => TypeOK
    BY ServiceConstants DEF Init, StoreInit, TypeOK, WorkerTypeOK, StoreTypeOK, Answered, InFlight
  <1>2. TypeOK /\ [Next]_vars => TypeOK'
    <2> SUFFICES ASSUME TypeOK, [Next]_vars
                 PROVE  TypeOK'
      OBVIOUS
    <2> USE DEF Answered, InFlight
    <2>1. ASSUME NEW id \in PacketIDs, IngestSave(id) PROVE TypeOK'
      <3>1. PacketOf[id] \in Packet
        BY PacketsFromPolicy
      <3>2. StoreTypeOK'
        BY <2>1, <3>1, SaveChangePacketType DEF IngestSave, TypeOK
      <3>3. QED
        BY <2>1, <3>2 DEF IngestSave, TypeOK, WorkerTypeOK, workerVars
    <2>2. ASSUME NEW id \in PacketIDs, IngestPublish(id) PROVE TypeOK'
      <3>1. PacketOf[id].head \in Heads /\ PacketOf[id].lane \in Lane
        BY PacketsFromPolicy DEF Packet
      <3>2. conclusion(PacketOf[id].lane) \in Conclusion
        BY <3>1 DEF conclusion, Conclusion, Lane
      <3>3. QED
        BY <2>2, <3>1, <3>2 DEF IngestPublish, TypeOK, WorkerTypeOK, StoreTypeOK, workerVars, storeVars
    <2>3. ASSUME NEW w \in Workers, NEW request \in Request, Submit(w, request) PROVE TypeOK'
      <3>1. WorkerTypeOK'
        <4>1. CASE Answer(w, "refused")
          BY <4>1, AnswerType DEF TypeOK
        <4>2. CASE ~Answer(w, "refused")
          <5>1. /\ input' = [input EXCEPT ![w] = request]
                /\ pc' = [pc EXCEPT ![w] = "get"]
                /\ UNCHANGED <<packet, from>>
            BY <2>3, <4>2 DEF Submit
          <5>2. QED
            BY <5>1 DEF TypeOK, WorkerTypeOK
        <4>3. QED
          BY <4>1, <4>2
      <3>2. requests' \in 0..MaxRequests
        BY <2>3, ServiceConstants DEF Submit, TypeOK
      <3>3. QED
        BY <2>3, <3>1, <3>2 DEF Submit, TypeOK, StoreTypeOK, storeVars
    <2>4. ASSUME NEW w \in Workers, Retry(w) PROVE TypeOK'
      BY <2>4 DEF Retry, TypeOK, WorkerTypeOK, StoreTypeOK, storeVars
    <2>5. ASSUME NEW w \in Workers, GetChangePacket(w) PROVE TypeOK'
      <3>1. input[w] \in Request
        BY <2>5 DEF GetChangePacket, TypeOK, WorkerTypeOK
      <3>2. WorkerTypeOK'
        <4>1. CASE Answer(w, "refused")
          BY <4>1, AnswerType DEF TypeOK
        <4>2. CASE ~Answer(w, "refused")
          <5>1. /\ packet' = [packet EXCEPT ![w] = packets[input[w].id]]
                /\ packets[input[w].id] # NoPacket
                /\ pc' = [pc EXCEPT ![w] = "status"]
                /\ UNCHANGED <<input, from>>
            BY <2>5, <4>2 DEF GetChangePacket
          <5>2. packets[input[w].id] \in Packet
            BY <3>1, <5>1 DEF TypeOK, StoreTypeOK, Request
          <5>3. QED
            BY <3>1, <5>1, <5>2 DEF TypeOK, WorkerTypeOK
        <4>3. QED
          BY <4>1, <4>2
      <3>3. QED
        BY <2>5, <3>2 DEF GetChangePacket, TypeOK, StoreTypeOK, storeVars
    <2>6. ASSUME NEW w \in Workers, ReadStatus(w) PROVE TypeOK'
      <3>1. currentEvidenceStatus(input[w].id, input[w].name) \in EvidenceStatus
        BY <2>6 DEF ReadStatus, currentEvidenceStatus, TypeOK, WorkerTypeOK, StoreTypeOK,
                    Request, EvidenceStatus
      <3>2. WorkerTypeOK'
        <4>1. CASE Answer(w, "refused")
          BY <4>1, AnswerType DEF TypeOK
        <4>2. CASE ~Answer(w, "refused")
          BY <2>6, <3>1, <4>2 DEF ReadStatus, TypeOK, WorkerTypeOK
        <4>3. QED
          BY <4>1, <4>2
      <3>3. QED
        BY <2>6, <3>2 DEF ReadStatus, TypeOK, StoreTypeOK, storeVars
    <2>7. ASSUME NEW w \in Workers, RecordUpdate(w) PROVE TypeOK'
      <3>1. StoreTypeOK'
        BY <2>7, EntryType, RecordEvidenceUpdateType DEF RecordUpdate, TypeOK, Request
      <3>2. QED
        BY <2>7, <3>1 DEF RecordUpdate, TypeOK, WorkerTypeOK
    <2>8. ASSUME NEW w \in Workers, Reconcile(w) PROVE TypeOK'
      <3>1. reconcileDecision(packet[w], executions[input[w].id]) \in Packet
        BY <2>8, ReconcileFacts DEF Reconcile, TypeOK, WorkerTypeOK
      <3>2. QED
        BY <2>8, <3>1 DEF Reconcile, TypeOK, WorkerTypeOK, StoreTypeOK, storeVars
    <2>9. ASSUME NEW w \in Workers, SavePacket(w) PROVE TypeOK'
      <3>1. StoreTypeOK'
        BY <2>9, SaveChangePacketType DEF SavePacket, TypeOK, WorkerTypeOK, Request
      <3>2. QED
        BY <2>9, <3>1 DEF SavePacket, TypeOK, WorkerTypeOK
    <2>10. ASSUME NEW w \in Workers, PublishWithEvidence(w) \/ PublishUnacknowledged(w)
           PROVE TypeOK'
      <3>1. packet[w].head \in Heads /\ packet[w].lane \in Lane
        BY <2>10 DEF PublishWithEvidence, PublishUnacknowledged, TypeOK, WorkerTypeOK, Packet
      <3>2. conclusion(packet[w].lane) \in Conclusion
        BY <3>1 DEF conclusion, Conclusion, Lane
      <3>3. WorkerTypeOK'
        BY <2>10, AnswerType DEF PublishWithEvidence, PublishUnacknowledged, TypeOK
      <3>4. published' \in [Heads -> Conclusion \cup {"none"}]
        BY <2>10, <3>1, <3>2 DEF PublishWithEvidence, PublishUnacknowledged, TypeOK
      <3>5. QED
        BY <2>10, <3>3, <3>4, ServiceConstants
           DEF PublishWithEvidence, PublishUnacknowledged, TypeOK, StoreTypeOK, storeVars
    <2>11. ASSUME NEW w \in Workers, Fail(w) PROVE TypeOK'
      <3>1. WorkerTypeOK'
        BY <2>11, AnswerType DEF Fail, TypeOK
      <3>2. QED
        BY <2>11, <3>1, ServiceConstants DEF Fail, TypeOK, StoreTypeOK, storeVars
    <2>12. CASE UNCHANGED vars
      BY <2>12 DEF vars, workerVars, storeVars, TypeOK, WorkerTypeOK, StoreTypeOK
    <2>13. QED
      BY <2>1, <2>2, <2>3, <2>4, <2>5, <2>6, <2>7, <2>8, <2>9, <2>10, <2>11, <2>12
         DEF Next, Step
  <1>3. QED
    BY <1>1, <1>2, PTL DEF Spec

-----------------------------------------------------------------------------
(* What no update changes. *)

\* The copy pkt still has what ingestion gave packet id, and its lane is the one
\* that its decision calls for.
Descends(pkt, id) ==
    /\ pkt.evidence = PacketOf[id].evidence
    /\ pkt.reviewers = PacketOf[id].reviewers
    /\ pkt.head = PacketOf[id].head
    /\ pkt.minimumLane = PacketOf[id].minimumLane
    /\ pkt.status = "blocked" <=> PacketOf[id].status = "blocked"
    /\ pkt.lane = Assign(pkt)

\* The calls that hold a copy of their packet.
Holding == InFlight \ {"get"}

DescentInv ==
    /\ \A id \in PacketIDs : Stored(id) => Descends(packets[id], id)
    /\ \A id \in PacketIDs : ingestion[id] # "waiting" <=> Stored(id)
    /\ \A w \in Workers : pc[w] \in Holding =>
        Stored(input[w].id) /\ Descends(packet[w], input[w].id)

(***************************************************************************)
(* No update changes what policy required of a packet, and every copy of a *)
(* packet, stored or held by a call, is blocked exactly if ingestion       *)
(* blocked it and has the lane its decision calls for.  A call may save a  *)
(* copy it read long ago; this is why that loses no requirement.           *)
(***************************************************************************)
THEOREM DescentCorrect == Spec => []DescentInv
  <1> USE DEF InFlight, Holding
  <1>1. Init => DescentInv
    BY DEF Init, StoreInit, DescentInv, Stored
  <1>2. TypeOK /\ DescentInv /\ [Next]_vars => DescentInv'
    <2> SUFFICES ASSUME TypeOK, DescentInv, [Next]_vars
                 PROVE  DescentInv'
      OBVIOUS
    <2>1. ASSUME NEW id \in PacketIDs, IngestSave(id) PROVE DescentInv'
      <3>1. PacketOf[id] \in Packet /\ Descends(PacketOf[id], id)
        BY PacketsFromPolicy DEF Descends
      <3>2. PacketOf[id] # NoPacket
        BY <3>1, StoreConstants
      <3>3. packets' = [packets EXCEPT ![id] = PacketOf[id]]
        BY <2>1 DEF IngestSave, SaveChangePacket
      <3>4. QED
        BY <2>1, <3>1, <3>2, <3>3
           DEF IngestSave, DescentInv, Stored, TypeOK, StoreTypeOK, workerVars
    <2>2. ASSUME NEW id \in PacketIDs, IngestPublish(id) PROVE DescentInv'
      BY <2>2 DEF IngestPublish, DescentInv, Stored, workerVars, storeVars, TypeOK
    <2>3. ASSUME NEW w \in Workers, NEW request \in Request, Submit(w, request)
          PROVE DescentInv'
      BY <2>3 DEF Submit, Answer, Answered, DescentInv, Stored, storeVars, TypeOK, WorkerTypeOK
    <2>4. ASSUME NEW w \in Workers, Retry(w) PROVE DescentInv'
      BY <2>4 DEF Retry, DescentInv, Stored, storeVars, TypeOK, WorkerTypeOK
    <2>5. ASSUME NEW w \in Workers, GetChangePacket(w) PROVE DescentInv'
      <3>1. input[w] \in Request
        BY <2>5 DEF GetChangePacket, TypeOK, WorkerTypeOK
      <3>2. CASE Answer(w, "refused")
        BY <2>5, <3>2 DEF GetChangePacket, Answer, DescentInv, Stored, storeVars, TypeOK, WorkerTypeOK
      <3>3. CASE ~Answer(w, "refused")
        <4>1. /\ packet' = [packet EXCEPT ![w] = packets[input[w].id]]
              /\ Stored(input[w].id)
              /\ pc' = [pc EXCEPT ![w] = "status"]
              /\ UNCHANGED <<input, from, packets, ingestion>>
          BY <2>5, <3>3 DEF GetChangePacket, Stored, storeVars
        <4>2. QED
          BY <3>1, <4>1 DEF DescentInv, Stored, TypeOK, WorkerTypeOK, Request
      <3>4. QED
        BY <3>2, <3>3
    <2>6. ASSUME NEW w \in Workers, ReadStatus(w) PROVE DescentInv'
      BY <2>6 DEF ReadStatus, Answer, DescentInv, Stored, storeVars, TypeOK, WorkerTypeOK
    <2>7. ASSUME NEW w \in Workers, RecordUpdate(w) PROVE DescentInv'
      BY <2>7 DEF RecordUpdate, RecordEvidenceUpdate, DescentInv, Stored, TypeOK, WorkerTypeOK
    <2>8. ASSUME NEW w \in Workers, Reconcile(w) PROVE DescentInv'
      <3>1. packet[w] \in Packet /\ Descends(packet[w], input[w].id)
        BY <2>8 DEF Reconcile, DescentInv, TypeOK, WorkerTypeOK
      <3> DEFINE res == reconcileDecision(packet[w], executions[input[w].id])
      <3>2. Descends(res, input[w].id)
        BY <3>1, ReconcileFacts DEF Descends
      <3>3. packet' = [packet EXCEPT ![w] = res]
        BY <2>8 DEF Reconcile
      <3> HIDE DEF res
      <3>4. QED
        BY <2>8, <3>2, <3>3 DEF Reconcile, DescentInv, Stored, storeVars, TypeOK, WorkerTypeOK
    <2>9. ASSUME NEW w \in Workers, SavePacket(w) PROVE DescentInv'
      <3>1. packet[w] \in Packet /\ Descends(packet[w], input[w].id) /\ input[w].id \in PacketIDs
        BY <2>9 DEF SavePacket, DescentInv, TypeOK, WorkerTypeOK, Request
      <3>2. packet[w] # NoPacket
        BY <3>1, StoreConstants
      <3>3. packets' = [packets EXCEPT ![input[w].id] = packet[w]]
        BY <2>9 DEF SavePacket, SaveChangePacket
      <3>4. QED
        BY <2>9, <3>1, <3>2, <3>3
           DEF SavePacket, DescentInv, Stored, TypeOK, StoreTypeOK, WorkerTypeOK
    <2>10. ASSUME NEW w \in Workers,
                  PublishWithEvidence(w) \/ PublishUnacknowledged(w) \/ Fail(w)
           PROVE DescentInv'
      BY <2>10 DEF PublishWithEvidence, PublishUnacknowledged, Fail, Answer,
                   DescentInv, Stored, storeVars, TypeOK, WorkerTypeOK
    <2>11. CASE UNCHANGED vars
      BY <2>11 DEF vars, workerVars, storeVars, DescentInv, Stored
    <2>12. QED
      BY <2>1, <2>2, <2>3, <2>4, <2>5, <2>6, <2>7, <2>8, <2>9, <2>10, <2>11 DEF Next, Step
  <1>3. QED
    BY <1>1, <1>2, TypeCorrect, PTL DEF Spec

(***************************************************************************)
(* For every instance, the stored lane is never laxer than the decision.   *)
(***************************************************************************)
THEOREM LaneFollowsDecisionHolds == Spec => []LaneFollowsDecision
  <1>1. TypeOK /\ DescentInv => LaneFollowsDecision
    <2> SUFFICES ASSUME TypeOK, DescentInv, NEW id \in PacketIDs, Stored(id)
                 PROVE  /\ packets[id].status \in {"pending", "escalated"} =>
                                packets[id].lane \in {"RED", "BLACK"}
                        /\ packets[id].status = "blocked" => packets[id].lane = "BLACK"
                        /\ order[packets[id].lane] >= order[packets[id].minimumLane]
      BY DEF LaneFollowsDecision
    <2>1. packets[id] \in Packet /\ packets[id].lane = Assign(packets[id])
      BY DEF TypeOK, StoreTypeOK, Stored, DescentInv, Descends
    <2>2. QED
      BY <2>1, AssignFacts
  <1>2. QED
    BY <1>1, TypeCorrect, DescentCorrect, PTL

(***************************************************************************)
(* For every instance, a blocked packet stays blocked and BLACK.           *)
(***************************************************************************)
THEOREM BlockedIsFinalHolds == Spec => BlockedIsFinal
  <1> DEFINE Final == \A id \in PacketIDs :
                Stored(id) /\ packets[id].status = "blocked" =>
                    Stored(id)' /\ packets[id].status' = "blocked" /\ packets[id].lane' = "BLACK"
  <1>1. /\ TypeOK /\ DescentInv /\ [Next]_vars /\ TypeOK' /\ DescentInv'
        => [Final]_vars
    <2> SUFFICES ASSUME TypeOK, DescentInv, [Next]_vars, TypeOK', DescentInv',
                        NEW id \in PacketIDs, Stored(id), packets[id].status = "blocked"
                 PROVE  Stored(id)' /\ packets[id].status' = "blocked" /\ packets[id].lane' = "BLACK"
      OBVIOUS
    <2>1. ingestion[id] # "waiting" => ingestion'[id] # "waiting"
      BY DEF Next, Step, vars, TypeOK, IngestSave, IngestPublish, Submit, Retry, GetChangePacket,
             ReadStatus, RecordUpdate, Reconcile, SavePacket, PublishWithEvidence, Fail,
             PublishUnacknowledged
    <2>2. Stored(id)'
      BY <2>1 DEF DescentInv
    <2>3. packets[id]' \in Packet
      BY <2>2 DEF TypeOK, StoreTypeOK, Stored
    <2>4. packets[id].status' = "blocked" /\ packets[id].lane' = Assign(packets[id]')
      BY <2>2 DEF DescentInv, Descends
    <2>5. QED
      BY <2>2, <2>3, <2>4, AssignFacts
  <1>2. Spec => [][Final]_vars
    BY <1>1, TypeCorrect, DescentCorrect, PTL DEF Spec
  <1>3. QED
    BY <1>2 DEF BlockedIsFinal

-----------------------------------------------------------------------------
(* GREEN is backed by evidence when reporters do not overlap. *)

Backed(pkt, statuses) ==
    pkt.status = "approved" =>
        /\ requiredEvidenceComplete(pkt.evidence, statuses)
        /\ ~hasMandatoryReviewers(pkt.reviewers)

\* Overlapping calls are about different evidence.
Disjoint ==
    \A v, w \in Workers :
        v # w /\ pc[v] \in InFlight /\ pc[w] \in InFlight => ~SamePlace(input[v], input[w])

\* The status a call is about to replace is still the one it has checked.
Fresh ==
    \A w \in Workers : pc[w] = "record" =>
        /\ from[w] = currentEvidenceStatus(input[w].id, input[w].name)
        /\ canTransitionEvidence(from[w], input[w].to)

BackedInv ==
    /\ \A id \in PacketIDs : Stored(id) => Backed(packets[id], executions[id])
    /\ \A w \in Workers : pc[w] \in {"save", "publish"} =>
        Backed(packet[w], executions[input[w].id])

(***************************************************************************)
(* Complete evidence stays complete: a call about to record a status has   *)
(* checked the transition from the current one, and satisfied and waived   *)
(* evidence only allows itself.                                            *)
(***************************************************************************)
LEMMA CompletenessGrows ==
    ASSUME TypeOK, Fresh, [Next]_vars,
           NEW id \in PacketIDs, NEW name \in Names, executions[id][name] \in Complete
    PROVE  executions'[id][name] \in Complete
  <1>1. ASSUME NEW pkt, NEW i \in PacketIDs, SaveChangePacket(i, pkt)
        PROVE  executions'[id][name] \in Complete
    BY <1>1 DEF SaveChangePacket, ensureEvidence, TypeOK, StoreTypeOK, Complete, NoExecution
  <1>2. ASSUME NEW w \in Workers, RecordUpdate(w)
        PROVE  executions'[id][name] \in Complete
    <2>1. input[w] \in Request /\ pc[w] = "record"
      BY <1>2, EntryType DEF RecordUpdate
    <2>2. executions' = [executions EXCEPT ![input[w].id][input[w].name] = input[w].to]
      BY <1>2 DEF RecordUpdate, RecordEvidenceUpdate
    <2>3. CASE input[w].id = id /\ input[w].name = name
      <3>1. from[w] \in Complete
        BY <2>1, <2>3 DEF Fresh, currentEvidenceStatus, Complete, NoExecution
      <3>2. input[w].to = from[w]
        BY <2>1, <3>1 DEF Fresh, canTransitionEvidence, Transitions, Complete
      <3>3. QED
        BY <2>2, <2>3, <3>1, <3>2 DEF TypeOK, StoreTypeOK
    <2>4. CASE ~(input[w].id = id /\ input[w].name = name)
      BY <2>1, <2>2, <2>4 DEF TypeOK, StoreTypeOK, Request
    <2>5. QED
      BY <2>3, <2>4
  <1>3. CASE UNCHANGED executions
    BY <1>3
  <1>4. QED
    <2>1. ASSUME NEW w \in Workers, SavePacket(w) PROVE input[w].id \in PacketIDs
      BY <2>1 DEF SavePacket, TypeOK, WorkerTypeOK, Request, InFlight
    <2>2. QED
      BY <1>1, <1>2, <1>3, <2>1
         DEF Next, Step, vars, storeVars, IngestSave, IngestPublish, Submit, Retry, GetChangePacket,
             ReadStatus, Reconcile, SavePacket, PublishWithEvidence, Fail, PublishUnacknowledged

(***************************************************************************)
(* A packet backed by some statuses is backed by any that are at least as  *)
(* complete.                                                               *)
(***************************************************************************)
LEMMA BackedGrows ==
    ASSUME NEW pkt \in Packet, NEW before, NEW after, Backed(pkt, before),
           \A name \in Names : before[name] \in Complete => after[name] \in Complete
    PROVE  Backed(pkt, after)
  BY DEF Backed, requiredEvidenceComplete, Packet, EvidenceRequirement

(***************************************************************************)
(* A save leaves the status that a reader of the execution list sees: a    *)
(* row it adds is pending, which is what a missing row reads as.           *)
(***************************************************************************)
LEMMA SaveKeepsStatus ==
    ASSUME TypeOK, NEW i \in PacketIDs, NEW pkt, SaveChangePacket(i, pkt),
           NEW id \in PacketIDs, NEW name \in Names
    PROVE  currentEvidenceStatus(id, name)' = currentEvidenceStatus(id, name)
  BY DEF SaveChangePacket, ensureEvidence, currentEvidenceStatus, TypeOK, StoreTypeOK, NoExecution

(***************************************************************************)
(* When no two overlapping calls report the same evidence, a status that a *)
(* call has checked is still current when the call replaces it.            *)
(***************************************************************************)
THEOREM SoleReporterIsFresh == ASSUME SoleReporter PROVE Spec => [](Disjoint /\ Fresh)
  <1> USE DEF InFlight
  <1>1. Init => Disjoint /\ Fresh
    BY DEF Init, Disjoint, Fresh
  <1>2. TypeOK /\ Disjoint /\ Fresh /\ [Next]_vars => (Disjoint /\ Fresh)'
    <2> SUFFICES ASSUME TypeOK, Disjoint, Fresh, [Next]_vars
                 PROVE  Disjoint' /\ Fresh'
      OBVIOUS
    <2>0. \A w \in Workers : pc[w] \in InFlight =>
            /\ input[w] \in Request
            /\ input[w].id \in PacketIDs /\ input[w].name \in Names
      BY DEF TypeOK, WorkerTypeOK, Request
    <2>1. ASSUME NEW id \in PacketIDs, IngestSave(id) PROVE Disjoint' /\ Fresh'
      <3>1. \A w \in Workers : pc[w] = "record" =>
                currentEvidenceStatus(input[w].id, input[w].name)' =
                currentEvidenceStatus(input[w].id, input[w].name)
        <4> SUFFICES ASSUME NEW w \in Workers, pc[w] = "record"
                     PROVE  currentEvidenceStatus(input[w].id, input[w].name)' =
                            currentEvidenceStatus(input[w].id, input[w].name)
          OBVIOUS
        <4>1. UNCHANGED input
          BY <2>1 DEF IngestSave, workerVars
        <4>2. QED
          BY <2>0, <2>1, <4>1, SaveKeepsStatus DEF IngestSave, currentEvidenceStatus
      <3>2. QED
        BY <2>1, <3>1 DEF IngestSave, workerVars, Disjoint, Fresh, SamePlace
    <2>2. ASSUME NEW id \in PacketIDs, IngestPublish(id) PROVE Disjoint' /\ Fresh'
      BY <2>2 DEF IngestPublish, workerVars, storeVars, Disjoint, Fresh, SamePlace,
                  currentEvidenceStatus
    <2>3. ASSUME NEW w \in Workers, NEW request \in Request, Submit(w, request)
          PROVE Disjoint' /\ Fresh'
      BY <2>3 DEF Submit, Answer, storeVars, Disjoint, Fresh, SamePlace, TypeOK, WorkerTypeOK,
                  currentEvidenceStatus
    <2>4. ASSUME NEW w \in Workers, Retry(w) PROVE Disjoint' /\ Fresh'
      BY <2>4 DEF Retry, storeVars, Disjoint, Fresh, SamePlace, TypeOK, WorkerTypeOK,
                  currentEvidenceStatus
    <2>5. ASSUME NEW w \in Workers, GetChangePacket(w) PROVE Disjoint' /\ Fresh'
      BY <2>5 DEF GetChangePacket, Answer, storeVars, Disjoint, Fresh, SamePlace, TypeOK,
                  WorkerTypeOK, currentEvidenceStatus
    <2>6. ASSUME NEW w \in Workers, ReadStatus(w) PROVE Disjoint' /\ Fresh'
      BY <2>6 DEF ReadStatus, Answer, storeVars, Disjoint, Fresh, SamePlace, TypeOK,
                  WorkerTypeOK, currentEvidenceStatus
    <2>7. ASSUME NEW w \in Workers, RecordUpdate(w) PROVE Disjoint' /\ Fresh'
      <3>1. pc[w] = "record" /\ UNCHANGED input /\ pc' = [pc EXCEPT ![w] = "reload"]
            /\ from' = [from EXCEPT ![w] = NoExecution]
            /\ executions' = [executions EXCEPT ![input[w].id][input[w].name] = input[w].to]
        BY <2>7 DEF RecordUpdate, RecordEvidenceUpdate
      <3>2. Disjoint'
        BY <3>1 DEF Disjoint, SamePlace, TypeOK, WorkerTypeOK
      <3>3. ASSUME NEW v \in Workers, pc'[v] = "record"
            PROVE  /\ from'[v] = currentEvidenceStatus(input[v].id, input[v].name)'
                   /\ canTransitionEvidence(from'[v], input'[v].to)
        <4>1. v # w /\ pc[v] = "record" /\ from'[v] = from[v]
          BY <3>1, <3>3 DEF TypeOK, WorkerTypeOK
        <4>2. input[v].id # input[w].id \/ input[v].name # input[w].name
          BY <3>1, <4>1 DEF Disjoint, SamePlace
        <4>3. executions'[input[v].id][input[v].name] = executions[input[v].id][input[v].name]
          BY <2>0, <3>1, <4>1, <4>2 DEF TypeOK, StoreTypeOK
        <4>4. QED
          BY <3>1, <4>1, <4>3 DEF Fresh, currentEvidenceStatus
      <3>4. QED
        BY <3>2, <3>3 DEF Fresh
    <2>8. ASSUME NEW w \in Workers, Reconcile(w) PROVE Disjoint' /\ Fresh'
      BY <2>8 DEF Reconcile, storeVars, Disjoint, Fresh, SamePlace, TypeOK, WorkerTypeOK,
                  currentEvidenceStatus
    <2>9. ASSUME NEW w \in Workers, SavePacket(w) PROVE Disjoint' /\ Fresh'
      <3>1. UNCHANGED <<input, from>> /\ pc' = [pc EXCEPT ![w] = "publish"] /\ pc[w] = "save"
        BY <2>9 DEF SavePacket
      <3>2. ASSUME NEW v \in Workers, pc[v] = "record"
            PROVE  currentEvidenceStatus(input[v].id, input[v].name)' =
                   currentEvidenceStatus(input[v].id, input[v].name)
        BY <2>0, <2>9, <3>1, <3>2, SaveKeepsStatus DEF SavePacket, currentEvidenceStatus
      <3>3. QED
        BY <3>1, <3>2 DEF Disjoint, Fresh, SamePlace, TypeOK, WorkerTypeOK
    <2>10. ASSUME NEW w \in Workers,
                  PublishWithEvidence(w) \/ PublishUnacknowledged(w) \/ Fail(w)
           PROVE Disjoint' /\ Fresh'
      BY <2>10 DEF PublishWithEvidence, PublishUnacknowledged, Fail, Answer, storeVars,
                   Disjoint, Fresh, SamePlace, TypeOK, WorkerTypeOK, currentEvidenceStatus
    <2>11. CASE UNCHANGED vars
      BY <2>11 DEF vars, workerVars, storeVars, Disjoint, Fresh, SamePlace, currentEvidenceStatus
    <2>12. QED
      BY <2>1, <2>2, <2>3, <2>4, <2>5, <2>6, <2>7, <2>8, <2>9, <2>10, <2>11 DEF Next, Step
  <1>3. QED
    BY <1>1, <1>2, TypeCorrect, PTL DEF Spec

(***************************************************************************)
(* When no two overlapping calls report the same evidence, every approved  *)
(* packet, stored or about to be, is backed by the statuses in the store.  *)
(***************************************************************************)
THEOREM SoleReporterIsBacked == ASSUME SoleReporter PROVE Spec => []BackedInv
  <1>1. Init => BackedInv
    BY DEF Init, StoreInit, BackedInv, Stored
  <1>2. TypeOK /\ TypeOK' /\ Fresh /\ BackedInv /\ [Next]_vars => BackedInv'
    <2> SUFFICES ASSUME TypeOK, TypeOK', Fresh, BackedInv, [Next]_vars
                 PROVE  BackedInv'
      OBVIOUS
    <2> USE DEF InFlight
    <2>1. ASSUME NEW id \in PacketIDs, NEW pkt \in Packet, Backed(pkt, executions[id])
          PROVE  Backed(pkt, executions'[id])
      BY <2>1, CompletenessGrows, BackedGrows
    <2>2. ASSUME NEW w \in Workers, pc[w] \in {"reload", "save", "publish"}
          PROVE  packet[w] \in Packet /\ input[w].id \in PacketIDs
      BY <2>2 DEF TypeOK, WorkerTypeOK, Request
    <2>3. ASSUME UNCHANGED packets
          PROVE  \A id \in PacketIDs : Stored(id)' => Backed(packets'[id], executions'[id])
      BY <2>1, <2>3 DEF BackedInv, Stored, TypeOK, StoreTypeOK
    <2>4. ASSUME NEW v \in Workers, pc[v] \in {"save", "publish"},
                 packet'[v] = packet[v], input'[v] = input[v]
          PROVE  Backed(packet'[v], executions'[input'[v].id])
      BY <2>1, <2>2, <2>4 DEF BackedInv
    <2>5. ASSUME NEW id \in PacketIDs, IngestSave(id) PROVE BackedInv'
      <3>1. packets' = [packets EXCEPT ![id] = PacketOf[id]] /\ UNCHANGED <<pc, packet, input>>
        BY <2>5 DEF IngestSave, SaveChangePacket, workerVars
      <3>2. Backed(PacketOf[id], executions'[id])
        BY PacketsFromPolicy DEF Backed, requiredEvidenceComplete, hasMandatoryReviewers
      <3>3. \A i \in PacketIDs : Stored(i)' => Backed(packets'[i], executions'[i])
        BY <2>1, <3>1, <3>2 DEF BackedInv, Stored, TypeOK, StoreTypeOK
      <3>4. QED
        BY <2>4, <3>1, <3>3 DEF BackedInv, Stored
    <2>6. ASSUME NEW w \in Workers, Reconcile(w) PROVE BackedInv'
      <3> DEFINE res == reconcileDecision(packet[w], executions[input[w].id])
      <3>1. /\ pc[w] = "reload" /\ UNCHANGED <<packets, executions, input>>
            /\ packet' = [packet EXCEPT ![w] = res] /\ pc' = [pc EXCEPT ![w] = "save"]
        BY <2>6 DEF Reconcile, storeVars
      <3>2. Backed(res, executions[input[w].id])
        BY <2>2, <3>1, ReconcileFacts DEF Backed
      <3> HIDE DEF res
      <3>3. \A v \in Workers : pc'[v] \in {"save", "publish"} =>
                Backed(packet'[v], executions'[input'[v].id])
        BY <2>4, <3>1, <3>2 DEF TypeOK, WorkerTypeOK
      <3>4. QED
        BY <2>3, <3>1, <3>3 DEF BackedInv, Stored
    <2>7. ASSUME NEW w \in Workers, SavePacket(w) PROVE BackedInv'
      <3>1. /\ pc[w] = "save" /\ packets' = [packets EXCEPT ![input[w].id] = packet[w]]
            /\ UNCHANGED <<packet, input>> /\ pc' = [pc EXCEPT ![w] = "publish"]
        BY <2>7 DEF SavePacket, SaveChangePacket
      <3>2. Backed(packet[w], executions'[input[w].id])
        BY <2>4, <3>1
      <3>3. \A id \in PacketIDs : Stored(id)' => Backed(packets'[id], executions'[id])
        BY <2>1, <2>2, <3>1, <3>2 DEF BackedInv, Stored, TypeOK, StoreTypeOK
      <3>4. \A v \in Workers : pc'[v] \in {"save", "publish"} =>
                Backed(packet'[v], executions'[input'[v].id])
        BY <2>4, <3>1 DEF TypeOK, WorkerTypeOK
      <3>5. QED
        BY <3>3, <3>4 DEF BackedInv, Stored
    <2>8. ASSUME UNCHANGED packets,
                 \A v \in Workers : pc'[v] \in {"save", "publish"} =>
                    pc[v] = pc'[v] /\ packet'[v] = packet[v] /\ input'[v] = input[v]
          PROVE  BackedInv'
      BY <2>3, <2>4, <2>8 DEF BackedInv, Stored
    <2>9. ASSUME NEW id \in PacketIDs, IngestPublish(id) PROVE BackedInv'
      BY <2>8, <2>9 DEF IngestPublish, workerVars, storeVars
    <2>10. ASSUME NEW w \in Workers, NEW request \in Request, Submit(w, request) PROVE BackedInv'
      BY <2>8, <2>10 DEF Submit, Answer, storeVars, TypeOK, WorkerTypeOK
    <2>11. ASSUME NEW w \in Workers,
                  Retry(w) \/ GetChangePacket(w) \/ ReadStatus(w) \/ RecordUpdate(w)
           PROVE  BackedInv'
      BY <2>8, <2>11 DEF Retry, GetChangePacket, ReadStatus, RecordUpdate, RecordEvidenceUpdate,
                         Answer, storeVars, TypeOK, WorkerTypeOK
    <2>12. ASSUME NEW w \in Workers,
                  PublishWithEvidence(w) \/ PublishUnacknowledged(w) \/ Fail(w)
           PROVE  BackedInv'
      BY <2>8, <2>12 DEF PublishWithEvidence, PublishUnacknowledged, Fail, Answer, storeVars,
                         TypeOK, WorkerTypeOK
    <2>13. CASE UNCHANGED vars
      BY <2>8, <2>13 DEF vars, workerVars, storeVars
    <2>14. QED
      BY <2>5, <2>6, <2>7, <2>9, <2>10, <2>11, <2>12, <2>13 DEF Next, Step
  <1>3. QED
    BY <1>1, <1>2, TypeCorrect, SoleReporterIsFresh, PTL DEF Spec

(***************************************************************************)
(* For every instance in which overlapping calls report different          *)
(* evidence, a packet stored as GREEN has all its required evidence        *)
(* complete and waits for no reviewer.                                     *)
(***************************************************************************)
THEOREM GreenIsBackedHolds == ASSUME SoleReporter PROVE Spec => []GreenIsBacked
  <1>1. TypeOK /\ DescentInv /\ BackedInv => GreenIsBacked
    <2> SUFFICES ASSUME TypeOK, DescentInv, BackedInv, NEW id \in PacketIDs, Stored(id),
                        packets[id].lane = "GREEN"
                 PROVE  EvidenceComplete(id) /\ ~hasMandatoryReviewers(packets[id].reviewers)
      BY DEF GreenIsBacked
    <2>1. packets[id] \in Packet /\ packets[id].lane = Assign(packets[id])
      BY DEF TypeOK, StoreTypeOK, Stored, DescentInv, Descends
    <2>2. packets[id].status = "approved"
      BY <2>1, AssignFacts
    <2>3. QED
      BY <2>2 DEF BackedInv, Backed, EvidenceComplete
  <1>2. QED
    BY <1>1, TypeCorrect, DescentCorrect, SoleReporterIsBacked, PTL

(***************************************************************************)
(* For every instance in which overlapping calls report different          *)
(* evidence, the stored status of evidence moves only along the lifecycle  *)
(* of canTransitionEvidence, although the transition is checked one store  *)
(* operation before it is made.                                            *)
(***************************************************************************)
THEOREM LifecycleRespectedHolds == ASSUME SoleReporter PROVE Spec => LifecycleRespected
  <1> DEFINE Allowed == \A id \in PacketIDs, name \in Names :
                canTransitionEvidence(currentEvidenceStatus(id, name),
                                      currentEvidenceStatus(id, name)')
  <1>1. TypeOK /\ Fresh /\ [Next]_vars => [Allowed]_vars
    <2> SUFFICES ASSUME TypeOK, Fresh, [Next]_vars, NEW id \in PacketIDs, NEW name \in Names
                 PROVE  canTransitionEvidence(currentEvidenceStatus(id, name),
                                              currentEvidenceStatus(id, name)')
      OBVIOUS
    <2>1. ASSUME NEW i \in PacketIDs, NEW pkt, SaveChangePacket(i, pkt)
          PROVE  currentEvidenceStatus(id, name)' = currentEvidenceStatus(id, name)
      BY <2>1, SaveKeepsStatus
    <2>2. ASSUME NEW w \in Workers, RecordUpdate(w)
          PROVE  canTransitionEvidence(currentEvidenceStatus(id, name),
                                       currentEvidenceStatus(id, name)')
      <3>1. input[w] \in Request /\ pc[w] = "record"
        BY <2>2, EntryType DEF RecordUpdate
      <3>2. executions' = [executions EXCEPT ![input[w].id][input[w].name] = input[w].to]
        BY <2>2 DEF RecordUpdate, RecordEvidenceUpdate
      <3>3. CASE input[w].id = id /\ input[w].name = name
        <4>1. canTransitionEvidence(currentEvidenceStatus(id, name), input[w].to)
          BY <3>1, <3>3 DEF Fresh
        <4>2. currentEvidenceStatus(id, name)' = input[w].to
          BY <3>1, <3>2, <3>3
             DEF currentEvidenceStatus, TypeOK, StoreTypeOK, Request, EvidenceStatus, NoExecution
        <4>3. QED
          BY <4>1, <4>2
      <3>4. CASE ~(input[w].id = id /\ input[w].name = name)
        <4>1. executions'[id][name] = executions[id][name]
          BY <3>1, <3>2, <3>4 DEF TypeOK, StoreTypeOK, Request
        <4>2. QED
          BY <4>1 DEF currentEvidenceStatus, canTransitionEvidence
      <3>5. QED
        BY <3>3, <3>4
    <2>3. ASSUME NEW w \in Workers, SavePacket(w) PROVE input[w].id \in PacketIDs
      BY <2>3 DEF SavePacket, TypeOK, WorkerTypeOK, Request, InFlight
    <2>4. \/ UNCHANGED executions
          \/ \E w \in Workers : RecordUpdate(w)
          \/ \E i \in PacketIDs, pkt \in Packet \cup {packet[w] : w \in Workers} :
                SaveChangePacket(i, pkt)
      BY <2>3, PacketsFromPolicy
         DEF Next, Step, vars, storeVars, IngestSave, IngestPublish, Submit, Retry, GetChangePacket,
             ReadStatus, Reconcile, SavePacket, PublishWithEvidence, Fail, PublishUnacknowledged
    <2>5. CASE UNCHANGED executions
      BY <2>5 DEF currentEvidenceStatus, canTransitionEvidence
    <2>6. QED
      BY <2>1, <2>2, <2>4, <2>5 DEF canTransitionEvidence
  <1>2. Spec => [][Allowed]_vars
    BY <1>1, TypeCorrect, SoleReporterIsFresh, PTL DEF Spec
  <1>3. QED
    BY <1>2 DEF LifecycleRespected

-----------------------------------------------------------------------------
(* The decision is current when requests do not overlap and clients retry. *)

\* One request at a time, and a client repeats a request that failed.
OneAtATime == ClientsRetry /\ \A v, w \in Workers : v = w

\* The stages at which a call, or the client whose call failed, will yet
\* reconcile the decision.
Unreconciled == {"failed", "get", "status", "record", "reload", "save"}

\* Call w has recorded what its request reports for packet id.
Repairing(w, id) ==
    /\ pc[w] \in Unreconciled
    /\ input[w].id = id
    /\ findEvidenceRequirement(PacketOf[id].evidence, input[w].name) # {}
    /\ executions[id][input[w].name] = input[w].to

RepairInv ==
    /\ \A id \in PacketIDs : ~Stored(id) => audit[id] = <<>>
    /\ \A id \in PacketIDs : Stored(id) =>
        DecisionIsCurrent(id) \/ (audit[id] # <<>> /\ \E w \in Workers : Repairing(w, id))
    /\ \A w \in Workers : pc[w] \in Holding =>
        findEvidenceRequirement(PacketOf[input[w].id].evidence, input[w].name) # {}
    /\ \A w \in Workers : pc[w] = "reload" => Repairing(w, input[w].id)
    /\ \A w \in Workers : pc[w] \in {"reload", "save"} => audit[input[w].id] # <<>>
    /\ \A w \in Workers : pc[w] = "save" =>
        packet[w] = reconcileDecision(packet[w], executions[input[w].id])

(***************************************************************************)
(* Reconciling again without a change in completeness changes nothing.     *)
(***************************************************************************)
LEMMA ReconcileAgain ==
    ASSUME NEW pkt \in Packet, NEW before, NEW after,
           requiredEvidenceComplete(pkt.evidence, before) <=>
               requiredEvidenceComplete(pkt.evidence, after),
           NEW res, res = reconcileDecision(pkt, before)
    PROVE  res = reconcileDecision(res, after)
  <1>1. /\ res \in Packet /\ res.lane = Assign(res)
        /\ res.evidence = pkt.evidence /\ res.reviewers = pkt.reviewers
    BY ReconcileFacts
  <1> DEFINE new == IF res.status = "blocked" THEN "blocked"
                    ELSE IF /\ requiredEvidenceComplete(res.evidence, after)
                            /\ ~hasMandatoryReviewers(res.reviewers)
                    THEN "approved" ELSE "pending"
  <1>2. res.status = new
    BY <1>1 DEF reconcileDecision, Packet
  <1>3. [res EXCEPT !.status = new] = res
    BY <1>1, <1>2 DEF Packet
  <1>4. [res EXCEPT !.lane = Assign(res)] = res
    BY <1>1 DEF Packet
  <1>5. reconcileDecision(res, after) =
            [[res EXCEPT !.status = new] EXCEPT !.lane = Assign([res EXCEPT !.status = new])]
    BY DEF reconcileDecision
  <1>6. QED
    BY <1>3, <1>4, <1>5

(***************************************************************************)
(* The rows that a save adds are pending: they complete nothing.           *)
(***************************************************************************)
LEMMA EnsureKeepsComplete ==
    ASSUME NEW pkt \in Packet, NEW statuses \in [Names -> EvidenceStatus \cup {NoExecution}],
           NEW other
    PROVE  requiredEvidenceComplete(pkt.evidence, statuses) <=>
               requiredEvidenceComplete(pkt.evidence, ensureEvidence(other, statuses))
  <1>1. \A requirement \in pkt.evidence : requirement.name \in Names
    BY DEF Packet, EvidenceRequirement
  <1>2. "pending" \notin Complete /\ NoExecution \notin Complete
    BY DEF Complete, NoExecution
  <1>3. QED
    BY <1>1, <1>2 DEF requiredEvidenceComplete, ensureEvidence

(***************************************************************************)
(* For every instance with one request at a time and clients that retry,   *)
(* a packet whose decision is behind its evidence has a call under way, or *)
(* a client about to call again, that reports what the evidence already    *)
(* says.  The repeated report is therefore accepted, and reconciles.       *)
(***************************************************************************)
THEOREM RepairCorrect == ASSUME OneAtATime PROVE Spec => []RepairInv
  <1> USE DEF InFlight, Holding, Unreconciled
  <1>1. Init => RepairInv
    BY DEF Init, StoreInit, RepairInv, Stored
  <1>2. TypeOK /\ DescentInv /\ RepairInv /\ [Next]_vars => RepairInv'
    <2> SUFFICES ASSUME TypeOK, DescentInv, RepairInv, [Next]_vars
                 PROVE  RepairInv'
      OBVIOUS
    <2>0. /\ \A w \in Workers : pc[w] \in InFlight \cup {"failed"} =>
                /\ input[w].id \in PacketIDs /\ input[w].name \in Names
                /\ input[w].to \in EvidenceStatus
          /\ \A v, w \in Workers : v = w
          /\ ClientsRetry
      BY DEF TypeOK, WorkerTypeOK, Request, OneAtATime
    <2>1. ASSUME NEW id \in PacketIDs, IngestSave(id) PROVE RepairInv'
      <3>1. /\ packets' = [packets EXCEPT ![id] = PacketOf[id]]
            /\ executions' = [executions EXCEPT ![id] = ensureEvidence(PacketOf[id], executions[id])]
            /\ UNCHANGED <<audit, pc, input, packet>>
            /\ ingestion[id] = "waiting"
        BY <2>1 DEF IngestSave, SaveChangePacket, workerVars
      <3>2. ~Stored(id) /\ audit[id] = <<>>
        BY <3>1 DEF DescentInv, RepairInv
      <3>3. packets'[id] = PacketOf[id] /\ \A i \in PacketIDs \ {id} :
                packets'[i] = packets[i] /\ executions'[i] = executions[i]
        BY <3>1 DEF TypeOK, StoreTypeOK
      <3>4. PacketOf[id] # NoPacket
        BY PacketsFromPolicy, StoreConstants
      <3>5. ASSUME NEW i \in PacketIDs \ {id}
            PROVE  /\ Stored(i)' <=> Stored(i)
                   /\ DecisionIsCurrent(i)' <=> DecisionIsCurrent(i)
                   /\ \A w \in Workers : Repairing(w, i)' <=> Repairing(w, i)
        BY <3>1, <3>3, <3>5 DEF Stored, DecisionIsCurrent, Repairing
      <3>6. DecisionIsCurrent(id)' /\ Stored(id)'
        BY <3>1, <3>2, <3>3, <3>4 DEF DecisionIsCurrent, Stored
      <3>7. \A w \in Workers : pc[w] \in {"reload", "save"} => input[w].id # id
        BY <3>2 DEF DescentInv
      <3>8. QED
        BY <2>0, <3>1, <3>2, <3>3, <3>5, <3>6, <3>7 DEF RepairInv
    <2>2. ASSUME NEW id \in PacketIDs, IngestPublish(id) PROVE RepairInv'
      BY <2>2 DEF IngestPublish, RepairInv, Stored, DecisionIsCurrent, Repairing, workerVars, storeVars
    <2>3. ASSUME NEW w \in Workers, NEW request \in Request, Submit(w, request)
          PROVE RepairInv'
      <3>1. /\ pc[w] \in Answered \ {"failed"} /\ pc' = [pc EXCEPT ![w] = pc'[w]]
            /\ pc'[w] \in {"get", "refused"}
            /\ UNCHANGED <<packets, executions, audit>>
        BY <2>0, <2>3 DEF Submit, Answer, storeVars, TypeOK, WorkerTypeOK
      <3>2. \A v \in Workers, id \in PacketIDs : ~Repairing(v, id)
        BY <2>0, <3>1 DEF Repairing, Answered
      <3>3. \A v \in Workers : pc'[v] \in {"get", "refused"}
        BY <2>0, <3>1
      <3>4. QED
        BY <3>1, <3>2, <3>3 DEF RepairInv, Stored, DecisionIsCurrent
    <2>4. ASSUME NEW w \in Workers, Retry(w) PROVE RepairInv'
      <3>1. UNCHANGED <<packets, executions, audit, input>>
        BY <2>4 DEF Retry, storeVars
      <3>2. \A v \in Workers : pc[v] = "failed" /\ pc'[v] = "get"
        BY <2>0, <2>4 DEF Retry, TypeOK, WorkerTypeOK
      <3>3. \A v \in Workers, id \in PacketIDs : Repairing(v, id) => Repairing(v, id)'
        BY <3>1, <3>2 DEF Repairing
      <3>4. QED
        BY <3>1, <3>2, <3>3 DEF RepairInv, Stored, DecisionIsCurrent
    <2>5. ASSUME NEW w \in Workers, GetChangePacket(w) PROVE RepairInv'
      <3>1. pc[w] = "get" /\ UNCHANGED <<packets, executions, audit>>
        BY <2>5 DEF GetChangePacket, storeVars
      <3>2. Stored(input[w].id) => packets[input[w].id].evidence = PacketOf[input[w].id].evidence
        BY <2>0, <3>1 DEF DescentInv, Descends
      <3>3. CASE Answer(w, "refused")
        <4>1. \A v \in Workers, id \in PacketIDs : ~(Stored(id) /\ Repairing(v, id))
          <5>1. \/ packets[input[w].id] = NoPacket
                \/ findEvidenceRequirement(packets[input[w].id].evidence, input[w].name) = {}
            BY <2>5, <3>1, <3>3 DEF GetChangePacket, Answer, TypeOK, WorkerTypeOK
          <5>2. QED
            BY <2>0, <3>1, <3>2, <5>1 DEF Repairing, Stored
        <4>2. \A v \in Workers : pc'[v] = "refused"
          BY <2>0, <3>3 DEF Answer, TypeOK, WorkerTypeOK
        <4>3. QED
          BY <3>1, <4>1, <4>2 DEF RepairInv, Stored, DecisionIsCurrent
      <3>4. CASE ~Answer(w, "refused")
        <4>1. /\ packets[input[w].id] # NoPacket
              /\ findEvidenceRequirement(packets[input[w].id].evidence, input[w].name) # {}
              /\ pc' = [pc EXCEPT ![w] = "status"]
              /\ UNCHANGED input
          BY <2>5, <3>4 DEF GetChangePacket
        <4>2. findEvidenceRequirement(PacketOf[input[w].id].evidence, input[w].name) # {}
          BY <3>2, <4>1 DEF Stored
        <4>3. \A v \in Workers : v = w /\ pc'[v] = "status"
          BY <2>0, <4>1 DEF TypeOK, WorkerTypeOK
        <4>4. \A v \in Workers, id \in PacketIDs : Repairing(v, id) => Repairing(v, id)'
          BY <3>1, <4>1, <4>3 DEF Repairing
        <4>5. QED
          BY <3>1, <4>1, <4>2, <4>3, <4>4 DEF RepairInv, Stored, DecisionIsCurrent
      <3>5. QED
        BY <3>3, <3>4
    <2>6. ASSUME NEW w \in Workers, ReadStatus(w) PROVE RepairInv'
      <3>1. pc[w] = "status" /\ UNCHANGED <<packets, executions, audit>>
        BY <2>6 DEF ReadStatus, storeVars
      <3>2. CASE Answer(w, "refused")
        <4>1. ~canTransitionEvidence(currentEvidenceStatus(input[w].id, input[w].name), input[w].to)
          BY <2>6, <3>1, <3>2 DEF ReadStatus, Answer, TypeOK, WorkerTypeOK
        <4>2. executions[input[w].id][input[w].name] # input[w].to
          BY <2>0, <3>1, <4>1
             DEF canTransitionEvidence, currentEvidenceStatus, EvidenceStatus, NoExecution
        <4>3. \A v \in Workers, id \in PacketIDs : ~Repairing(v, id)
          BY <2>0, <4>2 DEF Repairing
        <4>4. \A v \in Workers : pc'[v] = "refused"
          BY <2>0, <3>2 DEF Answer, TypeOK, WorkerTypeOK
        <4>5. QED
          BY <3>1, <4>3, <4>4 DEF RepairInv, Stored, DecisionIsCurrent
      <3>3. CASE ~Answer(w, "refused")
        <4>1. pc' = [pc EXCEPT ![w] = "record"] /\ UNCHANGED input
          BY <2>6, <3>3 DEF ReadStatus
        <4>2. QED
          BY <2>0, <3>1, <4>1
             DEF RepairInv, Stored, DecisionIsCurrent, Repairing, TypeOK, WorkerTypeOK
      <3>4. QED
        BY <3>2, <3>3
    <2>7. ASSUME NEW w \in Workers, RecordUpdate(w) PROVE RepairInv'
      <3> DEFINE entry == [name |-> input[w].name, from |-> from[w], to |-> input[w].to,
                           actor |-> input[w].actor,
                           metadata |-> IF input[w].actor \in GitHubApps
                                        THEN "check_run" ELSE "none"]
                 copy == cloneAuditEntry(entry)
      <3>1. /\ pc[w] = "record" /\ input[w].id \in PacketIDs /\ entry \in AuditEntry
            /\ copy \in AuditEntry
        BY <2>7, EntryType, CloneFacts DEF RecordUpdate, Request
      <3>2. /\ executions' = [executions EXCEPT ![input[w].id][input[w].name] = input[w].to]
            /\ audit' = [audit EXCEPT ![input[w].id] = Append(@, copy)]
            /\ UNCHANGED <<packets, input, packet>> /\ pc' = [pc EXCEPT ![w] = "reload"]
        BY <2>7 DEF RecordUpdate, RecordEvidenceUpdate
      <3> HIDE DEF entry, copy
      <3>3. /\ audit'[input[w].id] # <<>>
            /\ executions'[input[w].id][input[w].name] = input[w].to
            /\ \A id \in PacketIDs \ {input[w].id} :
                audit'[id] = audit[id] /\ executions'[id] = executions[id]
        <4>1. audit[input[w].id] \in Seq(AuditEntry)
          BY <3>1 DEF TypeOK, StoreTypeOK
        <4>2. Append(audit[input[w].id], copy) # <<>>
          BY <3>1, <4>1
        <4>3. audit' = [audit EXCEPT ![input[w].id] = Append(audit[input[w].id], copy)]
          BY <3>2
        <4>4. QED
          BY <2>0, <3>1, <3>2, <4>2, <4>3 DEF TypeOK, StoreTypeOK
      <3>4. \A v \in Workers : v = w /\ pc'[v] = "reload"
        BY <2>0, <3>2 DEF TypeOK, WorkerTypeOK
      <3>5. Repairing(w, input[w].id)'
        BY <3>1, <3>2, <3>3, <3>4 DEF Repairing, RepairInv
      <3>6. ASSUME NEW id \in PacketIDs \ {input[w].id}, Stored(id) PROVE DecisionIsCurrent(id)'
        <4>1. DecisionIsCurrent(id)
          BY <2>0, <3>6 DEF RepairInv, Repairing
        <4>2. QED
          BY <3>2, <3>3, <3>6, <4>1 DEF DecisionIsCurrent
      <3>7. Stored(input[w].id) /\ \A id \in PacketIDs : Stored(id)' <=> Stored(id)
        BY <3>1, <3>2 DEF Stored, DescentInv
      <3>8. QED
        BY <3>1, <3>2, <3>3, <3>4, <3>5, <3>6, <3>7 DEF RepairInv
    <2>8. ASSUME NEW w \in Workers, Reconcile(w) PROVE RepairInv'
      <3> DEFINE res == reconcileDecision(packet[w], executions[input[w].id])
      <3>1. /\ pc[w] = "reload" /\ packet[w] \in Packet /\ Repairing(w, input[w].id)
            /\ audit[input[w].id] # <<>>
        BY <2>8 DEF Reconcile, RepairInv, TypeOK, WorkerTypeOK
      <3>2. res = reconcileDecision(res, executions[input[w].id])
        BY <3>1, ReconcileAgain
      <3>3. /\ packet' = [packet EXCEPT ![w] = res] /\ pc' = [pc EXCEPT ![w] = "save"]
            /\ UNCHANGED <<packets, executions, audit, input>>
        BY <2>8 DEF Reconcile, storeVars
      <3> HIDE DEF res
      <3>4. packet'[w] = res /\ \A v \in Workers : v = w /\ pc'[v] = "save"
        BY <2>0, <3>3 DEF TypeOK, WorkerTypeOK
      <3>5. \A v \in Workers, id \in PacketIDs : Repairing(v, id) => Repairing(v, id)'
        BY <3>3, <3>4 DEF Repairing
      <3>6. QED
        BY <3>1, <3>2, <3>3, <3>4, <3>5 DEF RepairInv, Stored, DecisionIsCurrent
    <2>9. ASSUME NEW w \in Workers, SavePacket(w) PROVE RepairInv'
      <3>0. PICK id \in PacketIDs : id = input[w].id
        BY <2>0, <2>9 DEF SavePacket
      <3> DEFINE rows == ensureEvidence(packet[w], executions[id])
      <3>1. /\ pc[w] = "save" /\ packet[w] \in Packet /\ audit[id] # <<>>
            /\ packet[w] = reconcileDecision(packet[w], executions[id])
            /\ executions[id] \in [Names -> EvidenceStatus \cup {NoExecution}]
        BY <2>9, <3>0 DEF SavePacket, RepairInv, TypeOK, StoreTypeOK, WorkerTypeOK
      <3>2. /\ packets' = [packets EXCEPT ![id] = packet[w]]
            /\ executions' = [executions EXCEPT ![id] = rows]
            /\ pc' = [pc EXCEPT ![w] = "publish"]
            /\ UNCHANGED <<audit, input, packet>>
        BY <2>9, <3>0 DEF SavePacket, SaveChangePacket
      <3>3. packet[w] = reconcileDecision(packet[w], rows)
        BY <3>1, ReconcileAgain, EnsureKeepsComplete
      <3> HIDE DEF rows
      <3>4. /\ packets'[id] = packet[w] /\ executions'[id] = rows
            /\ \A i \in PacketIDs \ {id} :
                packets'[i] = packets[i] /\ executions'[i] = executions[i]
        BY <3>1, <3>2 DEF TypeOK, StoreTypeOK
      <3>5. DecisionIsCurrent(id)' /\ Stored(id)'
        BY <3>1, <3>2, <3>3, <3>4, StoreConstants DEF DecisionIsCurrent, Stored
      <3>6. ASSUME NEW i \in PacketIDs \ {id}
            PROVE  /\ Stored(i)' <=> Stored(i)
                   /\ Stored(i) => DecisionIsCurrent(i)'
        <4>1. Stored(i) => DecisionIsCurrent(i)
          BY <2>0, <3>0, <3>6 DEF RepairInv, Repairing
        <4>2. QED
          BY <3>2, <3>4, <3>6, <4>1 DEF DecisionIsCurrent, Stored
      <3>7. \A v \in Workers : v = w /\ pc'[v] = "publish"
        BY <2>0, <3>2 DEF TypeOK, WorkerTypeOK
      <3>8. findEvidenceRequirement(PacketOf[input[w].id].evidence, input[w].name) # {}
        BY <3>1 DEF RepairInv
      <3>9. QED
        BY <3>0, <3>1, <3>2, <3>5, <3>6, <3>7, <3>8 DEF RepairInv
    <2>10. ASSUME NEW w \in Workers,
                  PublishWithEvidence(w) \/ PublishUnacknowledged(w) \/ Fail(w)
           PROVE RepairInv'
      <3>1. UNCHANGED <<packets, executions, audit>>
        BY <2>10 DEF PublishWithEvidence, PublishUnacknowledged, Fail, storeVars
      <3>2. CASE pc[w] = "publish"
        <4>1. \A v \in Workers, id \in PacketIDs : ~Repairing(v, id)
          BY <2>0, <3>2 DEF Repairing
        <4>2. \A v \in Workers : pc'[v] \in {"done", "failed"}
          BY <2>0, <2>10 DEF PublishWithEvidence, PublishUnacknowledged, Fail, Answer, TypeOK,
                             WorkerTypeOK
        <4>3. QED
          BY <3>1, <4>1, <4>2 DEF RepairInv, Stored, DecisionIsCurrent
      <3>3. CASE pc[w] # "publish"
        <4>1. pc[w] \in InFlight /\ Answer(w, "failed")
          BY <2>10, <3>3 DEF PublishWithEvidence, PublishUnacknowledged, Fail
        <4>2. \A v \in Workers : v = w /\ pc'[v] = "failed" /\ input'[v] = input[v]
          BY <2>0, <4>1 DEF Answer, TypeOK, WorkerTypeOK
        <4>3. QED
          BY <3>1, <4>2 DEF RepairInv, Stored, DecisionIsCurrent, Repairing
      <3>4. QED
        BY <3>2, <3>3
    <2>11. CASE UNCHANGED vars
      BY <2>11 DEF vars, workerVars, storeVars, RepairInv, Stored, DecisionIsCurrent, Repairing
    <2>12. QED
      BY <2>1, <2>2, <2>3, <2>4, <2>5, <2>6, <2>7, <2>8, <2>9, <2>10, <2>11 DEF Next, Step
  <1>3. QED
    BY <1>1, <1>2, TypeCorrect, DescentCorrect, PTL DEF Spec

(***************************************************************************)
(* For every instance with one request at a time and clients that retry,   *)
(* the stored decision and lane are what the evidence calls for once every *)
(* request is answered, at whatever point calls failed before.             *)
(***************************************************************************)
THEOREM SettledDecisionIsCurrentHolds ==
    ASSUME OneAtATime PROVE Spec => []SettledDecisionIsCurrent
  <1>1. RepairInv => SettledDecisionIsCurrent
    BY DEF RepairInv, Repairing, Unreconciled, SettledDecisionIsCurrent, Settled
  <1>2. QED
    BY <1>1, RepairCorrect, PTL

-----------------------------------------------------------------------------
(* Facts about one log. *)

\* The trail log explains that the evidence has this status.
Explains(status, log, name) ==
    \/ /\ status \in {NoExecution, "pending"}
       /\ \A k \in 1..Len(log) : log[k].name # name
    \/ \E k \in 1..Len(log) :
        /\ Newest(log, Len(log), name, k)
        /\ status = log[k].to

\* If pkt is approved, log shows when its evidence was complete.
Witnessed(pkt, log) ==
    pkt.status = "approved" => \E n \in 0..Len(log) : CompleteAfter(log, pkt.evidence, n)

(***************************************************************************)
(* Appending an audit entry leaves the earlier entries where they are.     *)
(***************************************************************************)
LEMMA AppendFacts ==
    ASSUME NEW log \in Seq(AuditEntry), NEW entry \in AuditEntry
    PROVE  /\ Len(log) \in Nat
           /\ Len(Append(log, entry)) = Len(log) + 1
           /\ \A k \in 1..Len(log) : Append(log, entry)[k] = log[k]
           /\ Append(log, entry)[Len(log) + 1] = entry
  OBVIOUS

(***************************************************************************)
(* An entry about other evidence explains what was explained before.       *)
(***************************************************************************)
LEMMA ExplainsOther ==
    ASSUME NEW log \in Seq(AuditEntry), NEW entry \in AuditEntry,
           NEW name, name # entry.name, NEW status, Explains(status, log, name)
    PROVE  Explains(status, Append(log, entry), name)
  <1> DEFINE longer == Append(log, entry)
  <1>1. /\ Len(log) \in Nat /\ Len(longer) = Len(log) + 1
        /\ \A k \in 1..Len(log) : longer[k] = log[k]
        /\ longer[Len(log) + 1] = entry
    BY AppendFacts
  <1> HIDE DEF longer
  <1>2. CASE \A k \in 1..Len(log) : log[k].name # name
    <2>1. \A k \in 1..Len(longer) : longer[k].name # name
      BY <1>1, <1>2
    <2>2. status \in {NoExecution, "pending"}
      BY <1>2 DEF Explains, Newest
    <2>3. QED
      BY <2>1, <2>2 DEF Explains, longer
  <1>3. CASE ~(\A k \in 1..Len(log) : log[k].name # name)
    <2>1. PICK k \in 1..Len(log) : Newest(log, Len(log), name, k) /\ status = log[k].to
      BY <1>3 DEF Explains
    <2>2. Newest(longer, Len(longer), name, k)
      BY <1>1, <2>1 DEF Newest
    <2>3. k \in 1..Len(longer) /\ status = longer[k].to
      BY <1>1, <2>1
    <2>4. QED
      BY <2>2, <2>3 DEF Explains, longer
  <1>4. QED
    BY <1>2, <1>3

(***************************************************************************)
(* The newest entry explains the status it ends in.                        *)
(***************************************************************************)
LEMMA ExplainsNewest ==
    ASSUME NEW log \in Seq(AuditEntry), NEW entry \in AuditEntry
    PROVE  Explains(entry.to, Append(log, entry), entry.name)
  <1> DEFINE longer == Append(log, entry)
  <1>1. /\ Len(log) \in Nat /\ Len(longer) = Len(log) + 1
        /\ longer[Len(log) + 1] = entry
    BY AppendFacts
  <1> HIDE DEF longer
  <1>2. Newest(longer, Len(longer), entry.name, Len(longer))
    BY <1>1 DEF Newest
  <1>3. QED
    BY <1>1, <1>2 DEF Explains, longer

(***************************************************************************)
(* What once was complete stays on record: a later entry does not change   *)
(* what the first n entries say.                                           *)
(***************************************************************************)
LEMMA WitnessPersists ==
    ASSUME NEW log \in Seq(AuditEntry), NEW entry \in AuditEntry, NEW evidence,
           NEW n \in 0..Len(log), CompleteAfter(log, evidence, n)
    PROVE  n \in 0..Len(Append(log, entry)) /\ CompleteAfter(Append(log, entry), evidence, n)
  <1> DEFINE longer == Append(log, entry)
  <1>1. /\ Len(log) \in Nat /\ Len(longer) = Len(log) + 1
        /\ \A k \in 1..Len(log) : longer[k] = log[k]
    BY AppendFacts
  <1> HIDE DEF longer
  <1>2. n \in 0..Len(longer)
    BY <1>1
  <1>3. \A k \in 1..n : longer[k] = log[k]
    BY <1>1
  <1>4. ASSUME NEW requirement \in evidence, requirement.required
        PROVE  \E k \in 1..n : /\ Newest(longer, n, requirement.name, k)
                               /\ longer[k].to \in Complete
    <2>1. PICK k \in 1..n : Newest(log, n, requirement.name, k) /\ log[k].to \in Complete
      BY <1>4 DEF CompleteAfter
    <2>2. Newest(longer, n, requirement.name, k)
      BY <1>3, <2>1 DEF Newest
    <2>3. QED
      BY <1>3, <2>1, <2>2
  <1>5. QED
    BY <1>2, <1>4 DEF CompleteAfter, longer

(***************************************************************************)
(* If the trail explains all statuses and they make the required evidence  *)
(* complete, the whole trail is a witness.                                 *)
(***************************************************************************)
LEMMA WitnessNow ==
    ASSUME NEW log \in Seq(AuditEntry), NEW statuses,
           NEW evidence \in SUBSET EvidenceRequirement,
           \A name \in Names : Explains(statuses[name], log, name),
           requiredEvidenceComplete(evidence, statuses)
    PROVE  Len(log) \in 0..Len(log) /\ CompleteAfter(log, evidence, Len(log))
  <1>1. Len(log) \in Nat
    OBVIOUS
  <1>2. ASSUME NEW requirement \in evidence, requirement.required
        PROVE  \E k \in 1..Len(log) : /\ Newest(log, Len(log), requirement.name, k)
                                      /\ log[k].to \in Complete
    <2>1. requirement.name \in Names /\ statuses[requirement.name] \in Complete
      BY <1>2 DEF EvidenceRequirement, requiredEvidenceComplete
    <2>2. statuses[requirement.name] \notin {NoExecution, "pending"}
      BY <2>1 DEF Complete, NoExecution
    <2>3. QED
      BY <2>1, <2>2 DEF Explains
  <1>3. QED
    BY <1>1, <1>2 DEF CompleteAfter

-----------------------------------------------------------------------------
(* The specification. *)

(***************************************************************************)
(* The only ways in which a step of the service touches the execution      *)
(* table or the audit trail: a packet is saved, or an update is recorded.  *)
(***************************************************************************)
LEMMA TableSteps ==
    ASSUME TypeOK, [Next]_vars
    PROVE  \/ UNCHANGED <<executions, audit>>
           \/ UNCHANGED audit /\ \E id \in PacketIDs, pkt \in Packet : SaveChangePacket(id, pkt)
           \/ \E id \in PacketIDs, entry \in AuditEntry : RecordEvidenceUpdate(id, entry)
  <1>1. ASSUME NEW id \in PacketIDs, IngestSave(id)
        PROVE  UNCHANGED audit /\ \E i \in PacketIDs, pkt \in Packet : SaveChangePacket(i, pkt)
    <2>1. PacketOf[id] \in Packet /\ SaveChangePacket(id, PacketOf[id])
      BY <1>1, PacketsFromPolicy DEF IngestSave
    <2>2. QED
      BY <2>1 DEF SaveChangePacket
  <1>2. ASSUME NEW w \in Workers, SavePacket(w)
        PROVE  UNCHANGED audit /\ \E i \in PacketIDs, pkt \in Packet : SaveChangePacket(i, pkt)
    <2>1. input[w].id \in PacketIDs /\ packet[w] \in Packet /\ SaveChangePacket(input[w].id, packet[w])
      BY <1>2 DEF SavePacket, TypeOK, WorkerTypeOK, Request, InFlight
    <2>2. QED
      BY <2>1 DEF SaveChangePacket
  <1>3. ASSUME NEW w \in Workers, RecordUpdate(w)
        PROVE  \E id \in PacketIDs, entry \in AuditEntry : RecordEvidenceUpdate(id, entry)
    BY <1>3, EntryType DEF RecordUpdate, Request
  <1>4. QED
    BY <1>1, <1>2, <1>3
       DEF Next, Step, vars, storeVars, IngestPublish, Submit, Retry, GetChangePacket,
           ReadStatus, Reconcile, PublishWithEvidence, Fail, PublishUnacknowledged

(***************************************************************************)
(* For every instance, the status of each piece of evidence is the one its *)
(* newest audit entry ends in.                                             *)
(***************************************************************************)
THEOREM AuditExplainsStatusHolds == Spec => []AuditExplainsStatus
  <1> DEFINE Explained == \A id \in PacketIDs, name \in Names :
                            Explains(executions[id][name], audit[id], name)
  <1>1. AuditExplainsStatus <=> Explained
    BY DEF AuditExplainsStatus, Explains
  <1>2. Init => Explained
    BY DEF Init, StoreInit, Explains
  <1>3. TypeOK /\ Explained /\ [Next]_vars => Explained'
    <2> SUFFICES ASSUME TypeOK, Explained, [Next]_vars, NEW i \in PacketIDs, NEW name \in Names
                 PROVE  Explains(executions'[i][name], audit'[i], name)
      OBVIOUS
    <2>0. audit[i] \in Seq(AuditEntry) /\ Explains(executions[i][name], audit[i], name)
      BY DEF TypeOK, StoreTypeOK
    <2>1. CASE UNCHANGED <<executions, audit>>
      BY <2>0, <2>1
    <2>2. ASSUME NEW id \in PacketIDs, NEW pkt \in Packet, SaveChangePacket(id, pkt)
          PROVE  Explains(executions'[i][name], audit'[i], name)
      <3>1. /\ audit' = audit
            /\ \/ executions'[i][name] = executions[i][name]
               \/ executions[i][name] = NoExecution /\ executions'[i][name] = "pending"
        BY <2>2 DEF SaveChangePacket, ensureEvidence, TypeOK, StoreTypeOK
      <3>2. CASE executions'[i][name] = executions[i][name]
        BY <2>0, <3>1, <3>2
      <3>3. CASE executions[i][name] = NoExecution /\ executions'[i][name] = "pending"
        <4>1. \A k \in 1..Len(audit[i]) : audit[i][k].to # NoExecution
          <5>1. \A k \in 1..Len(audit[i]) : audit[i][k] \in AuditEntry
            BY <2>0
          <5>2. \A entry \in AuditEntry : entry.to # NoExecution
            BY DEF AuditEntry, EvidenceStatus, NoExecution
          <5>3. QED
            BY <5>1, <5>2
        <4>2. \A k \in 1..Len(audit[i]) : audit[i][k].name # name
          BY <2>0, <3>3, <4>1 DEF Explains
        <4>3. QED
          BY <3>1, <3>3, <4>2 DEF Explains
      <3>4. QED
        BY <3>1, <3>2, <3>3
    <2>3. ASSUME NEW id \in PacketIDs, NEW entry \in AuditEntry, RecordEvidenceUpdate(id, entry)
          PROVE  Explains(executions'[i][name], audit'[i], name)
      <3> DEFINE copy == cloneAuditEntry(entry)
      <3>1. copy \in AuditEntry /\ copy.name = entry.name /\ copy.to = entry.to
        BY CloneFacts
      <3>2. /\ executions' = [executions EXCEPT ![id][entry.name] = entry.to]
            /\ audit' = [audit EXCEPT ![id] = Append(@, copy)]
        BY <2>3 DEF RecordEvidenceUpdate
      <3>3. entry.name \in Names
        BY DEF AuditEntry
      <3> HIDE DEF copy
      <3>4. CASE i # id
        <4>1. executions'[i] = executions[i] /\ audit'[i] = audit[i]
          BY <3>2, <3>4 DEF TypeOK, StoreTypeOK
        <4>2. QED
          BY <2>0, <4>1
      <3>5. CASE i = id /\ name # entry.name
        <4>1. /\ executions'[i][name] = executions[i][name]
              /\ audit'[i] = Append(audit[i], copy)
          BY <3>2, <3>3, <3>5 DEF TypeOK, StoreTypeOK
        <4>2. QED
          BY <2>0, <3>1, <3>5, <4>1, ExplainsOther
      <3>6. CASE i = id /\ name = entry.name
        <4>1. /\ executions'[i][name] = copy.to
              /\ audit'[i] = Append(audit[i], copy)
          BY <3>1, <3>2, <3>3, <3>6 DEF TypeOK, StoreTypeOK
        <4>2. QED
          BY <2>0, <3>1, <3>6, <4>1, ExplainsNewest
      <3>7. QED
        BY <3>4, <3>5, <3>6
    <2>4. QED
      BY <2>1, <2>2, <2>3, TableSteps
  <1> HIDE DEF Explained
  <1>4. Spec => []Explained
    BY <1>2, <1>3, TypeCorrect, PTL DEF Spec
  <1>5. QED
    BY <1>1, <1>4, PTL

-----------------------------------------------------------------------------

WitnessInv ==
    /\ \A id \in PacketIDs : Stored(id) => Witnessed(packets[id], audit[id])
    /\ \A w \in Workers : pc[w] \in {"save", "publish"} =>
        Witnessed(packet[w], audit[input[w].id])
    /\ \A head \in Heads : published[head] = "success" =>
        \E id \in PacketIDs :
            /\ Stored(id)
            /\ PacketOf[id].head = head
            /\ \E n \in 0..Len(audit[id]) : CompleteAfter(audit[id], PacketOf[id].evidence, n)

(***************************************************************************)
(* No step removes a witness from the audit trail.                         *)
(***************************************************************************)
LEMMA TrailGrows ==
    ASSUME TypeOK, [Next]_vars, NEW id \in PacketIDs, NEW evidence,
           \E n \in 0..Len(audit[id]) : CompleteAfter(audit[id], evidence, n)
    PROVE  \E n \in 0..Len(audit'[id]) : CompleteAfter(audit'[id], evidence, n)
  <1>0. audit[id] \in Seq(AuditEntry)
    BY DEF TypeOK, StoreTypeOK
  <1>1. CASE UNCHANGED audit
    BY <1>1
  <1>2. ASSUME NEW i \in PacketIDs, NEW entry \in AuditEntry, RecordEvidenceUpdate(i, entry)
        PROVE  \E n \in 0..Len(audit'[id]) : CompleteAfter(audit'[id], evidence, n)
    <2>1. cloneAuditEntry(entry) \in AuditEntry
      BY CloneFacts
    <2>2. audit'[id] = audit[id] \/ audit'[id] = Append(audit[id], cloneAuditEntry(entry))
      BY <1>2 DEF RecordEvidenceUpdate, TypeOK, StoreTypeOK
    <2>3. QED
      BY <1>0, <2>1, <2>2, WitnessPersists
  <1>3. QED
    BY <1>1, <1>2, TableSteps

(***************************************************************************)
(* A packet that publishes "success" is GREEN, hence approved.             *)
(***************************************************************************)
LEMMA SuccessIsApproved ==
    ASSUME NEW pkt \in Packet, pkt.lane = Assign(pkt), conclusion(pkt.lane) = "success"
    PROVE  pkt.status = "approved"
  <1>1. pkt.lane = "GREEN"
    BY DEF conclusion, Packet, Lane
  <1>2. QED
    BY <1>1, AssignFacts

(***************************************************************************)
(* For every instance, an approved packet, stored or about to be saved,    *)
(* and a successful check have a witness in the audit trail.               *)
(***************************************************************************)
THEOREM WitnessCorrect == Spec => []WitnessInv
  <1>1. Init => WitnessInv
    BY DEF Init, StoreInit, WitnessInv, Stored
  <1>2. /\ TypeOK /\ TypeOK' /\ DescentInv /\ DescentInv' /\ AuditExplainsStatus
        /\ WitnessInv /\ [Next]_vars
        => WitnessInv'
    <2> SUFFICES ASSUME TypeOK, TypeOK', DescentInv, DescentInv', AuditExplainsStatus,
                        WitnessInv, [Next]_vars
                 PROVE  WitnessInv'
      OBVIOUS
    <2> USE DEF InFlight, Holding
    <2> DEFINE InStore == \A id \in PacketIDs : Stored(id) => Witnessed(packets[id], audit[id])
               InHand == \A w \in Workers : pc[w] \in {"save", "publish"} =>
                            Witnessed(packet[w], audit[input[w].id])
               OnCheck == \A head \in Heads : published[head] = "success" =>
                            \E id \in PacketIDs :
                                /\ Stored(id)
                                /\ PacketOf[id].head = head
                                /\ \E n \in 0..Len(audit[id]) :
                                    CompleteAfter(audit[id], PacketOf[id].evidence, n)
    <2>0. InStore /\ InHand /\ OnCheck
      BY DEF WitnessInv
    <2>1. ASSUME NEW id \in PacketIDs, NEW pkt, Witnessed(pkt, audit[id])
          PROVE  Witnessed(pkt, audit'[id])
      BY <2>1, TrailGrows DEF Witnessed
    <2>2. \A id \in PacketIDs : Stored(id) => Stored(id)'
      BY DEF DescentInv, Next, Step, vars, TypeOK, IngestSave, IngestPublish, Submit, Retry,
             GetChangePacket, ReadStatus, RecordUpdate, Reconcile, SavePacket,
             PublishWithEvidence, Fail, PublishUnacknowledged
    <2>3. ASSUME NEW w \in Workers, pc[w] \in {"reload", "save", "publish"}
          PROVE  /\ packet[w] \in Packet /\ input[w].id \in PacketIDs
                 /\ Stored(input[w].id) /\ Descends(packet[w], input[w].id)
      BY <2>3 DEF TypeOK, WorkerTypeOK, Request, DescentInv
    <2>4. UNCHANGED packets => InStore'
      BY <2>0, <2>1 DEF Stored
    <2>5. ASSUME \A v \in Workers : pc'[v] \in {"save", "publish"} =>
                    /\ pc[v] \in {"save", "publish"}
                    /\ packet'[v] = packet[v] /\ input'[v] = input[v]
          PROVE  InHand'
      BY <2>0, <2>1, <2>3, <2>5
    <2>6. ASSUME NEW head \in Heads,
                 \E id \in PacketIDs :
                    /\ Stored(id)
                    /\ PacketOf[id].head = head
                    /\ \E n \in 0..Len(audit[id]) :
                        CompleteAfter(audit[id], PacketOf[id].evidence, n)
          PROVE  \E id \in PacketIDs :
                    /\ Stored(id)'
                    /\ PacketOf[id].head = head
                    /\ \E n \in 0..Len(audit'[id]) :
                        CompleteAfter(audit'[id], PacketOf[id].evidence, n)
      BY <2>2, <2>6, TrailGrows
    <2>7. UNCHANGED published => OnCheck'
      BY <2>0, <2>6
    <2> HIDE DEF InStore, InHand, OnCheck
    <2>8. InStore' /\ InHand' /\ OnCheck' => WitnessInv'
      BY DEF InStore, InHand, OnCheck, WitnessInv, Stored
    <2>9. ASSUME NEW id \in PacketIDs, IngestSave(id) PROVE WitnessInv'
      <3>1. packets' = [packets EXCEPT ![id] = PacketOf[id]]
            /\ UNCHANGED <<pc, packet, input, published>>
        BY <2>9 DEF IngestSave, SaveChangePacket, workerVars
      <3>2. Witnessed(PacketOf[id], audit'[id])
        <4>1. Len(audit'[id]) \in Nat
          BY DEF TypeOK, StoreTypeOK
        <4>2. QED
          BY <4>1, PacketsFromPolicy DEF Witnessed, CompleteAfter
      <3>3. InStore'
        BY <2>0, <2>1, <3>1, <3>2 DEF InStore, Stored, TypeOK, StoreTypeOK
      <3>4. QED
        BY <2>5, <2>7, <2>8, <3>1, <3>3
    <2>10. ASSUME NEW id \in PacketIDs, IngestPublish(id) PROVE WitnessInv'
      <3>1. /\ published' = [published EXCEPT ![PacketOf[id].head] = conclusion(PacketOf[id].lane)]
            /\ UNCHANGED <<packets, pc, packet, input>> /\ Stored(id)
        BY <2>10 DEF IngestPublish, storeVars, workerVars, DescentInv
      <3>2. OnCheck'
        <4> SUFFICES ASSUME NEW head \in Heads, published'[head] = "success"
                     PROVE  \E i \in PacketIDs :
                                /\ Stored(i)'
                                /\ PacketOf[i].head = head
                                /\ \E n \in 0..Len(audit'[i]) :
                                    CompleteAfter(audit'[i], PacketOf[i].evidence, n)
          BY DEF OnCheck, Stored
        <4>1. CASE head # PacketOf[id].head
          BY <2>0, <2>6, <3>1, <4>1 DEF OnCheck, TypeOK
        <4>2. CASE head = PacketOf[id].head
          <5>1. conclusion(PacketOf[id].lane) = "success"
            BY <3>1, <4>2 DEF TypeOK
          <5>2. PacketOf[id].status = "approved"
            BY <5>1, PacketsFromPolicy, SuccessIsApproved
          <5>3. PacketOf[id].evidence = {} /\ Len(audit[id]) \in Nat
            BY <5>2, PacketsFromPolicy DEF TypeOK, StoreTypeOK
          <5>4. \E n \in 0..Len(audit[id]) : CompleteAfter(audit[id], PacketOf[id].evidence, n)
            BY <5>3 DEF CompleteAfter
          <5>5. QED
            BY <2>6, <3>1, <4>2, <5>4
        <4>3. QED
          BY <4>1, <4>2
      <3>3. QED
        BY <2>4, <2>5, <2>8, <3>1, <3>2
    <2>11. ASSUME NEW w \in Workers, Reconcile(w) PROVE WitnessInv'
      <3> DEFINE res == reconcileDecision(packet[w], executions[input[w].id])
                 log == audit[input[w].id]
      <3>1. /\ pc[w] = "reload" /\ UNCHANGED <<packets, executions, input, published, audit>>
            /\ packet' = [packet EXCEPT ![w] = res] /\ pc' = [pc EXCEPT ![w] = "save"]
        BY <2>11 DEF Reconcile, storeVars
      <3>2. packet[w] \in Packet /\ input[w].id \in PacketIDs
        BY <2>3, <3>1
      <3>3. Witnessed(res, log)
        <4> SUFFICES ASSUME res.status = "approved"
                     PROVE  \E n \in 0..Len(log) : CompleteAfter(log, res.evidence, n)
          BY DEF Witnessed
        <4>1. /\ requiredEvidenceComplete(packet[w].evidence, executions[input[w].id])
              /\ res.evidence = packet[w].evidence
          BY <3>2, ReconcileFacts
        <4>2. packet[w].evidence \in SUBSET EvidenceRequirement /\ log \in Seq(AuditEntry)
          BY <3>2 DEF Packet, TypeOK, StoreTypeOK
        <4>3. \A name \in Names : Explains(executions[input[w].id][name], log, name)
          BY <3>2 DEF AuditExplainsStatus, Explains
        <4> HIDE DEF res, log
        <4>4. QED
          BY <4>1, <4>2, <4>3, WitnessNow
      <3> HIDE DEF res
      <3>4. InHand'
        BY <2>0, <3>1, <3>3 DEF InHand, TypeOK, WorkerTypeOK
      <3>5. QED
        BY <2>4, <2>7, <2>8, <3>1, <3>4
    <2>12. ASSUME NEW w \in Workers, SavePacket(w) PROVE WitnessInv'
      <3>1. /\ pc[w] = "save" /\ packets' = [packets EXCEPT ![input[w].id] = packet[w]]
            /\ UNCHANGED <<packet, input, published>> /\ pc' = [pc EXCEPT ![w] = "publish"]
        BY <2>12 DEF SavePacket, SaveChangePacket
      <3>2. input[w].id \in PacketIDs /\ Witnessed(packet[w], audit'[input[w].id])
        BY <2>0, <2>1, <2>3, <3>1 DEF InHand
      <3>3. InStore'
        BY <2>0, <2>1, <3>1, <3>2 DEF InStore, Stored, TypeOK, StoreTypeOK
      <3>4. InHand'
        BY <2>5, <3>1 DEF TypeOK, WorkerTypeOK
      <3>5. QED
        BY <2>7, <2>8, <3>1, <3>3, <3>4
    <2>13. ASSUME NEW w \in Workers, PublishWithEvidence(w) \/ PublishUnacknowledged(w)
           PROVE  WitnessInv'
      <3> DEFINE id == input[w].id
      <3>1. /\ pc[w] = "publish" /\ UNCHANGED <<packets, audit>>
            /\ published' = [published EXCEPT ![packet[w].head] = conclusion(packet[w].lane)]
        BY <2>13 DEF PublishWithEvidence, PublishUnacknowledged, storeVars
      <3>2. packet[w] \in Packet /\ id \in PacketIDs /\ Stored(id) /\ Descends(packet[w], id)
        BY <2>3, <3>1
      <3>3. OnCheck'
        <4> SUFFICES ASSUME NEW head \in Heads, published'[head] = "success"
                     PROVE  \E i \in PacketIDs :
                                /\ Stored(i)'
                                /\ PacketOf[i].head = head
                                /\ \E n \in 0..Len(audit'[i]) :
                                    CompleteAfter(audit'[i], PacketOf[i].evidence, n)
          BY DEF OnCheck, Stored
        <4>1. CASE head # packet[w].head
          BY <2>0, <2>6, <3>1, <4>1 DEF OnCheck, TypeOK
        <4>2. CASE head = packet[w].head
          <5>1. conclusion(packet[w].lane) = "success"
            BY <3>1, <4>2 DEF TypeOK
          <5>2. packet[w].status = "approved"
            BY <3>2, <5>1, SuccessIsApproved DEF Descends
          <5>3. \E n \in 0..Len(audit[id]) : CompleteAfter(audit[id], packet[w].evidence, n)
            BY <2>0, <3>1, <5>2 DEF InHand, Witnessed
          <5>4. packet[w].evidence = PacketOf[id].evidence /\ PacketOf[id].head = head
            BY <3>2, <4>2 DEF Descends
          <5>5. QED
            BY <2>6, <3>2, <5>3, <5>4
        <4>3. QED
          BY <4>1, <4>2
      <3>4. InHand'
        BY <2>5, <2>13 DEF PublishWithEvidence, PublishUnacknowledged, Answer, TypeOK, WorkerTypeOK
      <3>5. QED
        BY <2>4, <2>8, <3>1, <3>3, <3>4
    <2>14. ASSUME NEW w \in Workers, NEW request \in Request, Submit(w, request) PROVE WitnessInv'
      <3>1. InHand'
        BY <2>5, <2>14 DEF Submit, Answer, TypeOK, WorkerTypeOK
      <3>2. QED
        BY <2>4, <2>7, <2>8, <2>14, <3>1 DEF Submit, storeVars
    <2>15. ASSUME NEW w \in Workers,
                  \/ Retry(w) \/ GetChangePacket(w) \/ ReadStatus(w) \/ RecordUpdate(w) \/ Fail(w)
           PROVE  WitnessInv'
      <3>1. InHand'
        BY <2>5, <2>15 DEF Retry, GetChangePacket, ReadStatus, RecordUpdate, Fail, Answer,
                           TypeOK, WorkerTypeOK
      <3>2. QED
        BY <2>4, <2>7, <2>8, <2>15, <3>1
           DEF Retry, GetChangePacket, ReadStatus, RecordUpdate, RecordEvidenceUpdate, Fail, storeVars
    <2>16. CASE UNCHANGED vars
      BY <2>4, <2>5, <2>7, <2>8, <2>16 DEF vars, workerVars, storeVars
    <2>17. QED
      BY <2>9, <2>10, <2>11, <2>12, <2>13, <2>14, <2>15, <2>16 DEF Next, Step
  <1>3. QED
    BY <1>1, <1>2, TypeCorrect, DescentCorrect, AuditExplainsStatusHolds, PTL DEF Spec

(***************************************************************************)
(* For every instance, a stored approval has a witness in the audit trail. *)
(***************************************************************************)
THEOREM ApprovalHasWitnessHolds == Spec => []ApprovalHasWitness
  <1>1. WitnessInv => ApprovalHasWitness
    BY DEF WitnessInv, Witnessed, ApprovalHasWitness
  <1>2. QED
    BY <1>1, WitnessCorrect, PTL

(***************************************************************************)
(* For every instance, a successful check has a witness in the audit trail *)
(* of a stored packet of its head commit.                                  *)
(***************************************************************************)
THEOREM SuccessHasWitnessHolds == Spec => []SuccessHasWitness
  <1>1. WitnessInv /\ DescentInv => SuccessHasWitness
    BY DEF WitnessInv, DescentInv, Descends, SuccessHasWitness
  <1>2. QED
    BY <1>1, WitnessCorrect, DescentCorrect, PTL

-----------------------------------------------------------------------------

\* No waiver without a name, in a request that has been accepted or on record.
Attributed(entry) == entry.to = "waived" => entry.actor # NoActor

AttributionInv ==
    /\ \A w \in Workers : pc[w] \in InFlight \cup {"failed"} => Attributed(input[w])
    /\ \A id \in PacketIDs : \A k \in 1..Len(audit[id]) : Attributed(audit[id][k])

(***************************************************************************)
(* For every instance, a waiver that is under way or on record names an    *)
(* actor: requests are checked once, when they arrive, and a repeated      *)
(* request is the one that was checked.                                    *)
(***************************************************************************)
THEOREM AttributionCorrect == Spec => []AttributionInv
  <1> USE DEF InFlight
  <1>1. Init => AttributionInv
    BY DEF Init, StoreInit, AttributionInv
  <1>2. TypeOK /\ AttributionInv /\ [Next]_vars => AttributionInv'
    <2> SUFFICES ASSUME TypeOK, AttributionInv, [Next]_vars
                 PROVE  AttributionInv'
      OBVIOUS
    <2>1. ASSUME NEW id \in PacketIDs, IngestSave(id) \/ IngestPublish(id) PROVE AttributionInv'
      BY <2>1 DEF IngestSave, IngestPublish, SaveChangePacket, workerVars, storeVars, AttributionInv
    <2>2. ASSUME NEW w \in Workers, NEW request \in Request, Submit(w, request)
          PROVE AttributionInv'
      BY <2>2 DEF Submit, ValidRequest, Attributed, Answer, storeVars, AttributionInv, TypeOK,
                  WorkerTypeOK
    <2>3. ASSUME NEW w \in Workers, RecordUpdate(w) PROVE AttributionInv'
      <3> DEFINE entry == [name |-> input[w].name, from |-> from[w], to |-> input[w].to,
                           actor |-> input[w].actor,
                           metadata |-> IF input[w].actor \in GitHubApps
                                        THEN "check_run" ELSE "none"]
                 copy == cloneAuditEntry(entry)
      <3>1. pc[w] = "record" /\ input[w].id \in PacketIDs /\ entry \in AuditEntry
        BY <2>3, EntryType DEF RecordUpdate, Request
      <3>2. copy \in AuditEntry /\ Attributed(copy)
        <4>1. Attributed(entry)
          BY <3>1 DEF AttributionInv, Attributed
        <4>2. copy \in AuditEntry /\ copy.to = entry.to /\ copy.actor = entry.actor
          BY <3>1, CloneFacts
        <4>3. QED
          BY <4>1, <4>2 DEF Attributed
      <3>3. /\ audit' = [audit EXCEPT ![input[w].id] = Append(@, copy)]
            /\ UNCHANGED input /\ pc' = [pc EXCEPT ![w] = "reload"]
        BY <2>3 DEF RecordUpdate, RecordEvidenceUpdate
      <3> HIDE DEF entry, copy
      <3>4. ASSUME NEW id \in PacketIDs, NEW k \in 1..Len(audit'[id])
            PROVE  Attributed(audit'[id][k])
        <4>1. audit[id] \in Seq(AuditEntry)
          BY DEF TypeOK, StoreTypeOK
        <4>2. CASE audit'[id] = audit[id]
          BY <3>4, <4>2 DEF AttributionInv
        <4>3. CASE audit'[id] = Append(audit[id], copy)
          BY <3>2, <3>4, <4>1, <4>3, AppendFacts DEF AttributionInv
        <4>4. QED
          BY <3>1, <3>3, <4>2, <4>3 DEF TypeOK, StoreTypeOK
      <3>5. QED
        BY <3>1, <3>3, <3>4 DEF AttributionInv, TypeOK, WorkerTypeOK
    <2>4. ASSUME NEW w \in Workers,
                 \/ Retry(w) \/ GetChangePacket(w) \/ ReadStatus(w) \/ Reconcile(w)
                 \/ PublishWithEvidence(w) \/ PublishUnacknowledged(w) \/ Fail(w)
          PROVE AttributionInv'
      BY <2>4 DEF Retry, GetChangePacket, ReadStatus, Reconcile, PublishWithEvidence,
                  PublishUnacknowledged, Fail, Answer, storeVars, AttributionInv, TypeOK, WorkerTypeOK
    <2>5. ASSUME NEW w \in Workers, SavePacket(w) PROVE AttributionInv'
      BY <2>5 DEF SavePacket, SaveChangePacket, AttributionInv, TypeOK, WorkerTypeOK
    <2>6. CASE UNCHANGED vars
      BY <2>6 DEF vars, workerVars, storeVars, AttributionInv
    <2>7. QED
      BY <2>1, <2>2, <2>3, <2>4, <2>5, <2>6 DEF Next, Step
  <1>3. QED
    BY <1>1, <1>2, TypeCorrect, PTL DEF Spec

(***************************************************************************)
(* For every instance, waived evidence is attributed to an actor by its    *)
(* newest audit entry.                                                     *)
(***************************************************************************)
THEOREM WaiverIsAttributedHolds == Spec => []WaiverIsAttributed
  <1>1. AuditExplainsStatus /\ AttributionInv => WaiverIsAttributed
    BY DEF AuditExplainsStatus, AttributionInv, Attributed, WaiverIsAttributed, NoExecution
  <1>2. QED
    BY <1>1, AttributionCorrect, AuditExplainsStatusHolds, PTL

-----------------------------------------------------------------------------
(* With one reporter at a time for each piece of evidence. *)

\* Entry k of log starts where the entry before it about the same evidence ended.
Linked(log, k) ==
    \/ /\ log[k].from = "pending"
       /\ \A j \in 1..(k - 1) : log[j].name # log[k].name
    \/ \E j \in 1..(k - 1) :
        /\ Newest(log, k - 1, log[k].name, j)
        /\ log[k].from = log[j].to

(***************************************************************************)
(* A later entry does not unlink an earlier one.                           *)
(***************************************************************************)
LEMMA LinkedPersists ==
    ASSUME NEW log \in Seq(AuditEntry), NEW entry \in AuditEntry,
           NEW k \in 1..Len(log), Linked(log, k)
    PROVE  Linked(Append(log, entry), k)
  <1> DEFINE longer == Append(log, entry)
  <1>1. \A j \in 1..k : longer[j] = log[j]
    BY AppendFacts
  <1> HIDE DEF longer
  <1>2. QED
    BY <1>1 DEF Linked, Newest, longer

(***************************************************************************)
(* An entry that starts from the explained status is linked.               *)
(***************************************************************************)
LEMMA LinkedNewest ==
    ASSUME NEW log \in Seq(AuditEntry), NEW entry \in AuditEntry,
           NEW status, Explains(status, log, entry.name),
           entry.from = IF status = NoExecution THEN "pending" ELSE status
    PROVE  Linked(Append(log, entry), Len(log) + 1)
  <1> DEFINE longer == Append(log, entry)
             last == Len(log) + 1
  <1>1. /\ Len(log) \in Nat /\ last - 1 = Len(log)
        /\ \A k \in 1..Len(log) : longer[k] = log[k]
        /\ longer[last] = entry
    BY AppendFacts
  <1>2. \A k \in 1..Len(log) : log[k].to # NoExecution
    <2>1. \A k \in 1..Len(log) : log[k] \in AuditEntry
      OBVIOUS
    <2>2. \A e \in AuditEntry : e.to # NoExecution
      BY DEF AuditEntry, EvidenceStatus, NoExecution
    <2>3. QED
      BY <2>1, <2>2
  <1> HIDE DEF longer, last
  <1>3. CASE \A k \in 1..Len(log) : log[k].name # entry.name
    <2>1. status \in {NoExecution, "pending"}
      BY <1>3 DEF Explains, Newest
    <2>2. QED
      BY <1>1, <1>3, <2>1 DEF Linked, longer, last
  <1>4. CASE ~(\A k \in 1..Len(log) : log[k].name # entry.name)
    <2>1. PICK k \in 1..Len(log) : Newest(log, Len(log), entry.name, k) /\ status = log[k].to
      BY <1>4 DEF Explains
    <2>2. entry.from = log[k].to
      BY <1>2, <2>1
    <2>3. Newest(longer, last - 1, longer[last].name, k)
      BY <1>1, <2>1 DEF Newest
    <2>4. QED
      BY <1>1, <2>2, <2>3 DEF Linked, longer, last
  <1>5. QED
    BY <1>3, <1>4

(***************************************************************************)
(* For every instance in which overlapping calls report different          *)
(* evidence, the audit trail of each piece of evidence is a chain: the     *)
(* FromStatus of an entry is the status that it replaced.                  *)
(***************************************************************************)
THEOREM AuditIsChainHolds == ASSUME SoleReporter PROVE Spec => []AuditIsChain
  <1> DEFINE Chain == \A id \in PacketIDs : \A k \in 1..Len(audit[id]) : Linked(audit[id], k)
  <1>1. AuditIsChain <=> Chain
    BY DEF AuditIsChain, Linked
  <1>2. Init => Chain
    BY DEF Init, StoreInit
  <1>3. TypeOK /\ Fresh /\ AuditExplainsStatus /\ Chain /\ [Next]_vars => Chain'
    <2> SUFFICES ASSUME TypeOK, Fresh, AuditExplainsStatus, Chain, [Next]_vars,
                        NEW id \in PacketIDs, NEW k \in 1..Len(audit'[id])
                 PROVE  Linked(audit'[id], k)
      OBVIOUS
    <2>0. audit[id] \in Seq(AuditEntry)
      BY DEF TypeOK, StoreTypeOK
    <2>1. CASE audit'[id] = audit[id]
      BY <2>1
    <2>2. ASSUME NEW w \in Workers, RecordUpdate(w), audit'[id] # audit[id]
          PROVE  Linked(audit'[id], k)
      <3> DEFINE entry == [name |-> input[w].name, from |-> from[w], to |-> input[w].to,
                           actor |-> input[w].actor,
                           metadata |-> IF input[w].actor \in GitHubApps
                                        THEN "check_run" ELSE "none"]
                 copy == cloneAuditEntry(entry)
      <3>1. pc[w] = "record" /\ input[w] \in Request /\ entry \in AuditEntry
        BY <2>2, EntryType DEF RecordUpdate
      <3>2. copy \in AuditEntry /\ copy.name = input[w].name /\ copy.from = from[w]
        BY <3>1 DEF cloneAuditEntry, AuditEntry, Metadata
      <3>3. audit' = [audit EXCEPT ![input[w].id] = Append(@, copy)]
        BY <2>2 DEF RecordUpdate, RecordEvidenceUpdate
      <3> HIDE DEF entry, copy
      <3>4. input[w].id = id /\ audit'[id] = Append(audit[id], copy)
        BY <2>2, <3>3 DEF TypeOK, StoreTypeOK
      <3>5. /\ Explains(executions[id][copy.name], audit[id], copy.name)
            /\ copy.from = IF executions[id][copy.name] = NoExecution
                           THEN "pending" ELSE executions[id][copy.name]
        BY <3>1, <3>2, <3>4
           DEF Fresh, currentEvidenceStatus, AuditExplainsStatus, Explains, Request
      <3>6. CASE k = Len(audit[id]) + 1
        BY <2>0, <3>2, <3>4, <3>5, <3>6, LinkedNewest
      <3>7. CASE k # Len(audit[id]) + 1
        <4>1. k \in 1..Len(audit[id])
          BY <2>0, <3>2, <3>4, <3>7, AppendFacts
        <4>2. QED
          BY <2>0, <3>2, <3>4, <4>1, LinkedPersists
      <3>8. QED
        BY <3>6, <3>7
    <2>3. (\E w \in Workers : RecordUpdate(w)) \/ UNCHANGED audit
      BY DEF Next, Step, vars, storeVars, IngestSave, IngestPublish, SaveChangePacket, Submit,
             Retry, GetChangePacket, ReadStatus, Reconcile, SavePacket, PublishWithEvidence,
             Fail, PublishUnacknowledged
    <2>4. QED
      BY <2>1, <2>2, <2>3
  <1> HIDE DEF Chain
  <1>4. Spec => []Chain
    BY <1>2, <1>3, TypeCorrect, SoleReporterIsFresh, AuditExplainsStatusHolds, PTL DEF Spec
  <1>5. QED
    BY <1>1, <1>4, PTL

\* A successful check belongs to a stored packet whose evidence is complete.
CheckBacked ==
    \A head \in Heads : published[head] = "success" =>
        \E id \in PacketIDs :
            /\ Stored(id)
            /\ PacketOf[id].head = head
            /\ requiredEvidenceComplete(PacketOf[id].evidence, executions[id])

(***************************************************************************)
(* For every instance in which overlapping calls report different          *)
(* evidence, a successful check is backed by the evidence as it is now,    *)
(* however late the check reached GitHub.                                  *)
(***************************************************************************)
THEOREM SuccessIsBackedHolds == ASSUME SoleReporter PROVE Spec => []SuccessIsBacked
  <1>1. Init => CheckBacked
    BY DEF Init, CheckBacked
  <1>2. /\ TypeOK /\ Fresh /\ DescentInv /\ DescentInv' /\ BackedInv /\ CheckBacked /\ [Next]_vars
        => CheckBacked'
    <2> SUFFICES ASSUME TypeOK, Fresh, DescentInv, DescentInv', BackedInv, CheckBacked, [Next]_vars,
                        NEW head \in Heads, published'[head] = "success"
                 PROVE  \E id \in PacketIDs :
                            /\ Stored(id)'
                            /\ PacketOf[id].head = head
                            /\ requiredEvidenceComplete(PacketOf[id].evidence, executions'[id])
      BY DEF CheckBacked, Stored
    <2> USE DEF InFlight, Holding
    <2>1. \A id \in PacketIDs : Stored(id) => Stored(id)'
      BY DEF DescentInv, Next, Step, vars, TypeOK, IngestSave, IngestPublish, Submit, Retry,
             GetChangePacket, ReadStatus, RecordUpdate, Reconcile, SavePacket,
             PublishWithEvidence, Fail, PublishUnacknowledged
    <2>2. ASSUME NEW id \in PacketIDs, Stored(id), PacketOf[id].head = head,
                 requiredEvidenceComplete(PacketOf[id].evidence, executions[id])
          PROVE  \E i \in PacketIDs :
                    /\ Stored(i)'
                    /\ PacketOf[i].head = head
                    /\ requiredEvidenceComplete(PacketOf[i].evidence, executions'[i])
      <3>1. \A requirement \in PacketOf[id].evidence : requirement.name \in Names
        BY PacketsFromPolicy DEF Packet, EvidenceRequirement
      <3>2. requiredEvidenceComplete(PacketOf[id].evidence, executions'[id])
        BY <2>2, <3>1, CompletenessGrows DEF requiredEvidenceComplete
      <3>3. QED
        BY <2>1, <2>2, <3>2
    <2>3. CASE published'[head] = published[head]
      BY <2>2, <2>3 DEF CheckBacked
    <2>4. ASSUME NEW id \in PacketIDs, IngestPublish(id), published'[head] # published[head]
          PROVE  /\ Stored(id) /\ PacketOf[id].head = head
                 /\ requiredEvidenceComplete(PacketOf[id].evidence, executions[id])
      <3>1. /\ published' = [published EXCEPT ![PacketOf[id].head] = conclusion(PacketOf[id].lane)]
            /\ Stored(id)
        BY <2>4 DEF IngestPublish, DescentInv
      <3>2. head = PacketOf[id].head /\ conclusion(PacketOf[id].lane) = "success"
        BY <2>4, <3>1 DEF TypeOK
      <3>3. PacketOf[id].status = "approved"
        BY <3>2, PacketsFromPolicy, SuccessIsApproved
      <3>4. QED
        BY <3>1, <3>2, <3>3, PacketsFromPolicy DEF requiredEvidenceComplete
    <2>5. ASSUME NEW w \in Workers, PublishWithEvidence(w) \/ PublishUnacknowledged(w),
                 published'[head] # published[head]
          PROVE  \E id \in PacketIDs :
                    /\ Stored(id) /\ PacketOf[id].head = head
                    /\ requiredEvidenceComplete(PacketOf[id].evidence, executions[id])
      <3> DEFINE id == input[w].id
      <3>1. /\ pc[w] = "publish"
            /\ published' = [published EXCEPT ![packet[w].head] = conclusion(packet[w].lane)]
        BY <2>5 DEF PublishWithEvidence, PublishUnacknowledged
      <3>2. /\ packet[w] \in Packet /\ id \in PacketIDs
            /\ Stored(id) /\ Descends(packet[w], id) /\ Backed(packet[w], executions[id])
        BY <3>1 DEF TypeOK, WorkerTypeOK, Request, DescentInv, BackedInv
      <3>3. head = packet[w].head /\ conclusion(packet[w].lane) = "success"
        BY <2>5, <3>1 DEF TypeOK
      <3>4. packet[w].status = "approved"
        BY <3>2, <3>3, SuccessIsApproved DEF Descends
      <3>5. QED
        BY <3>2, <3>3, <3>4 DEF Descends, Backed
    <2>6. \/ UNCHANGED published
          \/ \E id \in PacketIDs : IngestPublish(id)
          \/ \E w \in Workers : PublishWithEvidence(w) \/ PublishUnacknowledged(w)
      BY DEF Next, Step, vars, IngestSave, Submit, Retry, GetChangePacket, ReadStatus,
             RecordUpdate, Reconcile, SavePacket, Fail
    <2>7. QED
      BY <2>2, <2>3, <2>4, <2>5, <2>6
  <1>3. CheckBacked /\ DescentInv => SuccessIsBacked
    BY DEF CheckBacked, DescentInv, Descends, SuccessIsBacked, EvidenceComplete
  <1>4. QED
    BY <1>1, <1>2, <1>3, TypeCorrect, SoleReporterIsFresh, DescentCorrect, SoleReporterIsBacked, PTL
       DEF Spec

-----------------------------------------------------------------------------
(* EvidenceService implements EvidenceLedger. *)

(***************************************************************************)
(* A witness in the audit trail justifies an approval in the ledger.       *)
(***************************************************************************)
LEMMA WitnessJustifies ==
    ASSUME NEW id \in PacketIDs, NEW n \in 0..Len(audit[id]),
           CompleteAfter(audit[id], PacketOf[id].evidence, n)
    PROVE  Ledger!Justified(id)
  <1>1. ASSUME NEW name \in RequiredNames(PacketOf[id].evidence)
        PROVE  Ledger!CompleteAt(audit[id], n, name)
    <2>1. PICK requirement \in PacketOf[id].evidence :
            requirement.required /\ requirement.name = name
      BY DEF RequiredNames
    <2>2. PICK k \in 1..n : Newest(audit[id], n, name, k) /\ audit[id][k].to \in Complete
      BY <2>1 DEF CompleteAfter
    <2>3. QED
      BY <2>2 DEF Newest, Complete, Ledger!CompleteAt
  <1>2. QED
    BY <1>1 DEF Ledger!Justified

\* A call that is about to save has reconciled the decision.
ReconciledInv ==
    \A w \in Workers : pc[w] = "save" => packet[w].status # "escalated"

(***************************************************************************)
(* For every instance, no call saves an escalated decision: what it saves  *)
(* is the outcome of reconcileDecision.                                    *)
(***************************************************************************)
THEOREM ReconciledCorrect == Spec => []ReconciledInv
  <1>1. Init => ReconciledInv
    BY DEF Init, ReconciledInv
  <1>2. TypeOK /\ ReconciledInv /\ [Next]_vars => ReconciledInv'
    <2> SUFFICES ASSUME TypeOK, ReconciledInv, [Next]_vars,
                        NEW w \in Workers, pc'[w] = "save"
                 PROVE  packet'[w].status # "escalated"
      BY DEF ReconciledInv
    <2>1. CASE Reconcile(w)
      <3> DEFINE res == reconcileDecision(packet[w], executions[input[w].id])
      <3>1. packet[w] \in Packet
        BY <2>1 DEF Reconcile, TypeOK, WorkerTypeOK, InFlight
      <3>2. packet'[w] = res
        BY <2>1 DEF Reconcile, TypeOK, WorkerTypeOK
      <3>3. res.status \in {"blocked", "approved", "pending"}
        BY <3>1 DEF reconcileDecision, Packet
      <3>4. QED
        BY <3>2, <3>3
    <2>2. ASSUME ~Reconcile(w) PROVE pc[w] = "save" /\ packet'[w] = packet[w]
      <3> USE DEF TypeOK, WorkerTypeOK
      <3>1. ASSUME NEW id \in PacketIDs, IngestSave(id) \/ IngestPublish(id)
            PROVE  pc[w] = "save" /\ packet'[w] = packet[w]
        BY <3>1 DEF IngestSave, IngestPublish, workerVars
      <3>2. ASSUME NEW v \in Workers, NEW request \in Request, Submit(v, request)
            PROVE  pc[w] = "save" /\ packet'[w] = packet[w]
        BY <3>2 DEF Submit, Answer
      <3>3. ASSUME NEW v \in Workers, Retry(v) \/ GetChangePacket(v) \/ ReadStatus(v)
            PROVE  pc[w] = "save" /\ packet'[w] = packet[w]
        BY <3>3 DEF Retry, GetChangePacket, ReadStatus, Answer
      <3>4. ASSUME NEW v \in Workers, RecordUpdate(v) \/ SavePacket(v)
            PROVE  pc[w] = "save" /\ packet'[w] = packet[w]
        BY <3>4 DEF RecordUpdate, SavePacket
      <3>5. ASSUME NEW v \in Workers, v # w, Reconcile(v)
            PROVE  pc[w] = "save" /\ packet'[w] = packet[w]
        BY <3>5 DEF Reconcile
      <3>6. ASSUME NEW v \in Workers,
                   PublishWithEvidence(v) \/ PublishUnacknowledged(v) \/ Fail(v)
            PROVE  pc[w] = "save" /\ packet'[w] = packet[w]
        BY <3>6 DEF PublishWithEvidence, PublishUnacknowledged, Fail, Answer
      <3>7. CASE UNCHANGED vars
        BY <3>7 DEF vars, workerVars
      <3>8. QED
        BY <2>2, <3>1, <3>2, <3>3, <3>4, <3>5, <3>6, <3>7 DEF Next, Step
    <2>3. QED
      BY <2>1, <2>2 DEF ReconciledInv
  <1>3. QED
    BY <1>1, <1>2, TypeCorrect, PTL DEF Spec

(***************************************************************************)
(* For every instance, EvidenceService implements EvidenceLedger: saving a *)
(* new packet opens it, RecordEvidenceUpdate reports, saving a reconciled  *)
(* copy concludes, however old the copy is, and nothing else shows.        *)
(***************************************************************************)
THEOREM ServiceImplementsLedger == Spec => ImplementsLedger
  <1> DEFINE standing == [id \in PacketIDs |->
                IF packets[id] = NoPacket THEN "unknown" ELSE packets[id].status]
  <1>1. Init => Ledger!Init
    BY DEF Init, StoreInit, Ledger!Init
  <1>2. /\ TypeOK /\ DescentInv /\ WitnessInv /\ AttributionInv /\ ReconciledInv
        /\ [Next]_vars
        => [Ledger!Next]_(Ledger!ledgerVars)
    <2> SUFFICES ASSUME TypeOK, DescentInv, WitnessInv, AttributionInv, ReconciledInv,
                        [Next]_vars
                 PROVE  [Ledger!Next]_(Ledger!ledgerVars)
      OBVIOUS
    <2>1. UNCHANGED <<packets, audit>> => UNCHANGED Ledger!ledgerVars
      BY DEF Ledger!ledgerVars
    <2>2. ASSUME NEW id \in PacketIDs, IngestSave(id) PROVE Ledger!Next
      <3>1. packets[id] = NoPacket /\ PacketOf[id] \in Packet /\ PacketOf[id] # NoPacket
        BY <2>2, PacketsFromPolicy, StoreConstants DEF IngestSave, DescentInv, Stored
      <3>2. UNCHANGED audit /\ packets' = [packets EXCEPT ![id] = PacketOf[id]]
        BY <2>2 DEF IngestSave, SaveChangePacket
      <3>3. standing' = [standing EXCEPT ![id] = PacketOf[id].status]
        BY <3>1, <3>2 DEF TypeOK, StoreTypeOK
      <3>4. standing[id] = "unknown"
        BY <3>1
      <3>5. PacketOf[id].status \in {"pending", "escalated", "blocked", "approved"}
        BY <3>1 DEF Packet, DecisionStatus
      <3>6. PacketOf[id].status = "approved" => RequiredNames(PacketOf[id].evidence) = {}
        BY PacketsFromPolicy DEF RequiredNames
      <3>7. Ledger!Open(id)
        BY <3>2, <3>3, <3>4, <3>5, <3>6 DEF Ledger!Open
      <3>8. QED
        BY <3>7 DEF Ledger!Next
    <2>3. ASSUME NEW w \in Workers, RecordUpdate(w) PROVE Ledger!Next
      <3> DEFINE id == input[w].id
                 entry == [name |-> input[w].name, from |-> from[w], to |-> input[w].to,
                           actor |-> input[w].actor,
                           metadata |-> IF input[w].actor \in GitHubApps
                                        THEN "check_run" ELSE "none"]
                 copy == cloneAuditEntry(entry)
      <3>1. pc[w] = "record" /\ id \in PacketIDs /\ entry \in AuditEntry
        BY <2>3, EntryType DEF RecordUpdate, Request
      <3>2. copy \in AuditEntry /\ copy.to = entry.to /\ copy.actor = entry.actor
        BY <3>1, CloneFacts
      <3>3. copy.to = "waived" => copy.actor # NoActor
        BY <3>1, <3>2 DEF AttributionInv, Attributed, InFlight
      <3>4. audit' = [audit EXCEPT ![id] = Append(@, copy)] /\ UNCHANGED packets
        BY <2>3 DEF RecordUpdate, RecordEvidenceUpdate
      <3> HIDE DEF entry, copy
      <3>5. packets[id] # NoPacket /\ packets[id] \in Packet
        BY <3>1 DEF DescentInv, Holding, InFlight, Stored, TypeOK, StoreTypeOK
      <3>6. standing[id] # "unknown"
        BY <3>1, <3>5 DEF Packet, DecisionStatus
      <3>7. Ledger!Report(id)
        BY <3>2, <3>3, <3>4, <3>6 DEF Ledger!Report
      <3>8. QED
        BY <3>1, <3>7 DEF Ledger!Next
    <2>4. ASSUME NEW w \in Workers, SavePacket(w) PROVE [Ledger!Next]_(Ledger!ledgerVars)
      <3>0. PICK id \in PacketIDs : id = input[w].id
        BY <2>4 DEF SavePacket, TypeOK, WorkerTypeOK, InFlight, Request
      <3>1. /\ pc[w] = "save" /\ packet[w] \in Packet
            /\ packet[w] # NoPacket /\ Stored(id)
            /\ Descends(packet[w], id) /\ Descends(packets[id], id)
        BY <2>4, <3>0, StoreConstants
           DEF SavePacket, TypeOK, WorkerTypeOK, InFlight, Holding, Request, DescentInv
      <3>2. UNCHANGED audit /\ packets' = [packets EXCEPT ![id] = packet[w]]
        BY <2>4, <3>0 DEF SavePacket, SaveChangePacket
      <3>3. standing' = [standing EXCEPT ![id] = packet[w].status]
        BY <3>1, <3>2 DEF TypeOK, StoreTypeOK
      <3>4. packets[id] \in Packet /\ standing[id] = packets[id].status
        BY <3>1 DEF Stored, TypeOK, StoreTypeOK
      <3>5. CASE packet[w].status = "blocked"
        <4>1. packets[id].status = "blocked"
          BY <3>1, <3>5 DEF Descends
        <4>2. standing' = standing
          BY <3>1, <3>3, <3>4, <3>5, <4>1
        <4>3. QED
          BY <3>2, <4>2 DEF Ledger!ledgerVars
      <3>6. CASE packet[w].status = "pending"
        <4>1. standing[id] \notin {"unknown", "blocked"}
          BY <3>1, <3>4, <3>6 DEF Descends, Packet, DecisionStatus
        <4>2. Ledger!Conclude(id)
          BY <3>2, <3>3, <3>6, <4>1 DEF Ledger!Conclude
        <4>3. QED
          BY <4>2 DEF Ledger!Next
      <3>7. CASE packet[w].status = "approved"
        <4>1. standing[id] \notin {"unknown", "blocked"}
          BY <3>1, <3>4, <3>7 DEF Descends, Packet, DecisionStatus
        <4>2. PICK n \in 0..Len(audit[id]) : CompleteAfter(audit[id], packet[w].evidence, n)
          BY <3>0, <3>1, <3>7 DEF WitnessInv, Witnessed
        <4>3. Ledger!Justified(id)
          BY <3>1, <4>2, WitnessJustifies DEF Descends
        <4>4. Ledger!Conclude(id)
          BY <3>2, <3>3, <3>7, <4>1, <4>3 DEF Ledger!Conclude
        <4>5. QED
          BY <4>4 DEF Ledger!Next
      <3>8. QED
        BY <3>1, <3>5, <3>6, <3>7 DEF ReconciledInv, Packet, DecisionStatus
    <2>5. QED
      BY <2>1, <2>2, <2>3, <2>4
         DEF Next, Step, vars, storeVars, IngestPublish, Submit, Retry, GetChangePacket,
             ReadStatus, Reconcile, PublishWithEvidence, Fail, PublishUnacknowledged
  <1>3. Spec => Ledger!Init /\ [][Ledger!Next]_(Ledger!ledgerVars)
    BY <1>1, <1>2, TypeCorrect, DescentCorrect, WitnessCorrect, AttributionCorrect,
       ReconciledCorrect, PTL DEF Spec
  <1>4. QED
    BY <1>3 DEF ImplementsLedger, Ledger!Spec

-----------------------------------------------------------------------------
(* The other operations do not disturb evidence updates. *)

(***************************************************************************)
(* Reading packets and recording deployment outcomes changes nothing that  *)
(* evidence updates read: everything proved of EvidenceService holds with  *)
(* them too.                                                               *)
(***************************************************************************)
THEOREM ReadsAreInvisible == ReadsSpec => Spec
  <1>1. ReadsInit => Init
    BY DEF ReadsInit
  <1>2. [ReadsNext]_allVars => [Next]_vars
    BY DEF ReadsNext, allVars, Serve, Stamp, BeginView, BeginOutcome, ReadView,
           SaveDeploymentOutcome
  <1>3. QED
    BY <1>1, <1>2, PTL DEF ReadsSpec, Spec

(***************************************************************************)
(* A step that takes a call from "record" to "reload" is the RecordUpdate  *)
(* of that call, and no other step writes the audit trail.                 *)
(***************************************************************************)
LEMMA RecordSteps ==
    ASSUME TypeOK, [Next]_vars
    PROVE  \/ /\ UNCHANGED audit
              /\ \A w \in Workers : ~(pc[w] = "record" /\ pc'[w] = "reload")
           \/ \E w \in Workers :
                /\ RecordUpdate(w)
                /\ \A v \in Workers : pc[v] = "record" /\ pc'[v] = "reload" <=> v = w
  <1>1. ASSUME NEW w \in Workers, RecordUpdate(w)
        PROVE  \A v \in Workers : pc[v] = "record" /\ pc'[v] = "reload" <=> v = w
    BY <1>1 DEF RecordUpdate, TypeOK, WorkerTypeOK
  <1>2. ASSUME NEW w \in Workers,
               \/ \E request \in Request : Submit(w, request)
               \/ Retry(w) \/ GetChangePacket(w) \/ ReadStatus(w) \/ Reconcile(w)
               \/ SavePacket(w) \/ PublishWithEvidence(w) \/ PublishUnacknowledged(w) \/ Fail(w)
        PROVE  /\ UNCHANGED audit
               /\ \A v \in Workers : ~(pc[v] = "record" /\ pc'[v] = "reload")
    BY <1>2 DEF Submit, Retry, GetChangePacket, ReadStatus, Reconcile, SavePacket,
                SaveChangePacket, PublishWithEvidence, PublishUnacknowledged, Fail, Answer,
                storeVars, TypeOK, WorkerTypeOK
  <1>3. ASSUME NEW id \in PacketIDs, IngestSave(id) \/ IngestPublish(id)
        PROVE  /\ UNCHANGED audit
               /\ \A v \in Workers : ~(pc[v] = "record" /\ pc'[v] = "reload")
    BY <1>3 DEF IngestSave, IngestPublish, SaveChangePacket, workerVars, storeVars
  <1>4. CASE UNCHANGED vars
    BY <1>4 DEF vars, workerVars, storeVars
  <1>5. QED
    BY <1>1, <1>2, <1>3, <1>4 DEF Next, Step

-----------------------------------------------------------------------------
(* Stamps. *)

StampTypeOK ==
    /\ stamp \in [Workers -> Nat]
    /\ clock \in Nat
    /\ occurred \in [PacketIDs -> Seq(Nat)]
    /\ \A id \in PacketIDs : Len(occurred[id]) = Len(audit[id])

\* Stamps are given in the order of the clock.
StampedInOrder ==
    /\ \A w \in Workers : stamp[w] # 0 => pc[w] = "record"
    /\ \A w \in Workers : stamp[w] <= clock
    /\ \A id \in PacketIDs : \A k \in 1..Len(audit[id]) : occurred[id][k] <= clock

\* The stamps of the entries about one piece of evidence follow the order in
\* which the entries were stored.
StampsFollowStore ==
    /\ \A w \in Workers : stamp[w] # 0 =>
        \A k \in 1..Len(audit[input[w].id]) :
            audit[input[w].id][k].name = input[w].name => occurred[input[w].id][k] < stamp[w]
    /\ \A id \in PacketIDs : \A k \in 1..Len(audit[id]) : \A j \in 1..(k - 1) :
        audit[id][j].name = audit[id][k].name => occurred[id][j] < occurred[id][k]

(***************************************************************************)
(* A call that stays at "record" keeps its request.                        *)
(***************************************************************************)
LEMMA RecordKeepsRequest ==
    ASSUME TypeOK, [Next]_vars, NEW v \in Workers, pc[v] = "record", pc'[v] = "record"
    PROVE  input'[v] = input[v]
  <1>1. ASSUME NEW w \in Workers, NEW request \in Request, Submit(w, request)
        PROVE  input'[v] = input[v]
    BY <1>1 DEF Submit, Answer, Answered, TypeOK, WorkerTypeOK
  <1>2. ASSUME NEW w \in Workers,
               GetChangePacket(w) \/ ReadStatus(w) \/ PublishWithEvidence(w)
               \/ PublishUnacknowledged(w) \/ Fail(w)
        PROVE  input'[v] = input[v]
    BY <1>2 DEF GetChangePacket, ReadStatus, PublishWithEvidence, PublishUnacknowledged, Fail,
                Answer, TypeOK, WorkerTypeOK
  <1>3. QED
    BY <1>1, <1>2 DEF Next, Step, vars, workerVars, IngestSave, IngestPublish, Retry,
                      RecordUpdate, Reconcile, SavePacket

(***************************************************************************)
(* What a step of the service does to stamps and audit trail: nothing, or  *)
(* the call that records its update stores its stamp with its entry.       *)
(***************************************************************************)
LEMMA ServeStamps ==
    ASSUME TypeOK, StampTypeOK, Serve
    PROVE  \/ UNCHANGED <<audit, occurred>>
           \/ \E w \in Workers, copy \in AuditEntry :
                /\ pc[w] = "record" /\ pc'[w] = "reload" /\ stamp[w] # 0
                /\ input[w].id \in PacketIDs
                /\ copy.name = input[w].name
                /\ audit' = [audit EXCEPT ![input[w].id] = Append(audit[input[w].id], copy)]
                /\ occurred' = [occurred EXCEPT ![input[w].id] =
                                    Append(occurred[input[w].id], stamp[w])]
  <1>1. /\ Next
        /\ \A w \in Workers : pc[w] = "record" /\ pc'[w] = "reload" => stamp[w] # 0
        /\ occurred' = [id \in PacketIDs |->
                IF audit'[id] = audit[id] THEN occurred[id]
                ELSE Append(occurred[id],
                            stamp[CHOOSE w \in Workers : pc[w] = "record" /\ pc'[w] = "reload"])]
    BY DEF Serve
  <1>2. CASE UNCHANGED audit
    BY <1>1, <1>2 DEF StampTypeOK
  <1>3. ASSUME NEW w \in Workers, RecordUpdate(w),
               \A v \in Workers : pc[v] = "record" /\ pc'[v] = "reload" <=> v = w
        PROVE  \E copy \in AuditEntry :
                /\ pc[w] = "record" /\ pc'[w] = "reload" /\ stamp[w] # 0
                /\ input[w].id \in PacketIDs
                /\ copy.name = input[w].name
                /\ audit' = [audit EXCEPT ![input[w].id] = Append(audit[input[w].id], copy)]
                /\ occurred' = [occurred EXCEPT ![input[w].id] =
                                    Append(occurred[input[w].id], stamp[w])]
    <2> DEFINE entry == [name |-> input[w].name, from |-> from[w], to |-> input[w].to,
                         actor |-> input[w].actor,
                         metadata |-> IF input[w].actor \in GitHubApps
                                      THEN "check_run" ELSE "none"]
               copy == cloneAuditEntry(entry)
    <2>1. pc[w] = "record" /\ input[w].id \in PacketIDs /\ entry \in AuditEntry
      BY <1>3, EntryType DEF RecordUpdate, Request
    <2>2. copy \in AuditEntry /\ copy.name = input[w].name
      BY <2>1, CloneFacts
    <2>3. audit' = [audit EXCEPT ![input[w].id] = Append(audit[input[w].id], copy)]
      BY <1>3 DEF RecordUpdate, RecordEvidenceUpdate
    <2> HIDE DEF entry, copy
    <2>4. (CHOOSE v \in Workers : pc[v] = "record" /\ pc'[v] = "reload") = w
      BY <1>3
    <2>5. /\ audit'[input[w].id] # audit[input[w].id]
          /\ \A id \in PacketIDs \ {input[w].id} : audit'[id] = audit[id]
      <3>1. audit[input[w].id] \in Seq(AuditEntry)
        BY <2>1 DEF TypeOK, StoreTypeOK
      <3>2. Append(audit[input[w].id], copy) # audit[input[w].id]
        BY <2>2, <3>1, AppendFacts
      <3>3. QED
        BY <2>1, <2>3, <3>2 DEF TypeOK, StoreTypeOK
    <2>6. occurred' = [id \in PacketIDs |-> IF id = input[w].id
                            THEN Append(occurred[id], stamp[w]) ELSE occurred[id]]
      BY <1>1, <2>4, <2>5
    <2>7. occurred' = [occurred EXCEPT ![input[w].id] = Append(occurred[input[w].id], stamp[w])]
      BY <2>1, <2>6 DEF StampTypeOK
    <2>8. QED
      BY <1>1, <1>3, <2>1, <2>2, <2>3, <2>7
  <1>4. QED
    BY <1>1, <1>2, <1>3, RecordSteps

(***************************************************************************)
(* For every instance, each audit entry has a stamp, no newer than the     *)
(* clock, and only a call about to record holds one.                       *)
(***************************************************************************)
THEOREM StampTypeCorrect == ReadsSpec => [](StampTypeOK /\ StampedInOrder)
  <1>1. ReadsInit => StampTypeOK /\ StampedInOrder
    BY DEF ReadsInit, Init, StoreInit, StampTypeOK, StampedInOrder
  <1>2. TypeOK /\ TypeOK' /\ StampTypeOK /\ StampedInOrder /\ [ReadsNext]_allVars
        => (StampTypeOK /\ StampedInOrder)'
    <2> SUFFICES ASSUME TypeOK, TypeOK', StampTypeOK, StampedInOrder, [ReadsNext]_allVars
                 PROVE  StampTypeOK' /\ StampedInOrder'
      OBVIOUS
    <2>1. ASSUME NEW w \in Workers, Stamp(w) PROVE StampTypeOK' /\ StampedInOrder'
      <3>1. /\ pc[w] = "record" /\ clock' = clock + 1 /\ stamp' = [stamp EXCEPT ![w] = clock + 1]
            /\ UNCHANGED <<pc, audit, occurred>>
        BY <2>1 DEF Stamp, vars, storeVars, workerVars
      <3>2. StampTypeOK'
        BY <3>1 DEF StampTypeOK
      <3>3. \A id \in PacketIDs : \A k \in 1..Len(audit[id]) : occurred[id][k] \in Nat
        BY DEF StampTypeOK
      <3>4. QED
        BY <3>1, <3>2, <3>3 DEF StampTypeOK, StampedInOrder
    <2>2. CASE Serve
      <3>1. /\ stamp' = [w \in Workers |-> IF pc'[w] = "record" THEN stamp[w] ELSE 0]
            /\ clock' = clock
        BY <2>2 DEF Serve
      <3>2. /\ stamp' \in [Workers -> Nat]
            /\ \A w \in Workers : stamp'[w] # 0 => pc'[w] = "record"
            /\ \A w \in Workers : stamp'[w] <= clock'
        BY <3>1 DEF StampTypeOK, StampedInOrder
      <3>3. CASE UNCHANGED <<audit, occurred>>
        BY <3>1, <3>2, <3>3 DEF StampTypeOK, StampedInOrder
      <3>4. ASSUME NEW w \in Workers, NEW copy \in AuditEntry, input[w].id \in PacketIDs,
                   audit' = [audit EXCEPT ![input[w].id] = Append(audit[input[w].id], copy)],
                   occurred' = [occurred EXCEPT ![input[w].id] =
                                    Append(occurred[input[w].id], stamp[w])]
            PROVE  StampTypeOK' /\ StampedInOrder'
        <4>1. ASSUME NEW id \in PacketIDs
              PROVE  /\ occurred'[id] \in Seq(Nat) /\ Len(occurred'[id]) = Len(audit'[id])
                     /\ \A k \in 1..Len(audit'[id]) : occurred'[id][k] <= clock
          <5>1. /\ audit[id] \in Seq(AuditEntry) /\ occurred[id] \in Seq(Nat)
                /\ Len(occurred[id]) = Len(audit[id]) /\ stamp[w] \in Nat /\ stamp[w] <= clock
                /\ \A k \in 1..Len(audit[id]) : occurred[id][k] <= clock
            BY DEF TypeOK, StoreTypeOK, StampTypeOK, StampedInOrder
          <5>2. CASE id # input[w].id
            <6>1. audit'[id] = audit[id] /\ occurred'[id] = occurred[id]
              BY <3>4, <5>2 DEF TypeOK, StoreTypeOK, StampTypeOK
            <6>2. QED
              BY <5>1, <6>1
          <5>3. CASE id = input[w].id
            <6>1. audit'[id] = Append(audit[id], copy) /\ occurred'[id] = Append(occurred[id], stamp[w])
              BY <3>4, <5>3 DEF TypeOK, StoreTypeOK, StampTypeOK
            <6>2. QED
              BY <5>1, <6>1
          <5>4. QED
            BY <5>2, <5>3
        <4>2. occurred' \in [PacketIDs -> Seq(Nat)]
          BY <3>4, <4>1 DEF StampTypeOK
        <4>3. QED
          BY <3>1, <3>2, <4>1, <4>2 DEF StampTypeOK, StampedInOrder
      <3>5. QED
        BY <2>2, <3>3, <3>4, ServeStamps
    <2>3. ASSUME \/ \E id \in PacketIDs : BeginView(id) \/ BeginOutcome(id)
                 \/ ReadView \/ SaveDeploymentOutcome \/ UNCHANGED allVars
          PROVE  StampTypeOK' /\ StampedInOrder'
      <3>1. UNCHANGED <<pc, audit, stamp, clock, occurred>>
        BY <2>3 DEF BeginView, BeginOutcome, ReadView, SaveDeploymentOutcome, allVars, readVars,
                    vars, storeVars, workerVars
      <3>2. QED
        BY <3>1 DEF StampTypeOK, StampedInOrder
    <2>4. QED
      BY <2>1, <2>2, <2>3 DEF ReadsNext
  <1>3. QED
    BY <1>1, <1>2, ReadsAreInvisible, TypeCorrect, PTL DEF ReadsSpec

(***************************************************************************)
(* For every instance in which overlapping calls report different          *)
(* evidence, the stamps of the entries about one piece of evidence follow  *)
(* the order in which the entries were stored, although other calls may    *)
(* store their entries between a call's stamp and its own entry.           *)
(***************************************************************************)
THEOREM StampsFollowStoreHolds == ASSUME SoleReporter PROVE ReadsSpec => []StampsFollowStore
  <1>1. ReadsInit => StampsFollowStore
    BY DEF ReadsInit, Init, StoreInit, StampsFollowStore
  <1>2. /\ TypeOK /\ Disjoint /\ StampTypeOK /\ StampedInOrder /\ StampsFollowStore
        /\ [ReadsNext]_allVars
        => StampsFollowStore'
    <2> SUFFICES ASSUME TypeOK, Disjoint, StampTypeOK, StampedInOrder, StampsFollowStore,
                        [ReadsNext]_allVars
                 PROVE  StampsFollowStore'
      OBVIOUS
    <2>0. /\ \A id \in PacketIDs : audit[id] \in Seq(AuditEntry) /\ occurred[id] \in Seq(Nat)
          /\ \A w \in Workers : pc[w] = "record" => input[w].id \in PacketIDs
      BY DEF TypeOK, StoreTypeOK, StampTypeOK, WorkerTypeOK, InFlight, Request
    <2>1. ASSUME NEW w \in Workers, Stamp(w) PROVE StampsFollowStore'
      <3>1. /\ pc[w] = "record" /\ stamp' = [stamp EXCEPT ![w] = clock + 1]
            /\ UNCHANGED <<input, audit, occurred>>
        BY <2>1 DEF Stamp, vars, storeVars, workerVars
      <3>2. ASSUME NEW v \in Workers, stamp'[v] # 0, NEW k \in 1..Len(audit[input[v].id]),
                   audit[input[v].id][k].name = input[v].name
            PROVE  occurred[input[v].id][k] < stamp'[v]
        <4>1. CASE v = w
          <5>1. occurred[input[w].id][k] \in Nat /\ occurred[input[w].id][k] <= clock
            BY <2>0, <3>1, <3>2, <4>1 DEF StampedInOrder, StampTypeOK
          <5>2. QED
            BY <3>1, <4>1, <5>1 DEF StampTypeOK
        <4>2. CASE v # w
          BY <3>1, <3>2, <4>2 DEF StampsFollowStore, StampTypeOK
        <4>3. QED
          BY <4>1, <4>2
      <3>3. QED
        BY <3>1, <3>2 DEF StampsFollowStore
    <2>2. CASE Serve
      <3>1. Next /\ stamp' = [w \in Workers |-> IF pc'[w] = "record" THEN stamp[w] ELSE 0]
        BY <2>2 DEF Serve
      <3>2. ASSUME NEW v \in Workers, stamp'[v] # 0
            PROVE  /\ stamp[v] # 0 /\ stamp'[v] = stamp[v] /\ input'[v] = input[v]
                   /\ pc[v] = "record" /\ pc'[v] = "record"
        BY <3>1, <3>2, RecordKeepsRequest DEF StampedInOrder
      <3>3. CASE UNCHANGED <<audit, occurred>>
        BY <3>2, <3>3 DEF StampsFollowStore
      <3>4. ASSUME NEW w \in Workers, NEW copy \in AuditEntry,
                   pc[w] = "record", pc'[w] = "reload", stamp[w] # 0,
                   input[w].id \in PacketIDs, copy.name = input[w].name,
                   audit' = [audit EXCEPT ![input[w].id] = Append(audit[input[w].id], copy)],
                   occurred' = [occurred EXCEPT ![input[w].id] =
                                    Append(occurred[input[w].id], stamp[w])]
            PROVE  StampsFollowStore'
        <4>0. PICK id \in PacketIDs : id = input[w].id
          BY <3>4
        <4>1. /\ audit'[id] = Append(audit[id], copy) /\ occurred'[id] = Append(occurred[id], stamp[w])
              /\ \A i \in PacketIDs \ {id} : audit'[i] = audit[i] /\ occurred'[i] = occurred[i]
          BY <3>4, <4>0 DEF TypeOK, StoreTypeOK, StampTypeOK
        <4>2. /\ Len(audit[id]) \in Nat /\ Len(audit'[id]) = Len(audit[id]) + 1
              /\ \A k \in 1..Len(audit[id]) :
                    audit'[id][k] = audit[id][k] /\ occurred'[id][k] = occurred[id][k]
              /\ audit'[id][Len(audit[id]) + 1] = copy
              /\ occurred'[id][Len(audit[id]) + 1] = stamp[w]
          <5>1. audit[id] \in Seq(AuditEntry) /\ occurred[id] \in Seq(Nat)
                /\ Len(occurred[id]) = Len(audit[id]) /\ stamp[w] \in Nat
            BY <2>0 DEF StampTypeOK
          <5>2. QED
            BY <4>1, <5>1
        <4>3. ASSUME NEW v \in Workers, stamp'[v] # 0, NEW k \in 1..Len(audit'[input[v].id]),
                     audit'[input[v].id][k].name = input[v].name
              PROVE  occurred'[input[v].id][k] < stamp[v]
          <5>1. v # w /\ pc[v] = "record" /\ stamp[v] # 0 /\ input[v].id \in PacketIDs
            BY <2>0, <3>2, <3>4, <4>3
          <5>2. ~SamePlace(input[v], input[w])
            BY <3>4, <5>1 DEF Disjoint, InFlight
          <5>3. CASE input[v].id # id
            BY <4>1, <4>3, <5>1, <5>3 DEF StampsFollowStore
          <5>4. CASE input[v].id = id
            <6>1. k # Len(audit[id]) + 1
              BY <3>4, <4>0, <4>2, <4>3, <5>2, <5>4 DEF SamePlace
            <6>2. k \in 1..Len(audit[id])
              BY <4>2, <4>3, <5>4, <6>1
            <6>3. QED
              BY <4>2, <4>3, <5>1, <5>4, <6>2 DEF StampsFollowStore
          <5>5. QED
            BY <5>3, <5>4
        <4>4. ASSUME NEW i \in PacketIDs, NEW k \in 1..Len(audit'[i]), NEW j \in 1..(k - 1),
                     audit'[i][j].name = audit'[i][k].name
              PROVE  occurred'[i][j] < occurred'[i][k]
          <5>1. CASE i # id
            BY <4>1, <4>4, <5>1 DEF StampsFollowStore
          <5>2. CASE i = id /\ k # Len(audit[id]) + 1
            <6>1. k \in 1..Len(audit[id]) /\ j \in 1..Len(audit[id])
              BY <4>2, <4>4, <5>2
            <6>2. QED
              BY <4>2, <4>4, <5>2, <6>1 DEF StampsFollowStore
          <5>3. CASE i = id /\ k = Len(audit[id]) + 1
            <6>1. j \in 1..Len(audit[id])
              BY <4>2, <4>4, <5>3
            <6>2. audit[id][j].name = input[w].name
              BY <3>4, <4>2, <4>4, <5>3, <6>1
            <6>3. occurred[id][j] < stamp[w]
              BY <3>4, <4>0, <6>1, <6>2 DEF StampsFollowStore
            <6>4. QED
              BY <4>2, <5>3, <6>1, <6>3
          <5>4. QED
            BY <5>1, <5>2, <5>3
        <4>5. QED
          BY <3>2, <4>3, <4>4 DEF StampsFollowStore
      <3>5. QED
        BY <2>2, <3>3, <3>4, ServeStamps
    <2>3. ASSUME \/ \E id \in PacketIDs : BeginView(id) \/ BeginOutcome(id)
                 \/ ReadView \/ SaveDeploymentOutcome \/ UNCHANGED allVars
          PROVE  StampsFollowStore'
      <3>1. UNCHANGED <<input, audit, stamp, occurred>>
        BY <2>3 DEF BeginView, BeginOutcome, ReadView, SaveDeploymentOutcome, allVars, readVars,
                    vars, storeVars, workerVars
      <3>2. QED
        BY <3>1 DEF StampsFollowStore
    <2>4. QED
      BY <2>1, <2>2, <2>3 DEF ReadsNext
  <1>3. QED
    BY <1>1, <1>2, ReadsAreInvisible, TypeCorrect, SoleReporterIsFresh, StampTypeCorrect, PTL
       DEF ReadsSpec

-----------------------------------------------------------------------------
(* The view. *)

\* The entries of log in the order given by listing.
Listed(log, listing) == [k \in DOMAIN listing |-> log[listing[k]]]

(***************************************************************************)
(* A list shorter than the limit is the whole list.                        *)
(***************************************************************************)
LEMMA ShortListIsWhole ==
    ASSUME NEW s \in Seq(AuditEntry), NEW limit \in Nat \ {0}, Len(AtMost(s, limit)) < limit
    PROVE  AtMost(s, limit) = s
  <1>1. CASE Len(s) > limit
    <2>1. \A i \in 1..limit : s[i] \in AuditEntry
      BY <1>1
    <2>2. Len(SubSeq(s, 1, limit)) = limit
      BY <2>1, SubSeqProperties
    <2>3. QED
      BY <1>1, <2>2 DEF AtMost
  <1>2. CASE ~(Len(s) > limit)
    BY <1>2, SubSeqFull DEF AtMost
  <1>3. QED
    BY <1>1, <1>2

(***************************************************************************)
(* What a list of all the entries is: a sequence in which each entry has a *)
(* place.                                                                  *)
(***************************************************************************)
LEMMA ListedFacts ==
    ASSUME NEW log \in Seq(AuditEntry), NEW listing \in Bijection(DOMAIN log, DOMAIN log)
    PROVE  /\ Listed(log, listing) \in Seq(AuditEntry)
           /\ Len(Listed(log, listing)) = Len(log) /\ Len(log) \in Nat
           /\ \A p \in 1..Len(log) : /\ listing[p] \in 1..Len(log)
                                     /\ Listed(log, listing)[p] = log[listing[p]]
           /\ \A k \in 1..Len(log) : \E p \in 1..Len(log) : listing[p] = k
  <1>1. DOMAIN log = 1..Len(log) /\ Len(log) \in Nat
    OBVIOUS
  <1>2. /\ listing \in [1..Len(log) -> 1..Len(log)]
        /\ \A k \in 1..Len(log) : \E p \in 1..Len(log) : listing[p] = k
    BY <1>1 DEF Bijection, Injection, Surjection
  <1>3. Listed(log, listing) = [p \in 1..Len(log) |-> log[listing[p]]]
    BY <1>2 DEF Listed
  <1>4. \A p \in 1..Len(log) : log[listing[p]] \in AuditEntry
    BY <1>2
  <1>5. QED
    BY <1>1, <1>2, <1>3, <1>4

(***************************************************************************)
(* Every entry is listed as what it says, once the entries above it are    *)
(* left out.                                                               *)
(***************************************************************************)
LEMMA EntryIsListed ==
    ASSUME NEW log \in Seq(AuditEntry), NEW listing \in Bijection(DOMAIN log, DOMAIN log),
           NEW k \in 1..Len(log)
    PROVE  \E n \in 0..Len(Listed(log, listing)) :
                ListedAs(Listed(log, listing), n, log[k].name, log[k].to)
  <1> DEFINE list == Listed(log, listing)
  <1>1. /\ Len(list) = Len(log) /\ Len(log) \in Nat
        /\ \A p \in 1..Len(log) : list[p] = log[listing[p]]
    BY ListedFacts
  <1>2. PICK p \in 1..Len(log) : listing[p] = k
    BY ListedFacts
  <1> HIDE DEF list
  <1>3. ListedAs(list, p - 1, log[k].name, log[k].to)
    BY <1>1, <1>2 DEF ListedAs
  <1>4. p - 1 \in 0..Len(list)
    BY <1>1
  <1>5. QED
    BY <1>3, <1>4 DEF list

(***************************************************************************)
(* If the entries about name are listed newest first, the list leaves name *)
(* in the state that its newest entry ends in.                             *)
(***************************************************************************)
LEMMA NewestIsListed ==
    ASSUME NEW log \in Seq(AuditEntry), NEW listing \in Bijection(DOMAIN log, DOMAIN log),
           NEW name, NEW k \in 1..Len(log), Newest(log, Len(log), name, k),
           \A p, q \in 1..Len(log) :
                q < p /\ log[listing[p]].name = name /\ log[listing[q]].name = name
                => listing[q] > listing[p]
    PROVE  ListedAs(Listed(log, listing), 0, name, log[k].to)
  <1> DEFINE list == Listed(log, listing)
  <1>1. /\ Len(list) = Len(log) /\ Len(log) \in Nat
        /\ \A p \in 1..Len(log) : listing[p] \in 1..Len(log) /\ list[p] = log[listing[p]]
    BY ListedFacts
  <1>2. PICK p \in 1..Len(log) : listing[p] = k
    BY ListedFacts
  <1> HIDE DEF list
  <1>3. log[k].name = name /\ \A j \in 1..Len(log) : log[j].name = name => j <= k
    BY DEF Newest
  <1>4. ASSUME NEW q \in 1..(p - 1) PROVE list[q].name # name
    <2>1. q \in 1..Len(log) /\ q < p
      BY <1>1, <1>4
    <2>2. log[listing[q]].name = name => listing[q] <= k /\ listing[q] > k
      BY <1>1, <1>2, <1>3, <2>1
    <2>3. QED
      BY <1>1, <2>1, <2>2
  <1>5. list[p].name = name /\ list[p].to = log[k].to /\ p \in (0 + 1)..Len(list)
    BY <1>1, <1>2, <1>3
  <1>6. QED
    BY <1>4, <1>5 DEF ListedAs, list

(***************************************************************************)
(* If all entries are listed newest first, a point in the trail at which   *)
(* all required evidence was complete shows in the list.                   *)
(***************************************************************************)
LEMMA WitnessIsListed ==
    ASSUME NEW log \in Seq(AuditEntry), NEW listing \in Bijection(DOMAIN log, DOMAIN log),
           \A p, q \in 1..Len(log) : q < p => listing[q] > listing[p],
           NEW evidence, NEW n \in 0..Len(log), CompleteAfter(log, evidence, n)
    PROVE  \E m \in 0..Len(Listed(log, listing)) : \A requirement \in evidence :
                requirement.required =>
                    \E s \in Complete : ListedAs(Listed(log, listing), m, requirement.name, s)
  <1> DEFINE list == Listed(log, listing)
  <1>1. /\ Len(list) = Len(log) /\ Len(log) \in Nat
        /\ \A p \in 1..Len(log) : listing[p] \in 1..Len(log) /\ list[p] = log[listing[p]]
        /\ \A k \in 1..Len(log) : \E p \in 1..Len(log) : listing[p] = k
    BY ListedFacts
  <1> HIDE DEF list
  <1>2. CASE n = 0
    <2>1. \A requirement \in evidence : ~requirement.required
      BY <1>2 DEF CompleteAfter
    <2>2. 0 \in 0..Len(list)
      BY <1>1
    <2>3. QED
      BY <2>1, <2>2 DEF list
  <1>3. CASE n # 0
    <2>1. n \in 1..Len(log)
      BY <1>1, <1>3
    <2>2. PICK i \in 1..Len(log) : listing[i] = n
      BY <1>1, <2>1
    <2>3. ASSUME NEW requirement \in evidence, requirement.required
          PROVE  \E s \in Complete : ListedAs(list, i - 1, requirement.name, s)
      <3>1. PICK k \in 1..n : Newest(log, n, requirement.name, k) /\ log[k].to \in Complete
        BY <2>3 DEF CompleteAfter
      <3>2. /\ k \in 1..Len(log) /\ k <= n /\ log[k].name = requirement.name
            /\ \A j \in 1..n : log[j].name = requirement.name => j <= k
        BY <1>1, <2>1, <3>1 DEF Newest
      <3>3. PICK p \in 1..Len(log) : listing[p] = k
        BY <1>1, <3>2
      <3>4. p \in Int /\ i \in Int /\ p >= i
        <4>1. p < i => listing[p] > listing[i]
          OBVIOUS
        <4>2. k \in Int /\ n \in Int
          BY <1>1, <2>1, <3>2
        <4>3. QED
          BY <2>2, <3>2, <3>3, <4>1, <4>2
      <3>5. ASSUME NEW q \in ((i - 1) + 1)..(p - 1) PROVE list[q].name # requirement.name
        <4>1. q \in 1..Len(log) /\ q >= i /\ q < p
          BY <1>1, <3>5
        <4>2. listing[q] \in 1..Len(log) /\ list[q] = log[listing[q]]
          BY <1>1, <4>1
        <4>3. listing[q] > listing[p] /\ (i < q => listing[i] > listing[q])
          BY <4>1
        <4>4. listing[q] \in 1..n /\ listing[q] > k
          <5>1. q = i \/ i < q
            BY <3>4, <4>1
          <5>2. listing[q] = n \/ n > listing[q]
            BY <2>2, <4>3, <5>1
          <5>3. n \in Int /\ listing[q] \in Int /\ listing[q] >= 1
            BY <4>2
          <5>4. listing[q] > k
            BY <3>3, <4>3
          <5>5. QED
            BY <5>2, <5>3, <5>4
        <4>5. k \in Int /\ listing[q] \in Int
          BY <3>2, <4>2
        <4>6. QED
          BY <3>2, <4>2, <4>4, <4>5
      <3>6. p \in ((i - 1) + 1)..Len(list) /\ list[p] = log[k]
        <4>1. list[p] = log[k]
          BY <1>1, <3>3
        <4>2. QED
          BY <1>1, <3>4, <4>1
      <3>7. ListedAs(list, i - 1, requirement.name, log[k].to)
        BY <3>2, <3>5, <3>6 DEF ListedAs
      <3>8. QED
        BY <3>1, <3>7
    <2>4. i - 1 \in 0..Len(list)
      BY <1>1
    <2>5. QED
      BY <2>3, <2>4 DEF list
  <1>4. QED
    BY <1>2, <1>3

\* An approved packet that was read has a witness in the trail, and its evidence
\* is still complete if reporters of the same evidence do not overlap.
PacketOnRecord ==
    /\ view.packet \in Packet
    /\ view.packet.status = "approved" =>
        /\ \E n \in 0..Len(audit[view.id]) : CompleteAfter(audit[view.id], view.packet.evidence, n)
        /\ SoleReporter => requiredEvidenceComplete(view.packet.evidence, executions[view.id])

\* The statuses that were read are in the trail.
EvidenceOnRecord ==
    \A name \in Names : view.evidence[name] \notin {NoExecution, "pending"} =>
        \E k \in 1..Len(audit[view.id]) :
            audit[view.id][k].name = name /\ audit[view.id][k].to = view.evidence[name]

\* What has been read so far is on record, and will be when the trail is read.
ViewInv ==
    /\ view = [todo |-> view.todo, id |-> view.id, packet |-> view.packet,
               evidence |-> view.evidence, audit |-> view.audit]
    /\ \/ view.todo = <<>> /\ ViewIsExplained
       \/ /\ view.id \in PacketIDs
          /\ \/ view.todo = ReadOrder
             \/ view.todo = <<"evidence", "audit">> /\ PacketOnRecord
             \/ view.todo = <<"audit">> /\ PacketOnRecord /\ EvidenceOnRecord

(***************************************************************************)
(* The trail that is read last explains what was read before it.  With     *)
(* MemoryRepository the list has the order of the trail; otherwise it has  *)
(* the order of the trail for each piece of evidence if reporters of the   *)
(* same evidence do not overlap.                                           *)
(***************************************************************************)
LEMMA ListExplains ==
    ASSUME TypeOK, AuditExplainsStatus, StampTypeOK,
           Backend = "memory" \/ SoleReporter, SoleReporter => StampsFollowStore,
           view.id \in PacketIDs, PacketOnRecord, EvidenceOnRecord,
           NEW listing \in Listings(view.id), NEW list, list = Listed(audit[view.id], listing)
    PROVE  /\ \A name \in Names : view.evidence[name] \notin {NoExecution, "pending"} =>
                \E n \in 0..Len(list) : ListedAs(list, n, name, view.evidence[name])
           /\ view.packet.status = "approved" =>
                \E n \in 0..Len(list) : \A requirement \in view.packet.evidence :
                    requirement.required =>
                        \E s \in Complete : ListedAs(list, n, requirement.name, s)
  <1> DEFINE log == audit[view.id]
  <1>1. /\ log \in Seq(AuditEntry) /\ DOMAIN log = 1..Len(log) /\ Len(log) \in Nat
        /\ occurred[view.id] \in Seq(Nat) /\ Len(occurred[view.id]) = Len(log)
    BY DEF TypeOK, StoreTypeOK, StampTypeOK
  <1>2. /\ listing \in Bijection(DOMAIN log, DOMAIN log)
        /\ \A p, q \in 1..Len(log) : q < p =>
                IF Backend = "memory" THEN listing[q] > listing[p]
                ELSE occurred[view.id][listing[q]] > occurred[view.id][listing[p]]
    BY <1>1 DEF Listings
  <1>3. ASSUME NEW name \in Names, view.evidence[name] \notin {NoExecution, "pending"}
        PROVE  \E n \in 0..Len(list) : ListedAs(list, n, name, view.evidence[name])
    <2>1. PICK k \in 1..Len(log) : log[k].name = name /\ log[k].to = view.evidence[name]
      BY <1>3 DEF EvidenceOnRecord
    <2>2. QED
      BY <1>1, <1>2, <2>1, EntryIsListed
  <1>4. ASSUME view.packet.status = "approved", Backend = "memory"
        PROVE  \E n \in 0..Len(list) : \A requirement \in view.packet.evidence :
                    requirement.required =>
                        \E s \in Complete : ListedAs(list, n, requirement.name, s)
    <2>1. PICK n \in 0..Len(log) : CompleteAfter(log, view.packet.evidence, n)
      BY <1>4 DEF PacketOnRecord
    <2>2. \A p, q \in 1..Len(log) : q < p => listing[q] > listing[p]
      BY <1>2, <1>4
    <2>3. QED
      BY <1>1, <1>2, <2>1, <2>2, WitnessIsListed
  <1>5. ASSUME view.packet.status = "approved", Backend # "memory"
        PROVE  \E n \in 0..Len(list) : \A requirement \in view.packet.evidence :
                    requirement.required =>
                        \E s \in Complete : ListedAs(list, n, requirement.name, s)
    <2>1. SoleReporter /\ StampsFollowStore
          /\ requiredEvidenceComplete(view.packet.evidence, executions[view.id])
      BY <1>5 DEF PacketOnRecord
    <2>2. \A p \in 1..Len(log) : listing[p] \in 1..Len(log)
      BY <1>1, <1>2, ListedFacts
    <2>3. ASSUME NEW p \in 1..Len(log), NEW q \in 1..Len(log), q < p,
                 log[listing[p]].name = log[listing[q]].name
          PROVE  listing[q] > listing[p]
      <3>1. occurred[view.id][listing[q]] > occurred[view.id][listing[p]]
        BY <1>2, <1>5, <2>3
      <3>2. /\ occurred[view.id][listing[q]] \in Nat /\ occurred[view.id][listing[p]] \in Nat
            /\ listing[p] \in Nat /\ listing[q] \in Nat
        <4>1. \A k \in 1..Len(log) : occurred[view.id][k] \in Nat
          BY <1>1
        <4>2. QED
          BY <2>2, <4>1
      <3>3. listing[q] # listing[p]
        BY <3>1, <3>2
      <3>4. listing[q] < listing[p] => occurred[view.id][listing[q]] < occurred[view.id][listing[p]]
        <4>1. SUFFICES ASSUME listing[q] < listing[p]
                       PROVE  occurred[view.id][listing[q]] < occurred[view.id][listing[p]]
          OBVIOUS
        <4>2. listing[q] \in 1..(listing[p] - 1)
          BY <2>2, <4>1
        <4>3. QED
          BY <2>1, <2>2, <2>3, <4>2 DEF StampsFollowStore
      <3>5. QED
        BY <3>1, <3>2, <3>3, <3>4
    <2>4. ASSUME NEW requirement \in view.packet.evidence, requirement.required
          PROVE  \E s \in Complete : ListedAs(list, 0, requirement.name, s)
      <3>1. /\ requirement.name \in Names
            /\ executions[view.id][requirement.name] \in Complete
        BY <2>1, <2>4 DEF PacketOnRecord, Packet, EvidenceRequirement, requiredEvidenceComplete
      <3>2. executions[view.id][requirement.name] \notin {NoExecution, "pending"}
        BY <3>1 DEF Complete, NoExecution
      <3>3. PICK k \in 1..Len(log) :
                /\ Newest(log, Len(log), requirement.name, k)
                /\ executions[view.id][requirement.name] = log[k].to
        BY <3>1, <3>2 DEF AuditExplainsStatus
      <3>4. ListedAs(list, 0, requirement.name, log[k].to)
        BY <1>1, <1>2, <2>3, <3>3, NewestIsListed
      <3>5. QED
        BY <3>1, <3>3, <3>4
    <2>5. Len(list) = Len(log)
      BY <1>1, <1>2, ListedFacts
    <2>6. 0 \in 0..Len(list)
      BY <1>1, <2>5
    <2>7. QED
      BY <2>4, <2>6
  <1>6. QED
    BY <1>3, <1>4, <1>5

(***************************************************************************)
(* What a view has read stays on record while evidence updates go on.      *)
(***************************************************************************)
LEMMA RecordStays ==
    ASSUME TypeOK, SoleReporter => Fresh, [Next]_vars, UNCHANGED view, view.id \in PacketIDs
    PROVE  /\ PacketOnRecord => PacketOnRecord'
           /\ EvidenceOnRecord => EvidenceOnRecord'
  <1>0. PICK id \in PacketIDs : id = view.id
    OBVIOUS
  <1>1. ASSUME PacketOnRecord, view.packet.status = "approved"
        PROVE  /\ \E n \in 0..Len(audit'[id]) : CompleteAfter(audit'[id], view.packet.evidence, n)
               /\ SoleReporter => requiredEvidenceComplete(view.packet.evidence, executions'[id])
    <2>1. \E n \in 0..Len(audit'[id]) : CompleteAfter(audit'[id], view.packet.evidence, n)
      BY <1>0, <1>1, TrailGrows DEF PacketOnRecord
    <2>2. \A requirement \in view.packet.evidence : requirement.name \in Names
      BY <1>1 DEF PacketOnRecord, Packet, EvidenceRequirement
    <2>3. SoleReporter => requiredEvidenceComplete(view.packet.evidence, executions'[id])
      BY <1>0, <1>1, <2>2, CompletenessGrows DEF PacketOnRecord, requiredEvidenceComplete
    <2>4. QED
      BY <2>1, <2>3
  <1>2. ASSUME NEW k \in 1..Len(audit[id])
        PROVE  k \in 1..Len(audit'[id]) /\ audit'[id][k] = audit[id][k]
    <2>0. audit[id] \in Seq(AuditEntry)
      BY DEF TypeOK, StoreTypeOK
    <2>1. CASE audit'[id] = audit[id]
      BY <2>1
    <2>2. ASSUME NEW i \in PacketIDs, NEW entry \in AuditEntry, RecordEvidenceUpdate(i, entry)
          PROVE  k \in 1..Len(audit'[id]) /\ audit'[id][k] = audit[id][k]
      <3>1. cloneAuditEntry(entry) \in AuditEntry
        BY CloneFacts
      <3>2. audit'[id] = audit[id] \/ audit'[id] = Append(audit[id], cloneAuditEntry(entry))
        BY <2>2 DEF RecordEvidenceUpdate, TypeOK, StoreTypeOK
      <3>3. QED
        BY <2>0, <3>1, <3>2, AppendFacts
    <2>3. QED
      BY <2>1, <2>2, TableSteps
  <1>3. PacketOnRecord => PacketOnRecord'
    BY <1>0, <1>1 DEF PacketOnRecord
  <1>4. EvidenceOnRecord => EvidenceOnRecord'
    BY <1>0, <1>2 DEF EvidenceOnRecord
  <1>5. QED
    BY <1>3, <1>4

(***************************************************************************)
(* For every instance, whatever the number of workers and the length of    *)
(* the trail, a packet view explains itself if the repository is           *)
(* MemoryRepository or overlapping calls report different evidence.        *)
(***************************************************************************)
THEOREM ViewIsExplainedHolds ==
    ASSUME Backend = "memory" \/ SoleReporter PROVE ReadsSpec => []ViewIsExplained
  <1> DEFINE Facts == /\ TypeOK /\ DescentInv /\ AuditExplainsStatus /\ WitnessInv
                      /\ StampTypeOK
                      /\ SoleReporter => Fresh /\ BackedInv /\ StampsFollowStore
  <1>1. ReadsInit => ViewInv
    BY DEF ReadsInit, NoView, ViewInv, ViewIsExplained
  <1>2. Facts /\ ViewInv /\ [ReadsNext]_allVars => ViewInv'
    <2> SUFFICES ASSUME Facts, ViewInv, [ReadsNext]_allVars
                 PROVE  ViewInv'
      OBVIOUS
    <2>1. ASSUME UNCHANGED view, [Next]_vars PROVE ViewInv'
      <3>1. ViewIsExplained => ViewIsExplained'
        BY <2>1 DEF ViewIsExplained
      <3>2. view.id \in PacketIDs =>
                (PacketOnRecord => PacketOnRecord') /\ (EvidenceOnRecord => EvidenceOnRecord')
        BY <2>1, RecordStays
      <3>3. QED
        BY <2>1, <3>1, <3>2 DEF ViewInv
    <2>2. ASSUME NEW id \in PacketIDs, BeginView(id) PROVE ViewInv'
      BY <2>2 DEF BeginView, NoView, ViewInv
    <2>3. CASE ReadView
      <3>0. UNCHANGED <<packets, executions, audit>>
        BY <2>3 DEF ReadView, vars, storeVars
      <3>1. CASE view' = NoView
        BY <3>1 DEF NoView, ViewInv, ViewIsExplained
      <3>2. CASE view' # NoView
        <4>0. PICK id \in PacketIDs : id = view.id
          BY <2>3 DEF ReadView, ViewInv
        <4>1. PICK listed \in ListEvidenceAuditEntries(id, ListLimit) :
                view' = [view EXCEPT
                    !.todo = Tail(@),
                    !.packet = IF Head(view.todo) = "packet" THEN packets[id] ELSE @,
                    !.evidence = IF Head(view.todo) = "evidence" THEN executions[id] ELSE @,
                    !.audit = IF Head(view.todo) = "audit" THEN listed ELSE @]
          BY <2>3, <3>2, <4>0 DEF ReadView
        <4>2. packets[id] # NoPacket
          BY <2>3, <3>2, <4>0 DEF ReadView
        <4>3. view' = [todo |-> Tail(view.todo), id |-> id,
                       packet |-> IF Head(view.todo) = "packet" THEN packets[id] ELSE view.packet,
                       evidence |-> IF Head(view.todo) = "evidence" THEN executions[id]
                                    ELSE view.evidence,
                       audit |-> IF Head(view.todo) = "audit" THEN listed ELSE view.audit]
          BY <4>0, <4>1 DEF ViewInv
        <4>4. CASE view.todo = ReadOrder
          <5>1. view' = [todo |-> <<"evidence", "audit">>, id |-> id, packet |-> packets[id],
                         evidence |-> view.evidence, audit |-> view.audit]
            BY <4>3, <4>4 DEF ReadOrder
          <5>2. packets[id] \in Packet /\ Stored(id)
            BY <4>2 DEF TypeOK, StoreTypeOK, Stored
          <5>3. packets[id].status = "approved" =>
                    /\ \E n \in 0..Len(audit[id]) : CompleteAfter(audit[id], packets[id].evidence, n)
                    /\ SoleReporter => requiredEvidenceComplete(packets[id].evidence, executions[id])
            BY <5>2 DEF WitnessInv, Witnessed, BackedInv, Backed
          <5>4. PacketOnRecord'
            BY <3>0, <5>1, <5>2, <5>3 DEF PacketOnRecord
          <5>5. QED
            BY <5>1, <5>4 DEF ViewInv
        <4>5. CASE view.todo = <<"evidence", "audit">>
          <5>1. view' = [todo |-> <<"audit">>, id |-> id, packet |-> view.packet,
                         evidence |-> executions[id], audit |-> view.audit]
            BY <4>3, <4>5
          <5>2. PacketOnRecord
            BY <4>5 DEF ViewInv, ReadOrder
          <5>3. PacketOnRecord'
            BY <3>0, <4>0, <5>1, <5>2 DEF PacketOnRecord
          <5>4. \A name \in Names : executions[id][name] \notin {NoExecution, "pending"} =>
                    \E k \in 1..Len(audit[id]) :
                        audit[id][k].name = name /\ audit[id][k].to = executions[id][name]
            BY DEF AuditExplainsStatus, Newest
          <5>5. EvidenceOnRecord'
            BY <3>0, <5>1, <5>4 DEF EvidenceOnRecord
          <5>6. QED
            BY <5>1, <5>3, <5>5 DEF ViewInv
        <4>6. CASE view.todo = <<"audit">>
          <5>1. view' = [todo |-> <<>>, id |-> id, packet |-> view.packet,
                         evidence |-> view.evidence, audit |-> listed]
            BY <4>3, <4>6
          <5>2. PacketOnRecord /\ EvidenceOnRecord
            BY <4>6 DEF ViewInv, ReadOrder
          <5>3. PICK listing \in Listings(id) : listed = AtMost(Listed(audit[id], listing), ListLimit)
            BY DEF ListEvidenceAuditEntries, Listed
          <5>4. Listed(audit[id], listing) \in Seq(AuditEntry)
            <6>1. /\ audit[id] \in Seq(AuditEntry)
                  /\ listing \in Bijection(DOMAIN audit[id], DOMAIN audit[id])
              BY DEF TypeOK, StoreTypeOK, Listings
            <6>2. QED
              BY <6>1, ListedFacts
          <5>5. Len(listed) < ListLimit => listed = Listed(audit[id], listing)
            BY <5>3, <5>4, ReadConstants, ShortListIsWhole
          <5>6. Len(listed) < ListLimit =>
                /\ \A name \in Names : view.evidence[name] \notin {NoExecution, "pending"} =>
                    \E n \in 0..Len(listed) : ListedAs(listed, n, name, view.evidence[name])
                /\ view.packet.status = "approved" =>
                    \E n \in 0..Len(listed) : \A requirement \in view.packet.evidence :
                        requirement.required =>
                            \E s \in Complete : ListedAs(listed, n, requirement.name, s)
            BY <4>0, <5>2, <5>5, ListExplains
          <5>7. ViewIsExplained'
            BY <5>1, <5>6 DEF ViewIsExplained
          <5>8. QED
            BY <5>1, <5>7 DEF ViewInv
        <4>7. QED
          BY <2>3, <4>4, <4>5, <4>6 DEF ReadView, ViewInv
      <3>3. QED
        BY <3>1, <3>2
    <2>4. ASSUME \/ \E w \in Workers : Stamp(w)
                 \/ \E id \in PacketIDs : BeginOutcome(id)
                 \/ Serve \/ SaveDeploymentOutcome \/ UNCHANGED allVars
          PROVE  ViewInv'
      <3>1. UNCHANGED view /\ [Next]_vars
        BY <2>4 DEF Stamp, BeginOutcome, Serve, SaveDeploymentOutcome, allVars, readVars
      <3>2. QED
        BY <2>1, <3>1
    <2>5. QED
      BY <2>2, <2>3, <2>4 DEF ReadsNext
  <1>3. ViewInv => ViewIsExplained
    BY DEF ViewInv, ViewIsExplained, ReadOrder
  <1>4. Spec /\ ReadsSpec => []Facts
    <2>1. CASE SoleReporter
      BY <2>1, TypeCorrect, DescentCorrect, AuditExplainsStatusHolds, WitnessCorrect,
         StampTypeCorrect, SoleReporterIsFresh, SoleReporterIsBacked, StampsFollowStoreHolds, PTL
    <2>2. CASE ~SoleReporter
      BY <2>2, TypeCorrect, DescentCorrect, AuditExplainsStatusHolds, WitnessCorrect,
         StampTypeCorrect, PTL
    <2>3. QED
      BY <2>1, <2>2
  <1> HIDE DEF Facts
  <1>5. QED
    BY <1>1, <1>2, <1>3, <1>4, ReadsAreInvisible, PTL DEF ReadsSpec

=============================================================================
