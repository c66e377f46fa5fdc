-------------------------- MODULE ControlPlaneReads --------------------------
(***************************************************************************)
(* The other operations of controlplane.Service, next to evidence updates  *)
(* that go on at the same time: the packet view, read in three store       *)
(* calls, and deployment outcomes, for which the packet is read in one     *)
(* call and its lane saved with the outcome in another.                    *)
(*                                                                         *)
(* An audit entry is stamped before the transaction that stores it begins, *)
(* and PostgresRepository lists entries by that stamp, MemoryRepository by *)
(* the order in which they were stored.  Two entries never carry the same  *)
(* stamp here.                                                             *)
(***************************************************************************)
EXTENDS EvidenceService, SequencesExt

CONSTANTS
    ListLimit,      \* DefaultListLimit of the packet view
    MaxCalls        \* bound on the calls of these operations

ASSUME ReadConstants == ListLimit \in Nat \ {0} /\ MaxCalls \in Nat

VARIABLES
    stamp,          \* stamp[w]: OccurredAt of the entry w is about to record, or 0
    clock,          \* the last stamp given
    occurred,       \* occurred[id]: the stamps of audit[id], in the order stored
    view,           \* a call of Service.GetChangePacket
    outcome,        \* a call of Service.RecordDeploymentOutcome
    outcomes,       \* the stored outcomes, oldest first
    calls           \* calls of the two begun so far

readVars == <<stamp, clock, occurred, view, outcome, outcomes, calls>>
allVars == <<vars, readVars>>

-----------------------------------------------------------------------------

\* A call that is not running.
NoView == [todo |-> <<>>, id |-> "none", packet |-> NoPacket, evidence |-> <<>>, audit |-> <<>>]
NoOutcome == [on |-> FALSE, id |-> "none", lane |-> "none"]

ReadsInit ==
    /\ Init
    /\ stamp = [w \in Workers |-> 0]
    /\ clock = 0
    /\ occurred = [id \in PacketIDs |-> <<>>]
    /\ view = NoView
    /\ outcome = NoOutcome
    /\ outcomes = <<>>
    /\ calls = 0

\* time.Now() of UpdateEvidenceExecution, before RecordEvidenceUpdate.
Stamp(w) ==
    /\ pc[w] = "record" /\ stamp[w] = 0
    /\ clock' = clock + 1
    /\ stamp' = [stamp EXCEPT ![w] = clock + 1]
    /\ UNCHANGED <<vars, occurred, view, outcome, outcomes, calls>>

\* A step of the evidence service; the entry it records has been stamped.
Serve ==
    /\ Next
    /\ \A w \in Workers : pc[w] = "record" /\ pc'[w] = "reload" => stamp[w] # 0
    /\ occurred' = [id \in PacketIDs |->
            IF audit'[id] = audit[id] THEN occurred[id]
            ELSE Append(occurred[id],
                        stamp[CHOOSE w \in Workers : pc[w] = "record" /\ pc'[w] = "reload"])]
    /\ stamp' = [w \in Workers |-> IF pc'[w] = "record" THEN stamp[w] ELSE 0]
    /\ UNCHANGED <<clock, view, outcome, outcomes, calls>>

-----------------------------------------------------------------------------
(* The packet view. *)

AtMost(s, limit) == SubSeq(s, 1, IF Len(s) > limit THEN limit ELSE Len(s))

\* The orders in which the entries of id may be listed, newest first: the one
\* in which they were stored, or the one of their stamps.
Listings(id) ==
    LET entries == DOMAIN audit[id] IN
    { listing \in Bijection(entries, entries) : \A j, k \in entries : j < k =>
        IF Backend = "memory"
        THEN listing[j] > listing[k]
        ELSE occurred[id][listing[j]] > occurred[id][listing[k]] }

ListEvidenceAuditEntries(id, limit) ==
    { AtMost([k \in DOMAIN listing |-> audit[id][listing[k]]], limit) : listing \in Listings(id) }

\* Faulty: the audit trail is read before what it is to explain.
ReadOrderAuditFirst == <<"audit", "packet", "evidence">>

ReadOrder == <<"packet", "evidence", "audit">>

BeginView(id) ==
    /\ view.todo = <<>> /\ calls < MaxCalls
    /\ calls' = calls + 1
    /\ view' = [NoView EXCEPT !.todo = ReadOrder, !.id = id]
    /\ UNCHANGED <<vars, stamp, clock, occurred, outcome, outcomes>>

\* One store call.  An unknown packet, or a call that fails, ends it without
\* a view.
ReadView ==
    /\ view.todo # <<>>
    /\ \/ view' = NoView
       \/ /\ packets[view.id] # NoPacket
          /\ \E listed \in ListEvidenceAuditEntries(view.id, ListLimit) :
                view' = [view EXCEPT
                    !.todo = Tail(@),
                    !.packet = IF Head(view.todo) = "packet" THEN packets[view.id] ELSE @,
                    !.evidence = IF Head(view.todo) = "evidence" THEN executions[view.id] ELSE @,
                    !.audit = IF Head(view.todo) = "audit" THEN listed ELSE @]
    /\ UNCHANGED <<vars, stamp, clock, occurred, outcome, outcomes, calls>>

-----------------------------------------------------------------------------
(* Deployment outcomes. *)

\* The lane of the packet as it was read.
laneSnapshot(pkt) == pkt.lane

\* Validation and the read of the packet.  An unknown kind or an unknown
\* packet is refused, which changes nothing.  The kind is data: see Calibration.
BeginOutcome(id) ==
    /\ ~outcome.on /\ calls < MaxCalls
    /\ calls' = calls + 1
    /\ packets[id] # NoPacket
    /\ outcome' = [on |-> TRUE, id |-> id, lane |-> laneSnapshot(packets[id])]
    /\ UNCHANGED <<vars, stamp, clock, occurred, view, outcomes>>

\* A failed save ends the call.
SaveDeploymentOutcome ==
    /\ outcome.on
    /\ outcome' = NoOutcome
    /\ \/ outcomes' = Append(outcomes, [id |-> outcome.id, lane |-> outcome.lane])
       \/ outcomes' = outcomes
    /\ UNCHANGED <<vars, stamp, clock, occurred, view, calls>>

-----------------------------------------------------------------------------

ReadsNext ==
    \/ Serve
    \/ \E w \in Workers : Stamp(w)
    \/ \E id \in PacketIDs : BeginView(id) \/ BeginOutcome(id)
    \/ ReadView
    \/ SaveDeploymentOutcome

ReadsSpec == ReadsInit /\ [][ReadsNext]_allVars

-----------------------------------------------------------------------------

\* The list without its n newest entries leaves name in the state s.
ListedAs(list, n, name, s) ==
    \E k \in (n + 1)..Len(list) :
        /\ list[k].name = name /\ list[k].to = s
        /\ \A j \in (n + 1)..(k - 1) : list[j].name # name

(***************************************************************************)
(* A packet view explains itself although it is read in three calls while  *)
(* evidence is reported: unless its audit entries reach DefaultListLimit,  *)
(* they show how every status in it came about, and if the packet in it is *)
(* approved they show a time at which all its required evidence was        *)
(* complete.                                                               *)
(***************************************************************************)
ViewIsExplained ==
    (view.todo = <<>> /\ view.packet # NoPacket /\ Len(view.audit) < ListLimit) =>
        /\ \A name \in Names : view.evidence[name] \notin {NoExecution, "pending"} =>
               \E n \in 0..Len(view.audit) : ListedAs(view.audit, n, name, view.evidence[name])
        /\ view.packet.status = "approved" =>
               \E n \in 0..Len(view.audit) : \A requirement \in view.packet.evidence :
                   requirement.required =>
                       \E s \in Complete : ListedAs(view.audit, n, requirement.name, s)

=============================================================================
