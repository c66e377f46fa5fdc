--------------------------- MODULE EvidenceLedger ---------------------------
(***************************************************************************)
(* What the control plane promises about a Change Packet, without saying   *)
(* how requests are handled: reports are appended to a trail, and the      *)
(* packet's standing follows from it.  A conclusion may lag behind the     *)
(* trail, since it may be drawn from what an earlier part of it says, but  *)
(* an approval never comes from nowhere, and a blocked packet stays so.    *)
(***************************************************************************)
EXTENDS Naturals, Sequences

CONSTANTS PacketIDs, NoActor,
          Reports,      \* reports about evidence: [name, to, actor, ...]
          RequiredBy    \* RequiredBy[id]: the evidence without which id waits

VARIABLES trail,        \* trail[id]: the reports about id, oldest first
          standing      \* standing[id]: its decision, "unknown" before it opens

ledgerVars == <<trail, standing>>

Init ==
    /\ trail = [id \in PacketIDs |-> <<>>]
    /\ standing = [id \in PacketIDs |-> "unknown"]

\* The first n reports leave name satisfied or waived.
CompleteAt(log, n, name) ==
    \E k \in 1..n :
        /\ log[k].name = name
        /\ log[k].to \in {"satisfied", "waived"}
        /\ \A j \in 1..n : log[j].name = name => j <= k

\* At some time all the evidence that id needs was complete.
Justified(id) ==
    \E n \in 0..Len(trail[id]) : \A name \in RequiredBy[id] : CompleteAt(trail[id], n, name)

Open(id) ==
    /\ standing[id] = "unknown"
    /\ \E s \in {"pending", "escalated", "blocked", "approved"} :
        /\ s = "approved" => RequiredBy[id] = {}
        /\ standing' = [standing EXCEPT ![id] = s]
    /\ UNCHANGED trail

Report(id) ==
    /\ standing[id] # "unknown"
    /\ \E report \in Reports :
        /\ report.to = "waived" => report.actor # NoActor
        /\ trail' = [trail EXCEPT ![id] = Append(@, report)]
    /\ UNCHANGED standing

Conclude(id) ==
    /\ standing[id] \notin {"unknown", "blocked"}
    /\ \/ standing' = [standing EXCEPT ![id] = "pending"]
       \/ Justified(id) /\ standing' = [standing EXCEPT ![id] = "approved"]
    /\ UNCHANGED trail

Next == \E id \in PacketIDs : Open(id) \/ Report(id) \/ Conclude(id)

Spec == Init /\ [][Next]_ledgerVars

=============================================================================
