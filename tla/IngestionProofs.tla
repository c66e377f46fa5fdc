--------------------------- MODULE IngestionProofs ---------------------------
(***************************************************************************)
(* Proofs about Ingestion, for any pull requests, evidence, checks,        *)
(* policies and bounds, and any number of requests at a time.              *)
(***************************************************************************)
EXTENDS Ingestion, SequenceTheorems, FiniteSetTheorems, TLAPS

-----------------------------------------------------------------------------
(* Types. *)

Hook ==
    [event : {"pull_request"}, action : {"opened", "synchronize", "edited"},
     pr : PullRequests, head : Commits]
    \cup
    [event : {"check_run"}, check : Checks, conclusion : {"success", "failure", "none"},
     prs : Seq(PullRequests) \ {<<>>}, head : Commits]

Answers == {"queued", "handling", "accepted", "failed"}

\* The stages of ProcessPROpened between the packet's identifier and its save.
Enriching == {"mutations", "risk", "decide"}
Finalizing == {"violations", "lane", "save"}
Unsaved == Enriching \cup Finalizing
Opening == {"opened", "build", "check"} \cup Unsaved
Reconciling == {"find", "update"}

\* The packet under construction, as fetchPullRequest and BuildChangePacket leave it.
Fetched == [pr : PullRequests, head : Commits]
Built == [pr : PullRequests, head : Commits, diff : Commits, id : PacketIDs]

Match == [prs : Seq(PullRequests) \ {<<>>}, id : PacketIDs \cup {0},
          name : Names \cup {"none"}]

GitHubTypeOK ==
    /\ head \in 0..MaxHead
    /\ hooks \in Seq(Hook)
    /\ \A d \in DOMAIN hooks : hooks[d].head <= head
    /\ answer \in Seq(Answers) /\ Len(answer) = Len(hooks)
    /\ missed \in Seq(SUBSET PullRequests) /\ Len(missed) = Len(hooks)

StoreTypeOK ==
    /\ packets \in [PacketIDs -> Packet \cup {NoPacket}]
    /\ executions \in [PacketIDs -> [Names -> EvidenceStatus \cup {NoExecution}]]
    /\ audit \in [PacketIDs -> Seq([name : Names, from : Nat])]
    /\ published \in [Commits -> PacketIDs \cup {0}]
    /\ created \in 0..MaxPackets /\ clock \in Nat
    /\ DOMAIN events = PacketIDs

LocalTypeOK ==
    /\ pc \in [Workers -> {"idle"} \cup Opening \cup Reconciling]
    /\ delivery \in [Workers -> Nat]
    /\ packet \in [Workers -> {NoPacket} \cup Fetched \cup Built \cup Packet]
    /\ target \in [Workers -> {<<>>} \cup Match]

-----------------------------------------------------------------------------
(* The inductive invariant. *)

\* The events of a packet at each stage of ProcessPROpened.
Told(stage, violated) ==
    LET ruled == IF violated THEN Append(EventFlow, "PolicyViolationDetected") ELSE EventFlow
    IN  IF stage = "mutations" THEN <<"PROpened", "ChangePacketCreated">>
        ELSE IF stage = "risk" THEN <<"PROpened", "ChangePacketCreated", "MutationDetected">>
        ELSE IF stage \in {"decide", "violations"} THEN EventFlow
        ELSE IF stage = "lane" THEN ruled
        ELSE Append(ruled, "MergeLaneAssigned")

\* A request handles a webhook of the kind its stage is for.
HookInv(w) ==
    /\ pc[w] # "idle" => delivery[w] \in DOMAIN hooks
    /\ pc[w] \in Opening => handled(hooks[delivery[w]])
    /\ pc[w] \in Reconciling => reconciled(hooks[delivery[w]])

\* A packet under construction carries a head no newer than its diff, and its
\* events are those of its stage.
DraftInv(w) ==
    /\ pc[w] = "build" => packet[w] \in Fetched /\ packet[w].head <= head
    /\ pc[w] \in Enriching => packet[w] \in Built
    /\ pc[w] \in Finalizing \cup {"check"} => packet[w] \in Packet
    /\ pc[w] = "violations" => packet[w].violated
    /\ pc[w] \in Unsaved =>
        /\ packet[w].head <= packet[w].diff /\ packet[w].diff <= head
        /\ packet[w].id <= created /\ packets[packet[w].id] = NoPacket
        /\ events[packet[w].id] =
            Told(pc[w], pc[w] \in Finalizing /\ packet[w].violated)
    /\ pc[w] = "check" =>
        /\ packets[packet[w].id] \in Packet
        /\ packets[packet[w].id].head = packet[w].head

\* Nobody else builds the packet.
DistinctInv == \A v, w \in Workers :
    pc[v] \in Unsaved /\ pc[w] \in Unsaved /\ packet[v].id = packet[w].id => v = w

\* What the loop of ProcessCheckRun leaves behind for a pull request.
Reached(d, pr) ==
    \/ pr \in missed[d]
    \/ \E id \in PacketsFor(pr, hooks[d].head) :
        \/ \E k \in DOMAIN audit[id] : audit[id][k].from = d
        \/ ~Binds(id, hooks[d].check)

\* The loop has reached the pull requests in front of the ones it still has.
LoopInv(w) == pc[w] \in Reconciling =>
    LET prs == hooks[delivery[w]].prs IN
    /\ target[w] \in Match
    /\ \E n \in 0..Len(prs) - 1 :
        /\ Len(target[w].prs) = Len(prs) - n
        /\ \A i \in 1..Len(prs) - n : target[w].prs[i] = prs[n + i]
        /\ \A i \in 1..n : Reached(delivery[w], prs[i])

\* Policy bound the evidence of packet id to the check of hook d.
Sourced(id, name, d) ==
    /\ d \in DOMAIN hooks /\ reconciled(hooks[d])
    /\ packets[id] \in Packet
    /\ hooks[d].head = packets[id].head
    /\ Contains(hooks[d].prs, packets[id].pr)
    /\ \E requirement \in packets[id].evidence :
        requirement.name = name /\ requirement.check = hooks[d].check

\* The evidence about to be updated is bound to the check run.
MatchInv(w) == pc[w] = "update" =>
    /\ target[w].id \in PacketIDs
    /\ Sourced(target[w].id, target[w].name, delivery[w])
    /\ packets[target[w].id].pr = Head(target[w].prs)

\* A stored packet describes a commit that is no newer than the branch's head,
\* and has been announced; one that is not stored has no history.
PacketInv(id) ==
    /\ packets[id] # NoPacket =>
        /\ id <= created
        /\ packets[id].head <= packets[id].diff /\ packets[id].diff <= head
        /\ events[id] = Told("done", packets[id].violated)
    /\ \A k \in DOMAIN audit[id] : Sourced(id, audit[id][k].name, audit[id][k].from)

PublishedInv == \A h \in Commits : published[h] # 0 =>
    packets[published[h]] \in Packet /\ packets[published[h]].head = h

AcceptedInv == \A d \in DOMAIN hooks : reconciled(hooks[d]) /\ answer[d] = "accepted" =>
    \A i \in DOMAIN hooks[d].prs : Reached(d, hooks[d].prs[i])

IngestInv ==
    /\ GitHubTypeOK /\ StoreTypeOK /\ LocalTypeOK
    /\ \A w \in Workers : HookInv(w) /\ DraftInv(w) /\ LoopInv(w) /\ MatchInv(w)
    /\ \A id \in PacketIDs : PacketInv(id)
    /\ DistinctInv /\ PublishedInv /\ AcceptedInv

-----------------------------------------------------------------------------
(* Constants and sequences. *)

LEMMA Bounds ==
    /\ Cardinality(PullRequests) \in Nat /\ MaxHead \in Nat
    /\ MaxPackets \in Nat /\ NoPacket \notin Packet
  BY IngestionConstants, FS_CardinalityType DEF MaxPackets

(***************************************************************************)
(* The pull requests of a check run and the webhooks of a push are listed  *)
(* in some order, each of them once.                                       *)
(***************************************************************************)
LEMMA SetToSeqFacts ==
    ASSUME NEW S, IsFiniteSet(S), S # {}
    PROVE  SetToSeq(S) \in Seq(S) /\ SetToSeq(S) # <<>>
  <1>1. Cardinality(S) \in Nat /\ ExistsBijection(1..Cardinality(S), S)
    BY FS_CardinalityType
  <1>2. PICK f \in [1..Cardinality(S) -> S] : IsInjective(f)
    BY <1>1 DEF ExistsBijection, Bijection, Injection, IsInjective
  <1>3. SetToSeq(S) \in [1..Cardinality(S) -> S]
    BY <1>2 DEF SetToSeq
  <1>4. Cardinality(S) # 0
    BY FS_EmptySet
  <1>5. QED
    BY <1>1, <1>3, <1>4

(***************************************************************************)
(* The events of a packet, stage by stage.                                 *)
(***************************************************************************)
LEMMA ToldFacts ==
    ASSUME NEW violated \in BOOLEAN
    PROVE  /\ \A q \in {TRUE, FALSE} :
              /\ Told("mutations", q) = <<"PROpened", "ChangePacketCreated">>
              /\ Told("risk", q) = Append(Told("mutations", q), "MutationDetected")
              /\ Told("decide", q) = Append(Told("risk", q), "RiskAssigned")
           /\ Told("violations", violated) = EventFlow
           /\ Told("decide", FALSE) = EventFlow
           /\ Told("lane", FALSE) = EventFlow
           /\ Told("lane", TRUE) = Append(EventFlow, "PolicyViolationDetected")
           /\ Told("save", violated) = Append(Told("lane", violated), "MergeLaneAssigned")
           /\ Told("done", violated) = Told("save", violated)
  BY DEF Told, EventFlow

LEMMA AnnouncedFacts ==
    ASSUME NEW violated \in BOOLEAN
    PROVE  LET told == Told("done", violated) IN
           /\ IsPrefix(EventFlow, told)
           /\ Last(told) = "MergeLaneAssigned"
           /\ violated <=> Contains(told, "PolicyViolationDetected")
  BY DEF Told, EventFlow, IsPrefix, Last, Contains

-----------------------------------------------------------------------------
(* What no step takes back. *)

\* History only grows, and a stored packet keeps what it says of its commit.
Later ==
    /\ head <= head' /\ created <= created'
    /\ DOMAIN hooks \subseteq DOMAIN hooks'
    /\ \A d \in DOMAIN hooks : hooks'[d] = hooks[d] /\ missed[d] \subseteq missed'[d]
    /\ \A id \in PacketIDs :
        /\ packets[id] \in Packet =>
            /\ packets'[id] \in Packet
            /\ packets'[id].pr = packets[id].pr /\ packets'[id].head = packets[id].head
            /\ packets'[id].diff = packets[id].diff
            /\ packets'[id].violated = packets[id].violated
            /\ packets'[id].evidence = packets[id].evidence
        /\ DOMAIN audit[id] \subseteq DOMAIN audit'[id]
        /\ \A k \in DOMAIN audit[id] : audit'[id][k] = audit[id][k]

\* A step of another request.
Bystander(v) ==
    /\ pc'[v] = pc[v] /\ delivery'[v] = delivery[v]
    /\ packet'[v] = packet[v] /\ target'[v] = target[v]

LEMMA StoredIsPacket ==
    ASSUME StoreTypeOK
    PROVE  /\ Stored = {id \in PacketIDs : packets[id] \in Packet}
           /\ \A id \in PacketIDs : packets[id] # NoPacket <=> packets[id] \in Packet
  BY Bounds DEF StoreTypeOK, Stored

LEMMA SourcedPersists ==
    ASSUME Later, NEW id \in PacketIDs, NEW name, NEW d, Sourced(id, name, d)
    PROVE  Sourced(id, name, d)'
  <1>1. /\ d \in DOMAIN hooks' /\ hooks'[d] = hooks[d]
        /\ packets'[id] \in Packet
        /\ packets'[id].pr = packets[id].pr /\ packets'[id].head = packets[id].head
        /\ packets'[id].evidence = packets[id].evidence
    BY DEF Later, Sourced
  <1>2. QED
    BY <1>1 DEF Sourced, reconciled

LEMMA ReachedPersists ==
    ASSUME StoreTypeOK, StoreTypeOK', Later, NEW d \in DOMAIN hooks, NEW pr, Reached(d, pr)
    PROVE  Reached(d, pr)'
  <1>1. hooks'[d] = hooks[d] /\ missed[d] \subseteq missed'[d]
    BY DEF Later
  <1>2. CASE pr \in missed[d]
    BY <1>1, <1>2 DEF Reached
  <1>3. ASSUME NEW id \in PacketsFor(pr, hooks[d].head),
               \/ \E k \in DOMAIN audit[id] : audit[id][k].from = d
               \/ ~Binds(id, hooks[d].check)
        PROVE  Reached(d, pr)'
    <2>1. id \in PacketIDs /\ packets[id] \in Packet
          /\ packets[id].pr = pr /\ packets[id].head = hooks[d].head
      BY <1>3, StoredIsPacket DEF PacketsFor
    <2>2. /\ packets'[id] \in Packet
          /\ packets'[id].pr = packets[id].pr /\ packets'[id].head = packets[id].head
          /\ packets'[id].evidence = packets[id].evidence
          /\ \A k \in DOMAIN audit[id] : k \in DOMAIN audit'[id] /\ audit'[id][k] = audit[id][k]
      BY <2>1 DEF Later
    <2>3. packets'[id] # NoPacket
      BY <2>2, Bounds
    <2>4. (id \in PacketsFor(pr, hooks[d].head))'
      BY <1>1, <2>1, <2>2, <2>3 DEF PacketsFor, Stored
    <2>5. CASE \E k \in DOMAIN audit[id] : audit[id][k].from = d
      BY <2>2, <2>4, <2>5 DEF Reached
    <2>6. CASE ~Binds(id, hooks[d].check)
      <3>1. (~Binds(id, hooks[d].check))'
        BY <1>1, <2>2, <2>6 DEF Binds, matchingEvidenceRequirement, Bound
      <3>2. QED
        BY <2>4, <3>1 DEF Reached
    <2>7. QED
      BY <1>3, <2>5, <2>6
  <1>4. QED
    BY <1>2, <1>3 DEF Reached

(***************************************************************************)
(* What a request has established for itself outlives the steps of others, *)
(* provided they leave the packet it builds alone.                         *)
(***************************************************************************)
LEMMA BystanderKeeps ==
    ASSUME IngestInv, GitHubTypeOK', StoreTypeOK', Later, NEW v \in Workers, Bystander(v),
           pc[v] \in Unsaved => /\ packets'[packet[v].id] = packets[packet[v].id]
                                /\ events'[packet[v].id] = events[packet[v].id]
    PROVE  (HookInv(v) /\ DraftInv(v) /\ LoopInv(v) /\ MatchInv(v))'
  <1>1. HookInv(v) /\ DraftInv(v) /\ LoopInv(v) /\ MatchInv(v)
        /\ GitHubTypeOK /\ StoreTypeOK /\ LocalTypeOK
    BY DEF IngestInv
  <1>2. pc[v] # "idle" =>
          /\ delivery[v] \in DOMAIN hooks /\ delivery[v] \in DOMAIN hooks'
          /\ hooks'[delivery[v]] = hooks[delivery[v]]
    BY <1>1 DEF HookInv, Later
  <1>3. HookInv(v)'
    BY <1>1, <1>2 DEF HookInv, Bystander, Opening, Reconciling, handled, reconciled, Unsaved,
          Enriching, Finalizing
  <1>4. DraftInv(v)'
    <2>1. ASSUME pc[v] = "check"
          PROVE  /\ packets'[packet[v].id] \in Packet
                 /\ packets'[packet[v].id].head = packet[v].head
      <3>1. packet[v].id \in PacketIDs /\ packets[packet[v].id] \in Packet
            /\ packets[packet[v].id].head = packet[v].head
        BY <1>1, <2>1 DEF DraftInv, Packet
      <3>2. QED
        BY <3>1 DEF Later
    <2>2. ASSUME pc[v] \in Unsaved
          PROVE  packet[v].diff <= head' /\ packet[v].id <= created'
      <3>1. packet[v] \in Built \cup Packet
        BY <1>1, <2>2 DEF DraftInv, Unsaved
      <3>2. packet[v].diff \in Nat /\ packet[v].id \in Nat
        BY <3>1, Bounds DEF Built, Packet, Commits, PacketIDs
      <3>3. head \in Int /\ head' \in Int /\ created \in Int /\ created' \in Int
        BY <1>1, Bounds DEF GitHubTypeOK, StoreTypeOK
      <3>4. QED
        BY <1>1, <2>2, <3>2, <3>3 DEF DraftInv, Later
    <2>3. ASSUME pc[v] = "build" PROVE packet[v].head <= head'
      <3>1. packet[v].head \in Nat /\ packet[v].head <= head
        BY <1>1, <2>3, Bounds DEF DraftInv, Fetched, Commits
      <3>2. head \in Int /\ head' \in Int /\ head <= head'
        BY <1>1 DEF GitHubTypeOK, Later
      <3>3. QED
        BY <3>1, <3>2
    <2>4. QED
      BY <1>1, <2>1, <2>2, <2>3 DEF DraftInv, Bystander
  <1>5. LoopInv(v)'
    <2> SUFFICES ASSUME pc[v] \in Reconciling
                 PROVE  LoopInv(v)'
      BY DEF LoopInv, Bystander
    <2>1. PICK d \in DOMAIN hooks : d = delivery[v] /\ hooks'[d] = hooks[d]
      BY <1>2 DEF Reconciling
    <2>2. PICK prs : prs = hooks[d].prs
      OBVIOUS
    <2>3. PICK n \in 0..Len(prs) - 1 :
            /\ Len(target[v].prs) = Len(prs) - n
            /\ \A i \in 1..Len(prs) - n : target[v].prs[i] = prs[n + i]
            /\ \A i \in 1..n : Reached(d, prs[i])
      BY <1>1, <2>1, <2>2 DEF LoopInv
    <2>4. \A i \in 1..n : Reached(d, prs[i])'
      BY <1>1, <2>3, ReachedPersists
    <2>5. delivery'[v] = d /\ target'[v] = target[v] /\ hooks'[d].prs = prs
          /\ target[v] \in Match
      BY <1>1, <2>1, <2>2 DEF Bystander, LoopInv
    <2>6. QED
      BY <2>3, <2>4, <2>5 DEF LoopInv
  <1>6. MatchInv(v)'
    <2> SUFFICES ASSUME pc[v] = "update"
                 PROVE  MatchInv(v)'
      BY DEF MatchInv, Bystander
    <2>1. /\ target[v].id \in PacketIDs /\ Sourced(target[v].id, target[v].name, delivery[v])
          /\ packets[target[v].id].pr = Head(target[v].prs)
      BY <1>1 DEF MatchInv
    <2>2. Sourced(target[v].id, target[v].name, delivery[v])'
      BY <2>1, SourcedPersists DEF Bystander
    <2>3. packets'[target[v].id].pr = packets[target[v].id].pr
      BY <2>1 DEF Sourced, Later
    <2>4. QED
      BY <2>1, <2>2, <2>3 DEF MatchInv, Bystander
  <1>7. QED
    BY <1>3, <1>4, <1>5, <1>6

LEMMA PacketKeeps ==
    ASSUME IngestInv, GitHubTypeOK', StoreTypeOK', Later, NEW id \in PacketIDs,
           packets'[id] # NoPacket => packets[id] # NoPacket /\ events'[id] = events[id],
           audit'[id] = audit[id]
    PROVE  PacketInv(id)'
  <1>1. PacketInv(id) /\ StoreTypeOK /\ GitHubTypeOK
    BY DEF IngestInv
  <1>2. \A k \in DOMAIN audit[id] : Sourced(id, audit[id][k].name, audit[id][k].from)'
    <2> SUFFICES ASSUME NEW k \in DOMAIN audit[id]
                 PROVE  Sourced(id, audit[id][k].name, audit[id][k].from)'
      OBVIOUS
    <2>1. PICK name, d : name = audit[id][k].name /\ d = audit[id][k].from
      OBVIOUS
    <2>2. Sourced(id, name, d)'
      BY <1>1, <2>1, SourcedPersists DEF PacketInv
    <2>3. QED
      BY <2>1, <2>2
  <1>3. ASSUME packets'[id] # NoPacket
        PROVE  /\ id <= created'
               /\ packets'[id].head <= packets'[id].diff /\ packets'[id].diff <= head'
               /\ events'[id] = Told("done", packets'[id].violated)
    <2>1. packets[id] \in Packet
      BY <1>1, <1>3, StoredIsPacket
    <2>2. /\ packets'[id].head = packets[id].head /\ packets'[id].diff = packets[id].diff
          /\ packets'[id].violated = packets[id].violated
          /\ head <= head' /\ created <= created'
      BY <2>1 DEF Later
    <2>3. /\ id \in Int /\ packets[id].diff \in Int
          /\ head \in Int /\ head' \in Int /\ created \in Int /\ created' \in Int
      BY <1>1, <2>1, Bounds DEF PacketIDs, Packet, Commits, GitHubTypeOK, StoreTypeOK
    <2>4. QED
      BY <1>1, <1>3, <2>2, <2>3 DEF PacketInv
  <1>4. QED
    BY <1>2, <1>3 DEF PacketInv

LEMMA PublishedKeeps ==
    ASSUME IngestInv, Later, published' = published
    PROVE  PublishedInv'
  <1>1. \A h \in Commits : published[h] # 0 =>
            /\ published[h] \in PacketIDs
            /\ packets[published[h]] \in Packet /\ packets[published[h]].head = h
    BY DEF IngestInv, PublishedInv, StoreTypeOK
  <1>2. QED
    BY <1>1 DEF PublishedInv, Later

LEMMA AcceptedKeeps ==
    ASSUME IngestInv, StoreTypeOK', Later,
           \A d \in DOMAIN hooks' : reconciled(hooks'[d]) /\ answer'[d] = "accepted" =>
                /\ d \in DOMAIN hooks
                /\ \/ answer[d] = "accepted"
                   \/ \A i \in DOMAIN hooks[d].prs : Reached(d, hooks[d].prs[i])'
    PROVE  AcceptedInv'
  <1> SUFFICES ASSUME NEW d \in DOMAIN hooks', reconciled(hooks'[d]), answer'[d] = "accepted",
                      NEW i \in DOMAIN hooks'[d].prs
               PROVE  Reached(d, hooks[d].prs[i])'
    BY DEF AcceptedInv, reconciled
  <1>1. d \in DOMAIN hooks /\ hooks'[d] = hooks[d] /\ StoreTypeOK
    BY DEF Later, IngestInv
  <1>2. CASE answer[d] = "accepted"
    <2>1. PICK pr : pr = hooks[d].prs[i] /\ Reached(d, pr)
      BY <1>1, <1>2 DEF IngestInv, AcceptedInv
    <2>2. Reached(d, pr)'
      BY <1>1, <2>1, ReachedPersists
    <2>3. QED
      BY <1>1, <2>1, <2>2
  <1>3. QED
    BY <1>1, <1>2

-----------------------------------------------------------------------------
(* The steps of GitHub. *)

(***************************************************************************)
(* New webhooks disturb nothing that the service has done.                 *)
(***************************************************************************)
LEMMA SendStep ==
    ASSUME IngestInv, NEW new \in Seq(Hook), Send(new),
           head' \in 0..MaxHead, head <= head',
           \A i \in DOMAIN new : new[i].head <= head',
           UNCHANGED <<storeVars, events, created, clock, localVars>>
    PROVE  IngestInv'
  <1> USE DEF storeVars, localVars
  <1>1. GitHubTypeOK /\ StoreTypeOK /\ LocalTypeOK /\ DistinctInv
    BY DEF IngestInv
  <1>2. /\ \E e \in Seq(Answers) :
            answer' = answer \o e /\ Len(e) = Len(new) /\ \A i \in DOMAIN e : e[i] = "queued"
        /\ \E e \in Seq(SUBSET PullRequests) :
            missed' = missed \o e /\ Len(e) = Len(new) /\ \A i \in DOMAIN e : e[i] = {}
    <2> DEFINE queued == [i \in 1..Len(new) |-> "queued"]
               unmissed == [i \in 1..Len(new) |-> {}]
    <2>1. queued \in Seq(Answers) /\ Len(queued) = Len(new) /\ DOMAIN queued = 1..Len(new)
      BY DEF Answers
    <2>2. /\ unmissed \in Seq(SUBSET PullRequests) /\ Len(unmissed) = Len(new)
          /\ DOMAIN unmissed = 1..Len(new)
      OBVIOUS
    <2>3. answer' = answer \o queued /\ missed' = missed \o unmissed
      BY DEF Send
    <2>4. /\ \A i \in DOMAIN queued : queued[i] = "queued"
          /\ \A i \in DOMAIN unmissed : unmissed[i] = {}
      OBVIOUS
    <2> HIDE DEF queued, unmissed
    <2>5. QED
      BY <2>1, <2>2, <2>3, <2>4
  <1>3. /\ hooks' \in Seq(Hook) /\ Len(hooks') = Len(hooks) + Len(new)
        /\ DOMAIN hooks \subseteq DOMAIN hooks'
        /\ \A d \in DOMAIN hooks : hooks'[d] = hooks[d]
        /\ \A d \in DOMAIN hooks' : d \in DOMAIN hooks \/
                (d - Len(hooks) \in DOMAIN new /\ hooks'[d] = new[d - Len(hooks)])
    <2>1. hooks \in Seq(Hook) /\ hooks' = hooks \o new
      BY <1>1 DEF GitHubTypeOK, Send
    <2>2. QED
      BY <2>1
  <1>4. /\ answer' \in Seq(Answers) /\ Len(answer') = Len(hooks')
        /\ \A d \in DOMAIN hooks : answer'[d] = answer[d]
        /\ \A d \in DOMAIN hooks' : d \in DOMAIN hooks \/ answer'[d] = "queued"
    <2>1. /\ answer' \in Seq(Answers) /\ Len(answer') = Len(answer) + Len(new)
          /\ \A d \in DOMAIN answer : answer'[d] = answer[d]
          /\ \A d \in DOMAIN answer' : d \in DOMAIN answer \/ answer'[d] = "queued"
      <3>1. PICK e \in Seq(Answers) :
              answer' = answer \o e /\ Len(e) = Len(new) /\ \A i \in DOMAIN e : e[i] = "queued"
        BY <1>2
      <3>2. /\ answer \in Seq(Answers)
            /\ Len(answer) \in Nat /\ DOMAIN answer = 1..Len(answer)
            /\ Len(e) \in Nat /\ DOMAIN e = 1..Len(e)
        BY <1>1 DEF GitHubTypeOK
      <3>3. PICK t : t = answer \o e
        OBVIOUS
      <3>4. /\ t \in Seq(Answers) /\ Len(t) = Len(answer) + Len(e)
            /\ DOMAIN t = 1..Len(answer) + Len(e)
            /\ \A d \in 1..Len(answer) + Len(e) :
                t[d] = IF d <= Len(answer) THEN answer[d] ELSE e[d - Len(answer)]
        BY <3>2, <3>3
      <3>5. QED
        BY <3>1, <3>2, <3>3, <3>4
    <2>2. DOMAIN answer = DOMAIN hooks /\ DOMAIN answer' = DOMAIN hooks'
      BY <1>1, <1>3, <2>1 DEF GitHubTypeOK
    <2>3. QED
      BY <1>1, <1>3, <2>1, <2>2 DEF GitHubTypeOK
  <1>5. /\ missed' \in Seq(SUBSET PullRequests) /\ Len(missed') = Len(hooks')
        /\ \A d \in DOMAIN hooks : missed'[d] = missed[d]
    <2>1. /\ missed' \in Seq(SUBSET PullRequests) /\ Len(missed') = Len(missed) + Len(new)
          /\ \A d \in DOMAIN missed : missed'[d] = missed[d]
      <3>1. PICK e \in Seq(SUBSET PullRequests) :
              missed' = missed \o e /\ Len(e) = Len(new) /\ \A i \in DOMAIN e : e[i] = {}
        BY <1>2
      <3>2. /\ missed \in Seq(SUBSET PullRequests)
            /\ Len(missed) \in Nat /\ DOMAIN missed = 1..Len(missed)
            /\ Len(e) \in Nat /\ DOMAIN e = 1..Len(e)
        BY <1>1 DEF GitHubTypeOK
      <3>3. PICK t : t = missed \o e
        OBVIOUS
      <3>4. /\ t \in Seq(SUBSET PullRequests) /\ Len(t) = Len(missed) + Len(e)
            /\ DOMAIN t = 1..Len(missed) + Len(e)
            /\ \A d \in 1..Len(missed) + Len(e) :
                t[d] = IF d <= Len(missed) THEN missed[d] ELSE e[d - Len(missed)]
        BY <3>2, <3>3
      <3>5. QED
        BY <3>1, <3>2, <3>3, <3>4
    <2>2. QED
      BY <1>1, <1>3, <2>1 DEF GitHubTypeOK
  <1>6. GitHubTypeOK'
    <2>1. ASSUME NEW d \in DOMAIN hooks' PROVE hooks'[d].head <= head'
      <3>1. CASE d \in DOMAIN hooks
        <4>1. hooks[d] \in Hook /\ hooks[d].head <= head
          BY <1>1, <3>1 DEF GitHubTypeOK
        <4>2. hooks[d].head \in Int /\ head \in Int /\ head' \in Int
          BY <1>1, <4>1, Bounds DEF Hook, Commits, GitHubTypeOK
        <4>3. QED
          BY <1>3, <3>1, <4>1, <4>2
      <3>2. QED
        BY <1>3, <3>1
    <2>2. QED
      BY <1>3, <1>4, <1>5, <2>1 DEF GitHubTypeOK
  <1>7. StoreTypeOK' /\ LocalTypeOK' /\ DistinctInv'
    BY <1>1 DEF StoreTypeOK, LocalTypeOK, DistinctInv
  <1>8. Later
    BY <1>1, <1>3, <1>5, Bounds DEF Later, StoreTypeOK
  <1>9. \A v \in Workers : (HookInv(v) /\ DraftInv(v) /\ LoopInv(v) /\ MatchInv(v))'
    BY <1>6, <1>7, <1>8, BystanderKeeps DEF Bystander
  <1>10. \A id \in PacketIDs : PacketInv(id)'
    BY <1>6, <1>7, <1>8, PacketKeeps
  <1>11. PublishedInv' /\ AcceptedInv'
    BY <1>4, <1>7, <1>8, PublishedKeeps, AcceptedKeeps
  <1>12. QED
    BY <1>6, <1>7, <1>9, <1>10, <1>11 DEF IngestInv

LEMMA PushStep == ASSUME IngestInv, Push PROVE IngestInv'
  <1> DEFINE action == IF head = 0 THEN "opened" ELSE "synchronize"
             h == head + 1
             S == {PullRequestHook(pr, action, h) : pr \in PullRequests}
  <1>1. head \in 0..MaxHead /\ h \in Commits /\ head' = h /\ head' \in 0..MaxHead
    BY Bounds DEF Push, IngestInv, GitHubTypeOK, Commits
  <1>2. IsFiniteSet(S) /\ S # {}
    <2>1. PullRequests # {} /\ IsFiniteSet(PullRequests)
      BY IngestionConstants
    <2>2. [pr \in PullRequests |-> PullRequestHook(pr, action, h)] \in Surjection(PullRequests, S)
      BY DEF Surjection
    <2>3. IsFiniteSet(S)
      BY <2>1, <2>2, FS_Surjection
    <2>4. QED
      BY <2>1, <2>3
  <1>3. S \subseteq Hook /\ \A hook \in S : hook.head = h
    BY <1>1 DEF PullRequestHook, Hook
  <1>4. SetToSeq(S) \in Seq(S)
    BY <1>2, SetToSeqFacts
  <1>5. SetToSeq(S) \in Seq(Hook) /\ \A i \in DOMAIN SetToSeq(S) : SetToSeq(S)[i].head <= head'
    <2>1. PICK sent : sent = SetToSeq(S) /\ sent \in Seq(S)
      BY <1>4
    <2> HIDE DEF S
    <2>2. \A i \in DOMAIN sent : sent[i] \in Hook /\ sent[i].head = h
      BY <1>3, <2>1
    <2>3. sent \in Seq(Hook)
      BY <2>1, <2>2
    <2>4. h <= head'
      BY <1>1
    <2>5. QED
      BY <2>1, <2>2, <2>3, <2>4
  <1>6. Send(SetToSeq(S)) /\ UNCHANGED <<storeVars, events, created, clock, localVars>>
    BY DEF Push
  <1>7. QED
    BY <1>1, <1>5, <1>6, SendStep

LEMMA SendOneStep ==
    ASSUME IngestInv, NEW hook \in Hook, hook.head <= head, Send(<<hook>>),
           UNCHANGED <<head, storeVars, events, created, clock, localVars>>
    PROVE  IngestInv'
  <1>1. head' \in 0..MaxHead /\ head <= head'
    BY Bounds DEF IngestInv, GitHubTypeOK
  <1>2. <<hook>> \in Seq(Hook) /\ \A i \in DOMAIN <<hook>> : <<hook>>[i].head <= head'
    OBVIOUS
  <1>3. QED
    BY <1>1, <1>2, SendStep

LEMMA CompleteCheckStep ==
    ASSUME IngestInv, NEW check \in Checks, NEW result \in {"success", "failure"},
           NEW h \in Commits, CompleteCheck(check, result, h)
    PROVE  IngestInv'
  <1>1. SetToSeq(PullRequests) \in Seq(PullRequests) \ {<<>>}
    BY SetToSeqFacts, IngestionConstants
  <1>2. CheckRunHook(check, result, SetToSeq(PullRequests), h) \in Hook
    BY <1>1 DEF CheckRunHook, Hook
  <1>3. h <= head
    BY DEF CompleteCheck, IngestInv, GitHubTypeOK
  <1>4. QED
    BY <1>2, <1>3, SendOneStep DEF CompleteCheck, CheckRunHook

LEMMA NotifyStep ==
    ASSUME IngestInv, \/ \E pr \in PullRequests : Notify(PullRequestHook(pr, "edited", head))
                      \/ \E check \in Checks :
                            Notify(CheckRunHook(check, "none", SetToSeq(PullRequests), head))
    PROVE  IngestInv'
  <1>1. SetToSeq(PullRequests) \in Seq(PullRequests) \ {<<>>}
    BY SetToSeqFacts, IngestionConstants
  <1>2. head \in Nat /\ (head > 0 => head \in Commits)
    BY Bounds DEF IngestInv, GitHubTypeOK, Commits
  <1>3. PICK hook : Notify(hook) /\ (head > 0 => hook \in Hook /\ hook.head <= head)
    <2>1. ASSUME NEW pr \in PullRequests, head > 0
          PROVE  LET hook == PullRequestHook(pr, "edited", head) IN
                 hook \in Hook /\ hook.head <= head
      BY <1>2, <2>1 DEF PullRequestHook, Hook
    <2>2. ASSUME NEW check \in Checks, head > 0
          PROVE  LET hook == CheckRunHook(check, "none", SetToSeq(PullRequests), head) IN
                 hook \in Hook /\ hook.head <= head
      BY <1>1, <1>2, <2>2 DEF CheckRunHook, Hook
    <2>3. QED
      BY <2>1, <2>2
  <1>4. QED
    BY <1>3, SendOneStep DEF Notify

-----------------------------------------------------------------------------
(* The handler's frame. *)

\* A step of one request that stores nothing and publishes no event.
Private(w) ==
    /\ UNCHANGED <<head, hooks, storeVars, events, created, missed>> /\ clock' \in Nat
    /\ \A v \in Workers \ {w} : Bystander(v)

(***************************************************************************)
(* A step that only answers a webhook or takes one up.                     *)
(***************************************************************************)
LEMMA PrivateStep ==
    ASSUME IngestInv, NEW w \in Workers, Private(w), LocalTypeOK',
           answer' \in Seq(Answers), Len(answer') = Len(answer),
           (HookInv(w) /\ DraftInv(w) /\ LoopInv(w) /\ MatchInv(w))',
           pc'[w] \in Unsaved => pc[w] \in Unsaved /\ packet'[w].id = packet[w].id,
           \A d \in DOMAIN hooks : reconciled(hooks[d]) /\ answer'[d] = "accepted" =>
                \/ answer[d] = "accepted"
                \/ \A i \in DOMAIN hooks[d].prs : Reached(d, hooks[d].prs[i])'
    PROVE  IngestInv'
  <1> USE DEF Private, storeVars
  <1>1. GitHubTypeOK /\ StoreTypeOK /\ LocalTypeOK /\ DistinctInv
    BY DEF IngestInv
  <1>2. GitHubTypeOK' /\ StoreTypeOK'
    BY <1>1 DEF GitHubTypeOK, StoreTypeOK
  <1>3. Later
    BY <1>1, Bounds DEF Later, StoreTypeOK, GitHubTypeOK
  <1>4. \A v \in Workers : (HookInv(v) /\ DraftInv(v) /\ LoopInv(v) /\ MatchInv(v))'
    BY <1>2, <1>3, BystanderKeeps
  <1>5. DistinctInv'
    BY <1>1 DEF DistinctInv, Bystander
  <1>6. \A id \in PacketIDs : PacketInv(id)'
    BY <1>2, <1>3, PacketKeeps
  <1>7. PublishedInv' /\ AcceptedInv'
    BY <1>2, <1>3, PublishedKeeps, AcceptedKeeps
  <1>8. QED
    BY <1>2, <1>4, <1>5, <1>6, <1>7 DEF IngestInv

LEMMA IdleIsFine ==
    ASSUME NEW w \in Workers, pc'[w] = "idle"
    PROVE  (HookInv(w) /\ DraftInv(w) /\ LoopInv(w) /\ MatchInv(w))'
  BY DEF HookInv, DraftInv, LoopInv, MatchInv, Opening, Reconciling, Unsaved, Enriching, Finalizing

(***************************************************************************)
(* Redelivery and an answer at once concern no request.                    *)
(***************************************************************************)
LEMMA RequeueStep ==
    ASSUME IngestInv, NEW d \in Deliveries, Redeliver(d) \/ Duplicate(d) \/ Ignore(d)
    PROVE  IngestInv'
  <1>1. GitHubTypeOK /\ StoreTypeOK /\ LocalTypeOK /\ DistinctInv
    BY DEF IngestInv
  <1>2. /\ UNCHANGED <<head, hooks, storeVars, events, created, clock, localVars, missed>>
        /\ \/ answer' = [answer EXCEPT ![d] = "queued"]
           \/ answer' = [answer EXCEPT ![d] = "accepted"] /\ ~reconciled(hooks[d])
    BY DEF Redeliver, Duplicate, Ignore, Ignored
  <1> USE DEF storeVars, localVars
  <1>3. answer' \in Seq(Answers) /\ Len(answer') = Len(answer)
    <2>1. answer \in Seq(Answers) /\ d \in 1..Len(answer)
          /\ {"queued", "accepted"} \subseteq Answers
      BY <1>1 DEF GitHubTypeOK, Deliveries, Answers
    <2>2. QED
      BY <1>2, <2>1
  <1>4. GitHubTypeOK' /\ StoreTypeOK' /\ LocalTypeOK' /\ DistinctInv'
    BY <1>1, <1>2, <1>3 DEF GitHubTypeOK, StoreTypeOK, LocalTypeOK, DistinctInv
  <1>5. Later
    BY <1>1, <1>2, Bounds DEF Later, StoreTypeOK, GitHubTypeOK
  <1>6. \A v \in Workers : (HookInv(v) /\ DraftInv(v) /\ LoopInv(v) /\ MatchInv(v))'
    BY <1>2, <1>4, <1>5, BystanderKeeps DEF Bystander
  <1>7. \A id \in PacketIDs : PacketInv(id)'
    BY <1>2, <1>4, <1>5, PacketKeeps
  <1>8. \A e \in DOMAIN hooks : reconciled(hooks[e]) /\ answer'[e] = "accepted"
                => answer[e] = "accepted"
    BY <1>1, <1>2 DEF GitHubTypeOK
  <1>9. PublishedInv' /\ AcceptedInv'
    BY <1>2, <1>4, <1>5, <1>8, PublishedKeeps, AcceptedKeeps
  <1>10. QED
    BY <1>4, <1>6, <1>7, <1>9 DEF IngestInv

LEMMA AnswerFacts ==
    ASSUME IngestInv, NEW w \in Workers, NEW how \in Answers, Answer(w, how),
           pc[w] # "idle"
    PROVE  /\ LocalTypeOK'
           /\ answer' \in Seq(Answers) /\ Len(answer') = Len(answer)
           /\ \A d \in DOMAIN hooks : d # delivery[w] => answer'[d] = answer[d]
           /\ answer'[delivery[w]] = how
           /\ pc'[w] = "idle" /\ \A v \in Workers \ {w} : Bystander(v)
  <1>1. GitHubTypeOK /\ LocalTypeOK /\ delivery[w] \in DOMAIN hooks
    BY DEF IngestInv, HookInv
  <1>2. answer \in Seq(Answers) /\ DOMAIN answer = DOMAIN hooks
    BY <1>1 DEF GitHubTypeOK
  <1>3. /\ answer' = [answer EXCEPT ![delivery[w]] = how]
        /\ answer' \in Seq(Answers) /\ Len(answer') = Len(answer)
    BY <1>1, <1>2 DEF Answer
  <1>4. LocalTypeOK'
    BY <1>1 DEF LocalTypeOK, Answer
  <1>5. pc'[w] = "idle" /\ \A v \in Workers \ {w} : Bystander(v)
    BY <1>1 DEF LocalTypeOK, Answer, Bystander
  <1>6. QED
    BY <1>1, <1>2, <1>3, <1>4, <1>5

(***************************************************************************)
(* A call that fails leaves nothing half done but its webhook.             *)
(***************************************************************************)
LEMMA FailStep == ASSUME IngestInv, NEW w \in Workers, Fail(w) PROVE IngestInv'
  <1>1. "failed" \in Answers /\ Answer(w, "failed") /\ pc[w] # "idle"
    BY DEF Fail, Answers
  <1>2. Private(w)
    BY <1>1, AnswerFacts DEF Private, Fail, IngestInv, StoreTypeOK
  <1>3. QED
    BY <1>1, <1>2, AnswerFacts, IdleIsFine, PrivateStep DEF Unsaved, Enriching, Finalizing

LEMMA ReceiveStep ==
    ASSUME IngestInv, NEW w \in Workers, NEW d \in Deliveries, Receive(w, d)
    PROVE  IngestInv'
  <1>1. GitHubTypeOK /\ StoreTypeOK /\ LocalTypeOK
    BY DEF IngestInv
  <1>2. /\ d \in DOMAIN hooks /\ hooks[d] \in Hook /\ d \in Nat
        /\ answer \in Seq(Answers) /\ d \in 1..Len(answer) /\ "handling" \in Answers
    BY <1>1 DEF GitHubTypeOK, Deliveries, Answers
  <1>3. /\ answer' \in Seq(Answers) /\ Len(answer') = Len(answer)
        /\ \A e \in DOMAIN hooks : answer'[e] = "accepted" => answer[e] = "accepted"
    <2>1. answer' = [answer EXCEPT ![d] = "handling"] /\ DOMAIN answer = DOMAIN hooks
      BY <1>1 DEF Receive, GitHubTypeOK
    <2>2. QED
      BY <1>2, <2>1
  <1>4. CASE handled(hooks[d]) /\ pc' = [pc EXCEPT ![w] = "opened"] /\ UNCHANGED target
    <2>1. pc'[w] = "opened" /\ delivery'[w] = d /\ LocalTypeOK' /\ Private(w)
      BY <1>1, <1>2, <1>4
         DEF LocalTypeOK, Receive, Private, Bystander, StoreTypeOK, Opening
    <2>2. (HookInv(w) /\ DraftInv(w) /\ LoopInv(w) /\ MatchInv(w))'
      BY <1>2, <1>4, <2>1 DEF HookInv, DraftInv, LoopInv, MatchInv, Reconciling, Unsaved,
            Enriching, Finalizing, handled, Receive
    <2>3. QED
      BY <1>3, <2>1, <2>2, PrivateStep DEF Unsaved, Enriching, Finalizing
  <1>5. CASE /\ reconciled(hooks[d]) /\ pc' = [pc EXCEPT ![w] = "find"]
             /\ target' = [target EXCEPT ![w] = [prs |-> hooks[d].prs, id |-> 0, name |-> "none"]]
    <2>1. hooks[d].prs \in Seq(PullRequests) \ {<<>>}
      BY <1>2, <1>5 DEF reconciled, Hook
    <2>2. [prs |-> hooks[d].prs, id |-> 0, name |-> "none"] \in Match
      BY <2>1 DEF Match
    <2>3. /\ pc'[w] = "find" /\ delivery'[w] = d /\ target'[w] \in Match
          /\ target'[w].prs = hooks[d].prs /\ LocalTypeOK' /\ Private(w)
      BY <1>1, <1>2, <1>5, <2>2
         DEF LocalTypeOK, Receive, Private, Bystander, StoreTypeOK, Reconciling
    <2>4. hooks' = hooks
      BY DEF Receive
    <2>5. (HookInv(w) /\ DraftInv(w) /\ MatchInv(w))'
      BY <1>2, <1>5, <2>3, <2>4 DEF HookInv, DraftInv, MatchInv, Opening, Unsaved,
            Enriching, Finalizing, reconciled
    <2>6. LoopInv(w)'
      <3>1. Len(hooks[d].prs) \in Nat \ {0}
        BY <2>1, EmptySeq
      <3>2. /\ 0 \in 0..Len(hooks[d].prs) - 1
            /\ Len(target'[w].prs) = Len(hooks[d].prs) - 0
            /\ \A i \in 1..Len(hooks[d].prs) - 0 : target'[w].prs[i] = hooks[d].prs[0 + i]
            /\ 1..0 = {}
        BY <2>3, <3>1
      <3>3. QED
        BY <2>3, <2>4, <3>2 DEF LoopInv
    <2>7. QED
      BY <1>3, <2>3, <2>5, <2>6, PrivateStep DEF Unsaved, Enriching, Finalizing
  <1>6. QED
    BY <1>4, <1>5 DEF Receive

-----------------------------------------------------------------------------
(* The steps of ProcessPROpened. *)

LEMMA FetchStep == ASSUME IngestInv, NEW w \in Workers, FetchPullRequest(w) PROVE IngestInv'
  <1> DEFINE hook == hooks[delivery[w]]
  <1>1. GitHubTypeOK /\ StoreTypeOK /\ LocalTypeOK
    BY DEF IngestInv
  <1>2. pc[w] = "opened" /\ delivery[w] \in DOMAIN hooks /\ hook \in Hook /\ handled(hook)
    BY <1>1 DEF FetchPullRequest, Proceed, IngestInv, HookInv, Opening, GitHubTypeOK
  <1>3. hook.pr \in PullRequests /\ hook.head \in Commits /\ hook.head <= head /\ head \in Commits
    BY <1>1, <1>2, Bounds DEF handled, Hook, GitHubTypeOK, Commits
  <1>4. PICK h \in Commits : /\ h <= head
                             /\ packet' = [packet EXCEPT ![w] = [pr |-> hook.pr, head |-> h]]
    <2>1. PICK h \in {head, hook.head} :
            packet' = [packet EXCEPT ![w] = [pr |-> hook.pr, head |-> h]]
      BY DEF FetchPullRequest
    <2>2. h \in Commits /\ h <= head
      BY <1>3, Bounds DEF Commits
    <2>3. QED
      BY <2>1, <2>2
  <1>5. [pr |-> hook.pr, head |-> h] \in Fetched
    BY <1>3 DEF Fetched
  <1>6. /\ pc'[w] = "build" /\ packet'[w] \in Fetched /\ packet'[w].head <= head
        /\ delivery'[w] = delivery[w] /\ LocalTypeOK' /\ Private(w)
        /\ UNCHANGED <<head, hooks, answer>>
    BY <1>1, <1>4, <1>5 DEF FetchPullRequest, Proceed, githubVars, LocalTypeOK, Private,
          Bystander, StoreTypeOK, Opening
  <1>7. (HookInv(w) /\ DraftInv(w) /\ LoopInv(w) /\ MatchInv(w))'
    BY <1>2, <1>6 DEF HookInv, DraftInv, LoopInv, MatchInv, Reconciling, Unsaved,
          Enriching, Finalizing, handled
  <1>8. answer' \in Seq(Answers) /\ Len(answer') = Len(answer)
    BY <1>1, <1>6 DEF GitHubTypeOK
  <1>9. QED
    BY <1>6, <1>7, <1>8, PrivateStep DEF Unsaved, Enriching, Finalizing

\* A step of w that changes no webhook and no answer, and of the store at most
\* what w is building.
Building(w) ==
    /\ UNCHANGED <<head, hooks, answer, missed, audit, published, delivery, target>>
    /\ \A v \in Workers \ {w} : Bystander(v)
    /\ \A v \in Workers \ {w} : pc[v] \in Unsaved =>
        /\ packets'[packet[v].id] = packets[packet[v].id]
        /\ events'[packet[v].id] = events[packet[v].id]

LEMMA BuildingStep ==
    ASSUME IngestInv, NEW w \in Workers, Building(w), StoreTypeOK', LocalTypeOK', Later,
           pc[w] \in Opening, pc'[w] \in Opening, DraftInv(w)', DistinctInv',
           \A id \in PacketIDs : packets'[id] # NoPacket =>
                \/ packets[id] # NoPacket /\ events'[id] = events[id]
                \/ PacketInv(id)'
    PROVE  IngestInv'
  <1>1. GitHubTypeOK /\ StoreTypeOK /\ LocalTypeOK
    BY DEF IngestInv
  <1>2. GitHubTypeOK'
    BY <1>1 DEF GitHubTypeOK, Building
  <1>3. (HookInv(w) /\ LoopInv(w) /\ MatchInv(w))'
    BY DEF Building, IngestInv, HookInv, LoopInv, MatchInv, Reconciling, Opening, Unsaved,
          Enriching, Finalizing, handled, reconciled
  <1>4. \A v \in Workers : (HookInv(v) /\ DraftInv(v) /\ LoopInv(v) /\ MatchInv(v))'
    BY <1>2, <1>3, BystanderKeeps DEF Building
  <1>5. \A id \in PacketIDs : PacketInv(id)'
    BY <1>2, PacketKeeps DEF Building
  <1>6. PublishedInv' /\ AcceptedInv'
    BY PublishedKeeps, AcceptedKeeps DEF Building
  <1>7. QED
    BY <1>2, <1>4, <1>5, <1>6 DEF IngestInv

LEMMA BuildStep == ASSUME IngestInv, NEW w \in Workers, BuildChangePacket(w) PROVE IngestInv'
  <1>1. GitHubTypeOK /\ StoreTypeOK /\ LocalTypeOK /\ DistinctInv /\ DraftInv(w)
    BY DEF IngestInv
  <1>2. /\ pc[w] = "build" /\ packet[w] \in Fetched /\ packet[w].head <= head
        /\ packet[w].pr \in PullRequests /\ packet[w].head \in Commits
    BY <1>1 DEF BuildChangePacket, Proceed, DraftInv, Fetched
  <1>3. PICK id \in PacketIDs : id = created + 1 /\ created' = id
    BY <1>1, Bounds DEF BuildChangePacket, StoreTypeOK, PacketIDs
  <1>4. head \in Commits
    BY <1>1, <1>2, Bounds DEF GitHubTypeOK, Commits
  <1>5. PICK built \in Built : /\ built = [pr |-> packet[w].pr, head |-> packet[w].head,
                                           diff |-> head, id |-> id]
                               /\ packet' = [packet EXCEPT ![w] = built]
    BY <1>2, <1>3, <1>4 DEF BuildChangePacket, Built
  <1>6. /\ pc' = [pc EXCEPT ![w] = "mutations"]
        /\ events' = [events EXCEPT ![id] = <<"PROpened", "ChangePacketCreated">>]
        /\ UNCHANGED <<githubVars, storeVars, clock, delivery, target, missed>>
    BY <1>3 DEF BuildChangePacket, Proceed
  <1>7. \A v \in Workers : pc[v] \in Unsaved =>
            packet[v].id \in PacketIDs /\ packet[v].id <= created /\ packet[v].id # id
    <2> SUFFICES ASSUME NEW v \in Workers, pc[v] \in Unsaved
                 PROVE  packet[v].id \in PacketIDs /\ packet[v].id <= created /\ packet[v].id # id
      OBVIOUS
    <2>1. DraftInv(v)
      BY DEF IngestInv
    <2>2. packet[v].id \in PacketIDs /\ packet[v].id <= created
      BY <2>1 DEF DraftInv, Unsaved, Built, Packet
    <2>3. QED
      BY <1>1, <1>3, <2>2, Bounds DEF PacketIDs, StoreTypeOK
  <1>8. packets[id] = NoPacket
    <2>1. PacketInv(id) /\ created \in Int
      BY <1>1, Bounds DEF IngestInv, StoreTypeOK
    <2>2. QED
      BY <1>3, <2>1 DEF PacketInv
  <1>9. StoreTypeOK'
    <2>1. created' \in 0..MaxPackets
      BY <1>3, Bounds DEF PacketIDs
    <2>2. QED
      BY <1>1, <1>6, <2>1 DEF StoreTypeOK, storeVars
  <1>10. LocalTypeOK'
    BY <1>1, <1>5, <1>6 DEF LocalTypeOK, Opening, Unsaved, Enriching
  <1>11. Building(w) /\ pc'[w] = "mutations" /\ packet'[w] = built
    BY <1>1, <1>5, <1>6, <1>7 DEF Building, Bystander, LocalTypeOK, StoreTypeOK, githubVars, storeVars
  <1>12. Later
    BY <1>1, <1>3, <1>6, Bounds DEF Later, githubVars, storeVars, GitHubTypeOK, StoreTypeOK
  <1>13. DraftInv(w)'
    <2>1. /\ built.head <= built.diff /\ built.diff <= head' /\ built.id <= created'
          /\ built.id = id
      BY <1>2, <1>3, <1>4, <1>5, <1>6, Bounds DEF githubVars, Commits, PacketIDs
    <2>2. packets'[id] = NoPacket /\ events'[id] = Told("mutations", FALSE)
      BY <1>1, <1>6, <1>8, ToldFacts DEF storeVars, StoreTypeOK
    <2>3. QED
      BY <1>11, <2>1, <2>2 DEF DraftInv, Unsaved, Enriching, Finalizing
  <1>14. DistinctInv'
    <2> SUFFICES ASSUME NEW v \in Workers, v # w, pc[v] \in Unsaved
                 PROVE  packet'[v].id # packet'[w].id
      BY <1>1, <1>11 DEF DistinctInv, Building, Bystander
    <2>1. packet'[v] = packet[v] /\ packet'[w].id = id
      BY <1>5, <1>11 DEF Building, Bystander
    <2>2. QED
      BY <1>7, <2>1
  <1>15. \A j \in PacketIDs : packets'[j] # NoPacket => packets[j] # NoPacket /\ events'[j] = events[j]
    BY <1>1, <1>6, <1>8 DEF storeVars, StoreTypeOK
  <1>16. QED
    BY <1>2, <1>9, <1>10, <1>11, <1>12, <1>13, <1>14, <1>15, BuildingStep
       DEF Opening, Unsaved, Enriching

(***************************************************************************)
(* Publishing an event moves a packet to the next stage of its flow.       *)
(***************************************************************************)
LEMMA EmitStep ==
    ASSUME IngestInv, NEW w \in Workers, NEW to \in Unsaved \ {"violations"}, NEW type,
           pc[w] \in Unsaved, pc[w] \in Enriching <=> to \in Enriching,
           pc' = [pc EXCEPT ![w] = to], Emit(w, type),
           \A q \in BOOLEAN : (pc[w] = "violations" => q) =>
                Told(to, q) = Append(Told(pc[w], q), type),
           UNCHANGED <<githubVars, storeVars, created, clock, delivery, packet, target, missed>>
    PROVE  IngestInv'
  <1>1. StoreTypeOK /\ LocalTypeOK /\ GitHubTypeOK /\ DistinctInv /\ DraftInv(w)
    BY DEF IngestInv
  <1>2. PICK id \in PacketIDs : /\ id = packet[w].id /\ packets[id] = NoPacket
                                /\ events' = [events EXCEPT ![id] = Append(@, type)]
    BY <1>1 DEF DraftInv, Unsaved, Built, Packet, Emit
  <1>3. StoreTypeOK'
    BY <1>1, <1>2 DEF StoreTypeOK, storeVars
  <1>4. LocalTypeOK' /\ pc'[w] = to
    BY <1>1 DEF LocalTypeOK, Opening
  <1>5. Building(w)
    BY <1>1, <1>2 DEF Building, Bystander, LocalTypeOK, DistinctInv, githubVars, storeVars, StoreTypeOK
  <1>6. Later
    BY <1>1, Bounds DEF Later, githubVars, storeVars, GitHubTypeOK, StoreTypeOK
  <1>7. DraftInv(w)'
    <2>1. to \in Finalizing <=> pc[w] \in Finalizing
      BY DEF Unsaved, Enriching, Finalizing
    <2>2. (pc[w] \in Finalizing /\ packet[w].violated) \in BOOLEAN
      OBVIOUS
    <2>3. events'[id] = Told(to, pc[w] \in Finalizing /\ packet[w].violated)
      <3>1. pc[w] = "violations" => pc[w] \in Finalizing /\ packet[w].violated
        BY <1>1 DEF DraftInv, Finalizing
      <3>2. events[id] = Told(pc[w], pc[w] \in Finalizing /\ packet[w].violated)
        BY <1>1, <1>2 DEF DraftInv
      <3>3. events'[id] = Append(events[id], type)
        BY <1>1, <1>2 DEF StoreTypeOK
      <3>4. QED
        BY <2>2, <3>1, <3>2, <3>3
    <2>4. events'[packet'[w].id] = Told(pc'[w], pc'[w] \in Finalizing /\ packet'[w].violated)
      BY <1>2, <1>4, <2>1, <2>3
    <2>5. QED
      BY <1>1, <1>2, <1>4, <2>1, <2>4
         DEF DraftInv, Unsaved, Enriching, Finalizing, githubVars, storeVars
  <1>8. DistinctInv'
    BY <1>1, <1>4 DEF DistinctInv, LocalTypeOK
  <1>9. \A j \in PacketIDs : packets'[j] # NoPacket => packets[j] # NoPacket /\ events'[j] = events[j]
    BY <1>1, <1>2 DEF storeVars, StoreTypeOK
  <1>10. QED
    BY <1>3, <1>4, <1>5, <1>6, <1>7, <1>8, <1>9, BuildingStep DEF Opening

LEMMA EventSteps ==
    ASSUME IngestInv, NEW w \in Workers,
           EnrichMutations(w) \/ EnrichRisk(w) \/ PublishViolations(w) \/ PublishLane(w)
    PROVE  IngestInv'
  <1>1. CASE EnrichMutations(w)
    <2>1. \A q \in BOOLEAN : Told("risk", q) = Append(Told("mutations", q), "MutationDetected")
      BY ToldFacts
    <2>2. QED
      BY <1>1, <2>1, EmitStep DEF EnrichMutations, Proceed, Unsaved, Enriching
  <1>2. CASE EnrichRisk(w)
    <2>1. \A q \in BOOLEAN : Told("decide", q) = Append(Told("risk", q), "RiskAssigned")
      BY ToldFacts
    <2>2. QED
      BY <1>2, <2>1, EmitStep DEF EnrichRisk, Proceed, Unsaved, Enriching
  <1>3. CASE PublishLane(w)
    <2>1. \A q \in BOOLEAN : Told("save", q) = Append(Told("lane", q), "MergeLaneAssigned")
      BY ToldFacts
    <2>2. QED
      BY <1>3, <2>1, EmitStep DEF PublishLane, Proceed, Unsaved, Enriching, Finalizing
  <1>4. CASE PublishViolations(w)
    <2>1. \A q \in BOOLEAN : q =>
            Told("lane", q) = Append(Told("violations", q), "PolicyViolationDetected")
      BY ToldFacts
    <2>2. QED
      BY <1>4, <2>1, EmitStep DEF PublishViolations, Proceed, Unsaved, Enriching, Finalizing
  <1>5. QED
    BY <1>1, <1>2, <1>3, <1>4

LEMMA AssignType == ASSUME NEW p \in Policy \cup Packet PROVE Assign(p) \in Lane
  <1>1. p.minimumLane \in Lane \cup {NoLane}
    BY DEF Policy, Packet
  <1>2. maxLane("GREEN", p.minimumLane) \in Lane /\ maxLane("YELLOW", p.minimumLane) \in Lane
        /\ maxLane("RED", p.minimumLane) \in Lane
    BY <1>1 DEF maxLane, Lane
  <1>3. forcedLane(p) \in Lane /\ thresholdLane(p) \in Lane
    BY <1>2 DEF forcedLane, thresholdLane, Lane
  <1>4. QED
    BY <1>3 DEF Assign

LEMMA DecideStep == ASSUME IngestInv, NEW w \in Workers, Decide(w) PROVE IngestInv'
  <1>1. StoreTypeOK /\ LocalTypeOK /\ GitHubTypeOK /\ DraftInv(w) /\ HookInv(w)
    BY DEF IngestInv
  <1>2. pc[w] = "decide" /\ packet[w] \in Built
    BY <1>1 DEF Decide, Proceed, DraftInv, Enriching
  <1>3. /\ packet[w].head <= packet[w].diff /\ packet[w].diff <= head
        /\ packet[w].id <= created /\ packets[packet[w].id] = NoPacket
        /\ events[packet[w].id] = EventFlow
    BY <1>1, <1>2, ToldFacts DEF DraftInv, Unsaved, Enriching, Finalizing
  <1>4. PICK policy \in Policy : policy = PolicyOf[packet[w].diff]
    BY <1>2, IngestionConstants DEF Built
  <1> DEFINE draft == packet[w]
             decided ==
                [pr |-> draft.pr, head |-> draft.head, diff |-> draft.diff, id |-> draft.id,
                 status |-> policy.status, minimumLane |-> policy.minimumLane,
                 score |-> policy.score, reviewers |-> policy.reviewers,
                 canary |-> policy.canary, route |-> policy.route,
                 violated |-> policy.violated, evidence |-> policy.evidence,
                 lane |-> Assign(policy), updated |-> clock + 1]
  <1>5. decided \in Packet
    <2>1. clock + 1 \in Nat /\ Assign(policy) \in Lane
      BY <1>1, AssignType DEF StoreTypeOK
    <2>2. QED
      BY <1>2, <2>1 DEF Policy, Packet, Built
  <1>6. PICK to : /\ to = IF policy.violated THEN "violations" ELSE "lane"
                  /\ pc' = [pc EXCEPT ![w] = to] /\ packet' = [packet EXCEPT ![w] = decided]
    BY <1>4 DEF Decide, Proceed
  <1>7. policy.violated \in BOOLEAN /\ to \in Finalizing
    BY <1>6 DEF Policy, Finalizing
  <1>8. PICK saved \in Packet :
            /\ saved = decided /\ packet' = [packet EXCEPT ![w] = saved]
            /\ saved.head = packet[w].head /\ saved.diff = packet[w].diff
            /\ saved.id = packet[w].id /\ saved.violated = policy.violated
    BY <1>5, <1>6
  <1> HIDE DEF decided
  <1>9. LocalTypeOK' /\ pc'[w] = to /\ packet'[w] = saved
    BY <1>1, <1>6, <1>7, <1>8 DEF LocalTypeOK, Opening, Unsaved, Decide
  <1>10. Private(w) /\ UNCHANGED <<answer, delivery, target>>
    BY <1>1, <1>6, <1>8 DEF Private, Decide, githubVars, Bystander, LocalTypeOK, StoreTypeOK
  <1>11. UNCHANGED <<head, hooks, created, packets, events>>
    BY <1>10 DEF Private, storeVars
  <1>12. DraftInv(w)'
    <2>1. events'[saved.id] = Told(to, saved.violated)
      BY <1>3, <1>6, <1>7, <1>8, <1>11, ToldFacts
    <2>2. QED
      BY <1>3, <1>6, <1>7, <1>8, <1>9, <1>11, <2>1
         DEF DraftInv, Unsaved, Enriching, Finalizing
  <1>13. (HookInv(w) /\ LoopInv(w) /\ MatchInv(w))'
    BY <1>1, <1>2, <1>7, <1>9, <1>10, <1>11
       DEF HookInv, LoopInv, MatchInv, Opening, Unsaved, Enriching, Finalizing, Reconciling, handled
  <1>14. answer' \in Seq(Answers) /\ Len(answer') = Len(answer)
    BY <1>1, <1>10 DEF GitHubTypeOK
  <1>15. pc[w] \in Unsaved /\ packet'[w].id = packet[w].id
    BY <1>2, <1>8, <1>9 DEF Unsaved, Enriching
  <1>16. QED
    BY <1>9, <1>10, <1>12, <1>13, <1>14, <1>15, PrivateStep

(***************************************************************************)
(* The save makes a packet public that has been announced; nothing has     *)
(* been reported on it before.                                             *)
(***************************************************************************)
LEMMA SaveStep == ASSUME IngestInv, NEW w \in Workers, Save(w) PROVE IngestInv'
  <1>1. StoreTypeOK /\ LocalTypeOK /\ GitHubTypeOK /\ DraftInv(w) /\ DistinctInv
    BY DEF IngestInv
  <1>2. PICK saved \in Packet : saved = packet[w] /\ pc[w] = "save"
    BY <1>1 DEF Save, Proceed, DraftInv, Finalizing
  <1>3. /\ saved.head <= saved.diff /\ saved.diff <= head
        /\ saved.id <= created /\ packets[saved.id] = NoPacket
        /\ saved.id \in PacketIDs /\ saved.violated \in BOOLEAN
        /\ events[saved.id] = Told("done", saved.violated)
    <2>1. saved.id \in PacketIDs /\ saved.violated \in BOOLEAN
      BY DEF Packet
    <2>2. events[saved.id] = Told("save", saved.violated)
      BY <1>1, <1>2, <2>1 DEF DraftInv, Unsaved, Finalizing
    <2>3. QED
      BY <1>1, <1>2, <2>1, <2>2, ToldFacts DEF DraftInv, Unsaved, Finalizing
  <1>4. /\ packets' = [packets EXCEPT ![saved.id] = saved]
        /\ pc' = [pc EXCEPT ![w] = "check"]
        /\ UNCHANGED <<githubVars, audit, published, events, created, clock, delivery, packet,
                       target, missed>>
    BY <1>2 DEF Save, Proceed
  <1>5. PICK rows \in [Names -> EvidenceStatus \cup {NoExecution}] :
            executions' = [executions EXCEPT ![saved.id] = rows]
    <2> DEFINE rows == [name \in Names |->
                IF findEvidenceRequirement(saved.evidence, name) # {} THEN "pending"
                ELSE NoExecution]
    <2>1. rows \in [Names -> EvidenceStatus \cup {NoExecution}]
      BY DEF EvidenceStatus
    <2>2. executions' = [executions EXCEPT ![saved.id] = rows]
      BY <1>2 DEF Save
    <2> HIDE DEF rows
    <2>3. QED
      BY <2>1, <2>2
  <1>6. StoreTypeOK'
    BY <1>1, <1>3, <1>4, <1>5 DEF StoreTypeOK
  <1>7. LocalTypeOK' /\ pc'[w] = "check" /\ packet'[w] = saved
    BY <1>1, <1>2, <1>4 DEF LocalTypeOK, Opening
  <1>8. Building(w)
    <2>1. \A v \in Workers \ {w} : Bystander(v)
      BY <1>1, <1>4 DEF Bystander, LocalTypeOK
    <2>2. \A v \in Workers \ {w} : pc[v] \in Unsaved => packet[v].id # saved.id
      BY <1>1, <1>2 DEF DistinctInv, Unsaved, Finalizing
    <2>3. \A v \in Workers \ {w} : pc[v] \in Unsaved => packets'[packet[v].id] = packets[packet[v].id]
      <3> SUFFICES ASSUME NEW v \in Workers \ {w}, pc[v] \in Unsaved
                   PROVE  packets'[packet[v].id] = packets[packet[v].id]
        OBVIOUS
      <3>1. packet[v].id \in PacketIDs
        BY DEF IngestInv, DraftInv, Unsaved, Built, Packet
      <3>2. QED
        BY <1>1, <1>4, <2>2, <3>1 DEF StoreTypeOK
    <2>4. QED
      BY <1>4, <2>1, <2>3 DEF Building, githubVars
  <1>9. Later
    BY <1>1, <1>3, <1>4, Bounds DEF Later, githubVars, GitHubTypeOK, StoreTypeOK
  <1>10. packets'[saved.id] = saved /\ \A id \in PacketIDs \ {saved.id} : packets'[id] = packets[id]
    BY <1>1, <1>3, <1>4 DEF StoreTypeOK
  <1>11. DraftInv(w)'
    BY <1>7, <1>10 DEF DraftInv, Unsaved, Enriching, Finalizing
  <1>12. DistinctInv'
    BY <1>1, <1>4, <1>7 DEF DistinctInv, LocalTypeOK, Unsaved, Enriching, Finalizing
  <1>13. PacketInv(saved.id)'
    <2>1. PICK id \in PacketIDs : id = saved.id
      BY <1>3
    <2>2. DOMAIN audit[id] = {}
      BY <1>3, <2>1, Bounds DEF IngestInv, PacketInv, Sourced
    <2>3. PacketInv(id)'
      BY <1>3, <1>4, <1>10, <2>1, <2>2 DEF PacketInv, githubVars
    <2>4. QED
      BY <2>1, <2>3
  <1>14. \A id \in PacketIDs : packets'[id] # NoPacket =>
                \/ packets[id] # NoPacket /\ events'[id] = events[id]
                \/ PacketInv(id)'
    BY <1>4, <1>10, <1>13
  <1>15. QED
    BY <1>2, <1>6, <1>7, <1>8, <1>9, <1>11, <1>12, <1>14, BuildingStep
       DEF Opening, Unsaved, Finalizing

(***************************************************************************)
(* The check on a commit shows the packet that was just stored for it.     *)
(***************************************************************************)
LEMMA PublishCheckStep == ASSUME IngestInv, NEW w \in Workers, PublishCheck(w) PROVE IngestInv'
  <1>1. StoreTypeOK /\ LocalTypeOK /\ GitHubTypeOK /\ DraftInv(w) /\ HookInv(w) /\ DistinctInv
        /\ PublishedInv
    BY DEF IngestInv
  <1>2. /\ pc[w] = "check" /\ packet[w] \in Packet /\ packet[w].head \in Commits
        /\ packet[w].id \in PacketIDs
        /\ packets[packet[w].id] \in Packet /\ packets[packet[w].id].head = packet[w].head
    BY <1>1 DEF PublishCheck, DraftInv, Packet
  <1>3. Answer(w, "accepted") /\ "accepted" \in Answers
    BY DEF PublishCheck, Answers
  <1>4. /\ LocalTypeOK' /\ answer' \in Seq(Answers) /\ Len(answer') = Len(answer)
        /\ \A d \in DOMAIN hooks : d # delivery[w] => answer'[d] = answer[d]
        /\ pc'[w] = "idle" /\ \A v \in Workers \ {w} : Bystander(v)
    BY <1>2, <1>3, AnswerFacts
  <1>5. /\ UNCHANGED <<head, hooks, packets, executions, audit, events, created, clock, missed>>
        /\ published' = [published EXCEPT ![packet[w].head] = packet[w].id]
    BY DEF PublishCheck
  <1>6. StoreTypeOK' /\ GitHubTypeOK'
    BY <1>1, <1>2, <1>4, <1>5 DEF StoreTypeOK, GitHubTypeOK
  <1>7. Later
    BY <1>1, <1>5, Bounds DEF Later, GitHubTypeOK, StoreTypeOK
  <1>8. \A v \in Workers : (HookInv(v) /\ DraftInv(v) /\ LoopInv(v) /\ MatchInv(v))'
    BY <1>4, <1>5, <1>6, <1>7, BystanderKeeps, IdleIsFine
  <1>9. \A id \in PacketIDs : PacketInv(id)'
    BY <1>5, <1>6, <1>7, PacketKeeps
  <1>10. PublishedInv'
    BY <1>1, <1>2, <1>5 DEF PublishedInv, StoreTypeOK
  <1>11. DistinctInv'
    BY <1>1, <1>4 DEF DistinctInv, Bystander, Unsaved, Enriching, Finalizing
  <1>12. ~reconciled(hooks[delivery[w]])
    BY <1>1, <1>2 DEF HookInv, Opening, handled, reconciled
  <1>13. AcceptedInv'
    BY <1>4, <1>5, <1>6, <1>7, <1>12, AcceptedKeeps
  <1>14. QED
    BY <1>4, <1>6, <1>8, <1>9, <1>10, <1>11, <1>13 DEF IngestInv

-----------------------------------------------------------------------------
(* The loop of ProcessCheckRun. *)

(***************************************************************************)
(* Once the next pull request has been reached, the loop goes on with the  *)
(* rest of them, or all have been reached and the webhook is accepted.     *)
(***************************************************************************)
LEMMA NextFacts ==
    ASSUME IngestInv, NEW w \in Workers, pc[w] \in Reconciling, NextPullRequest(w),
           StoreTypeOK', Later, hooks' = hooks,
           NEW d, d = delivery[w], NEW pr, pr = Head(target[w].prs), Reached(d, pr)'
    PROVE  /\ LocalTypeOK' /\ answer' \in Seq(Answers) /\ Len(answer') = Len(answer)
           /\ pc'[w] \notin Unsaved /\ \A v \in Workers \ {w} : Bystander(v)
           /\ (HookInv(w) /\ DraftInv(w) /\ LoopInv(w) /\ MatchInv(w))'
           /\ \A e \in DOMAIN hooks : reconciled(hooks[e]) /\ answer'[e] = "accepted" =>
                \/ answer[e] = "accepted"
                \/ \A i \in DOMAIN hooks[e].prs : Reached(e, hooks[e].prs[i])'
  <1>1. /\ StoreTypeOK /\ LocalTypeOK /\ GitHubTypeOK /\ HookInv(w) /\ LoopInv(w)
        /\ pc[w] # "idle"
    BY DEF IngestInv, Reconciling
  <1>2. d \in DOMAIN hooks /\ hooks[d] \in Hook /\ reconciled(hooks[d])
    BY <1>1 DEF HookInv, GitHubTypeOK
  <1>3. PICK prs \in Seq(PullRequests) : prs = hooks[d].prs /\ Len(prs) \in Nat \ {0}
    BY <1>2, EmptySeq DEF reconciled, Hook
  <1>4. PICK n \in 0..Len(prs) - 1 :
            /\ Len(target[w].prs) = Len(prs) - n
            /\ \A i \in 1..Len(prs) - n : target[w].prs[i] = prs[n + i]
            /\ \A i \in 1..n : Reached(d, prs[i])
    BY <1>1, <1>3 DEF LoopInv
  <1>5. PICK rest : /\ rest = Tail(target[w].prs) /\ rest \in Seq(PullRequests)
                    /\ Len(rest) = Len(prs) - n - 1
                    /\ \A i \in 1..Len(rest) : rest[i] = prs[n + 1 + i]
                    /\ pr = prs[n + 1]
    <2>1. PICK todo \in Seq(PullRequests) :
            /\ todo = target[w].prs /\ todo # <<>> /\ Len(todo) = Len(prs) - n
            /\ \A i \in 1..Len(prs) - n : todo[i] = prs[n + i]
      BY <1>1, <1>4 DEF LoopInv, Match
    <2>2. /\ Head(todo) = todo[1] /\ Tail(todo) \in Seq(PullRequests)
          /\ Len(Tail(todo)) = Len(todo) - 1
          /\ \A i \in 1..Len(todo) - 1 : Tail(todo)[i] = todo[i + 1]
      BY <2>1
    <2>3. Head(todo) = prs[n + 1]
      BY <1>3, <1>4, <2>1, <2>2
    <2>4. \A i \in 1..Len(todo) - 1 : Tail(todo)[i] = prs[n + 1 + i]
      <3> SUFFICES ASSUME NEW i \in 1..Len(todo) - 1
                   PROVE  Tail(todo)[i] = prs[n + 1 + i]
        OBVIOUS
      <3>1. i + 1 \in 1..Len(prs) - n /\ n + (i + 1) = n + 1 + i
        BY <1>3, <1>4, <2>1
      <3>2. QED
        BY <2>1, <2>2, <3>1
    <2>5. QED
      BY <1>3, <1>4, <2>1, <2>2, <2>3, <2>4
  <1>6. \A i \in 1..n + 1 : Reached(d, prs[i])'
    <2> SUFFICES ASSUME NEW i \in 1..n + 1 PROVE Reached(d, prs[i])'
      OBVIOUS
    <2>1. CASE i = n + 1
      BY <1>5, <2>1
    <2>2. CASE i \in 1..n
      BY <1>1, <1>2, <1>4, <2>2, ReachedPersists
    <2>3. QED
      BY <1>4, <2>1, <2>2
  <1>7. CASE rest = <<>> /\ Answer(w, "accepted")
    <2>1. "accepted" \in Answers
      BY DEF Answers
    <2>2. /\ LocalTypeOK' /\ answer' \in Seq(Answers) /\ Len(answer') = Len(answer)
          /\ \A e \in DOMAIN hooks : e # d => answer'[e] = answer[e]
          /\ pc'[w] = "idle" /\ \A v \in Workers \ {w} : Bystander(v)
      BY <1>1, <1>7, <2>1, AnswerFacts
    <2>3. n + 1 = Len(prs) /\ DOMAIN prs = 1..Len(prs)
      <3>1. Len(rest) = 0
        BY <1>7, EmptySeq
      <3>2. PICK m \in Nat : m = Len(prs)
        BY <1>3
      <3>3. n \in Int /\ m - n - 1 = 0
        BY <1>5, <3>1, <3>2
      <3>4. n + 1 = m
        BY <3>3
      <3>5. DOMAIN prs = 1..Len(prs)
        OBVIOUS
      <3>6. QED
        BY <3>2, <3>4, <3>5
    <2>4. \A i \in DOMAIN hooks[d].prs : Reached(d, hooks[d].prs[i])'
      BY <1>3, <1>6, <2>3
    <2>5. pc'[w] \notin Unsaved
      BY <2>2 DEF Unsaved, Enriching, Finalizing
    <2>6. QED
      BY <2>2, <2>4, <2>5, IdleIsFine
  <1>8. CASE /\ rest # <<>> /\ pc' = [pc EXCEPT ![w] = "find"]
             /\ target' = [target EXCEPT ![w] = [prs |-> rest, id |-> 0, name |-> "none"]]
             /\ UNCHANGED <<answer, delivery, packet>>
    <2>1. [prs |-> rest, id |-> 0, name |-> "none"] \in Match
      BY <1>5, <1>8 DEF Match
    <2>2. /\ LocalTypeOK' /\ pc'[w] = "find" /\ delivery'[w] = d
          /\ target'[w] \in Match /\ target'[w].prs = rest
          /\ \A v \in Workers \ {w} : Bystander(v)
      BY <1>1, <1>8, <2>1 DEF LocalTypeOK, Bystander, Reconciling
    <2>3. answer' \in Seq(Answers) /\ Len(answer') = Len(answer)
      BY <1>1, <1>8 DEF GitHubTypeOK
    <2>4. (HookInv(w) /\ DraftInv(w) /\ MatchInv(w))'
      BY <1>2, <2>2 DEF HookInv, DraftInv, MatchInv, Opening, Unsaved, Enriching, Finalizing,
            reconciled
    <2>5. LoopInv(w)'
      <3>1. n + 1 \in 0..Len(prs) - 1 /\ Len(rest) = Len(prs) - (n + 1)
        <4>1. Len(rest) \in Nat /\ Len(rest) # 0
          BY <1>5, <1>8, EmptySeq
        <4>2. PICK m \in Nat, k \in Nat : m = Len(prs) /\ k = Len(rest)
          BY <1>3, <4>1
        <4>3. n \in 0..m - 1 /\ k = m - n - 1 /\ k # 0
          BY <1>5, <4>1, <4>2
        <4>4. n + 1 \in 0..m - 1 /\ k = m - (n + 1)
          BY <4>3
        <4>5. QED
          BY <4>2, <4>4
      <3>2. \A i \in 1..Len(prs) - (n + 1) : rest[i] = prs[(n + 1) + i]
        BY <1>5, <3>1
      <3>3. hooks'[delivery'[w]].prs = prs
        BY <1>3, <2>2
      <3>4. QED
        BY <1>6, <2>2, <3>1, <3>2, <3>3 DEF LoopInv
    <2>6. pc'[w] \notin Unsaved
      BY <2>2 DEF Unsaved, Enriching, Finalizing
    <2>7. QED
      BY <1>8, <2>2, <2>3, <2>4, <2>5, <2>6
  <1>9. QED
    BY <1>5, <1>7, <1>8 DEF NextPullRequest

(***************************************************************************)
(* A packet is matched by pull request and commit, its evidence by check.  *)
(***************************************************************************)
LEMMA FindStep == ASSUME IngestInv, NEW w \in Workers, FindPacket(w) PROVE IngestInv'
  <1>1. /\ StoreTypeOK /\ LocalTypeOK /\ GitHubTypeOK /\ HookInv(w) /\ LoopInv(w) /\ DistinctInv
        /\ pc[w] = "find" /\ pc[w] \in Reconciling
    BY DEF IngestInv, FindPacket, Reconciling
  <1>2. PICK d \in DOMAIN hooks, todo \in Seq(PullRequests) :
            /\ d = delivery[w] /\ hooks[d] \in Hook /\ reconciled(hooks[d])
            /\ todo = target[w].prs /\ todo # <<>> /\ target[w] \in Match
    BY <1>1 DEF HookInv, LoopInv, Match, GitHubTypeOK
  <1>3. PICK pr \in PullRequests : pr = Head(todo)
    BY <1>2
  <1>4. UNCHANGED <<head, hooks, storeVars, events, created, clock>>
    BY DEF FindPacket
  <1> USE DEF storeVars
  <1>5. /\ missed' \in Seq(SUBSET PullRequests) /\ Len(missed') = Len(missed)
        /\ \A e \in DOMAIN hooks : missed[e] \subseteq missed'[e]
    <2>1. missed \in Seq(SUBSET PullRequests) /\ d \in 1..Len(missed) /\ DOMAIN missed = DOMAIN hooks
      BY <1>1 DEF GitHubTypeOK
    <2>2. CASE UNCHANGED missed
      BY <2>1, <2>2
    <2>3. CASE missed' = [missed EXCEPT ![d] = @ \cup {pr}]
      BY <2>1, <2>3
    <2>4. QED
      BY <1>2, <1>3, <2>2, <2>3 DEF FindPacket
  <1>6. StoreTypeOK' /\ Later
    <2>1. StoreTypeOK'
      BY <1>1, <1>4 DEF StoreTypeOK
    <2>2. head <= head' /\ created <= created'
      BY <1>1, <1>4, Bounds DEF StoreTypeOK, GitHubTypeOK
    <2>3. QED
      BY <1>4, <1>5, <2>1, <2>2 DEF Later
  <1> DEFINE After ==
        /\ LocalTypeOK' /\ answer' \in Seq(Answers) /\ Len(answer') = Len(answer)
        /\ pc'[w] \notin Unsaved /\ \A v \in Workers \ {w} : Bystander(v)
        /\ (HookInv(w) /\ DraftInv(w) /\ LoopInv(w) /\ MatchInv(w))'
        /\ \A e \in DOMAIN hooks : reconciled(hooks[e]) /\ answer'[e] = "accepted" =>
             \/ answer[e] = "accepted"
             \/ \A i \in DOMAIN hooks[e].prs : Reached(e, hooks[e].prs[i])'
  <1>7. After
    <2>1. CASE missed' = [missed EXCEPT ![d] = @ \cup {pr}] /\ NextPullRequest(w)
      <3>1. pr \in missed'[d]
        BY <1>1, <2>1 DEF GitHubTypeOK
      <3>2. Reached(d, pr)'
        BY <3>1 DEF Reached
      <3>3. QED
        BY <1>1, <1>2, <1>3, <1>4, <1>6, <2>1, <3>2, NextFacts
    <2>2. ASSUME NEW id \in FindLatestChangePacket(pr, hooks[d].head),
                 matchingEvidenceRequirement(packets[id].evidence, hooks[d].check) = {},
                 NextPullRequest(w)
          PROVE  After
      <3>1. (id \in PacketsFor(pr, hooks[d].head))'
        BY <1>4, <2>2 DEF FindLatestChangePacket, PacketsFor, Stored
      <3>2. (~Binds(id, hooks[d].check))'
        BY <1>4, <2>2 DEF Binds, matchingEvidenceRequirement, Bound
      <3>3. Reached(d, pr)'
        BY <3>1, <3>2 DEF Reached
      <3>4. QED
        BY <1>1, <1>2, <1>3, <1>4, <1>6, <2>2, <3>3, NextFacts
    <2>3. ASSUME NEW id \in FindLatestChangePacket(pr, hooks[d].head),
                 NEW requirement \in matchingEvidenceRequirement(packets[id].evidence, hooks[d].check),
                 pc' = [pc EXCEPT ![w] = "update"],
                 target' = [target EXCEPT ![w] =
                                [prs |-> @.prs, id |-> id, name |-> requirement.name]],
                 UNCHANGED <<answer, delivery, packet>>
          PROVE  After
      <3>1. /\ id \in PacketIDs /\ packets[id] \in Packet
            /\ packets[id].pr = pr /\ packets[id].head = hooks[d].head
        BY <1>1, StoredIsPacket DEF FindLatestChangePacket
      <3>2. /\ requirement \in packets[id].evidence /\ requirement.check = hooks[d].check
            /\ requirement.name \in Names
        BY <3>1 DEF matchingEvidenceRequirement, Packet, Requirement
      <3>3. PICK match \in Match :
              /\ target' = [target EXCEPT ![w] = match]
              /\ match.prs = todo /\ match.id = id /\ match.name = requirement.name
        <4>1. [prs |-> todo, id |-> id, name |-> requirement.name] \in Match
          BY <1>2, <3>1, <3>2 DEF Match
        <4>2. target' = [target EXCEPT ![w] =
                            [prs |-> todo, id |-> id, name |-> requirement.name]]
          BY <1>1, <1>2, <2>3 DEF LocalTypeOK
        <4>3. QED
          BY <4>1, <4>2
      <3>4. /\ LocalTypeOK' /\ pc'[w] = "update" /\ target'[w] = match /\ delivery'[w] = d
            /\ \A v \in Workers \ {w} : Bystander(v)
        BY <1>1, <1>2, <2>3, <3>3 DEF LocalTypeOK, Bystander, Reconciling
      <3>5. answer' \in Seq(Answers) /\ Len(answer') = Len(answer)
        BY <1>1, <2>3 DEF GitHubTypeOK
      <3>6. (HookInv(w) /\ DraftInv(w))' /\ pc'[w] \notin Unsaved
        BY <1>2, <1>4, <3>4 DEF HookInv, DraftInv, Opening, Unsaved, Enriching, Finalizing,
              reconciled
      <3>7. PICK n \in 0..Len(hooks[d].prs) - 1 :
              /\ Len(todo) = Len(hooks[d].prs) - n
              /\ \A i \in 1..Len(hooks[d].prs) - n : todo[i] = hooks[d].prs[n + i]
              /\ \A i \in 1..n : Reached(d, hooks[d].prs[i])
        BY <1>1, <1>2 DEF LoopInv
      <3>8. LoopInv(w)'
        <4>1. PICK prs : prs = hooks[d].prs
          OBVIOUS
        <4>2. \A i \in 1..n : Reached(d, prs[i])'
          BY <1>1, <1>6, <3>7, <4>1, ReachedPersists
        <4>3. QED
          BY <1>4, <3>3, <3>4, <3>7, <4>1, <4>2 DEF LoopInv
      <3>9. Contains(hooks[d].prs, pr)
        <4>1. Len(hooks[d].prs) \in Nat /\ Len(todo) \in Nat \ {0} /\ Head(todo) = todo[1]
          BY <1>2, EmptySeq DEF Hook, reconciled
        <4>2. 1 \in 1..Len(hooks[d].prs) - n /\ n + 1 \in 1..Len(hooks[d].prs)
          BY <3>7, <4>1
        <4>3. hooks[d].prs[n + 1] = pr
          BY <1>3, <3>7, <4>1, <4>2
        <4>4. QED
          BY <4>2, <4>3 DEF Contains
      <3>10. MatchInv(w)'
        <4>1. Sourced(id, requirement.name, d)
          BY <1>2, <3>1, <3>2, <3>9 DEF Sourced
        <4>2. PICK name : name = requirement.name /\ Sourced(id, name, d)'
          BY <1>6, <3>1, <4>1, SourcedPersists
        <4>3. packets'[id].pr = Head(todo)
          BY <1>3, <1>4, <3>1
        <4>4. QED
          BY <3>1, <3>3, <3>4, <4>2, <4>3 DEF MatchInv
      <3>11. QED
        BY <2>3, <3>4, <3>5, <3>6, <3>8, <3>10
    <2>4. QED
      BY <1>2, <1>3, <2>1, <2>2, <2>3 DEF FindPacket
  <1>8. GitHubTypeOK'
    BY <1>1, <1>4, <1>5, <1>7 DEF GitHubTypeOK
  <1>9. \A v \in Workers : (HookInv(v) /\ DraftInv(v) /\ LoopInv(v) /\ MatchInv(v))'
    BY <1>4, <1>6, <1>7, <1>8, BystanderKeeps
  <1>10. \A id \in PacketIDs : PacketInv(id)'
    BY <1>4, <1>6, <1>8, PacketKeeps
  <1>11. DistinctInv'
    BY <1>1, <1>7 DEF DistinctInv, Bystander
  <1>12. PublishedInv' /\ AcceptedInv'
    BY <1>4, <1>6, <1>7, PublishedKeeps, AcceptedKeeps
  <1>13. QED
    BY <1>6, <1>7, <1>8, <1>9, <1>10, <1>11, <1>12 DEF IngestInv

\* The packet that UpdateEvidenceExecution stores.
Recomputed(pkt, rows, now) == [reconcileDecision(pkt, rows) EXCEPT !.updated = now]

(***************************************************************************)
(* UpdateEvidenceExecution recomputes the decision and the lane, and       *)
(* nothing of what the packet says of its commit.                          *)
(***************************************************************************)
LEMMA ReconcileFacts ==
    ASSUME NEW pkt \in Packet, NEW rows, NEW now \in Nat
    PROVE  LET res == Recomputed(pkt, rows, now) IN
           /\ res \in Packet
           /\ res.pr = pkt.pr /\ res.head = pkt.head /\ res.diff = pkt.diff /\ res.id = pkt.id
           /\ res.violated = pkt.violated /\ res.evidence = pkt.evidence
           /\ res.updated = now
  <1>1. PICK status \in DecisionStatus :
            status = IF pkt.status = "blocked" THEN "blocked"
                     ELSE IF /\ requiredEvidenceComplete(pkt.evidence, rows)
                             /\ ~hasMandatoryReviewers(pkt.reviewers)
                     THEN "approved" ELSE "pending"
    BY DEF DecisionStatus
  <1>2. PICK decided \in Packet :
            /\ decided = [pkt EXCEPT !.status = status]
            /\ decided.pr = pkt.pr /\ decided.head = pkt.head /\ decided.diff = pkt.diff
            /\ decided.id = pkt.id
            /\ decided.violated = pkt.violated /\ decided.evidence = pkt.evidence
    <2>1. [pkt EXCEPT !.status = status] \in Packet
      BY DEF Packet
    <2>2. QED
      BY <2>1 DEF Packet
  <1>3. Assign(decided) \in Lane
    BY AssignType
  <1>4. PICK laned \in Packet :
            /\ laned = [decided EXCEPT !.lane = Assign(decided)]
            /\ laned.pr = pkt.pr /\ laned.head = pkt.head /\ laned.diff = pkt.diff
            /\ laned.id = pkt.id
            /\ laned.violated = pkt.violated /\ laned.evidence = pkt.evidence
    <2>1. [decided EXCEPT !.lane = Assign(decided)] \in Packet
      BY <1>3 DEF Packet
    <2>2. QED
      BY <1>2, <2>1 DEF Packet
  <1>5. Recomputed(pkt, rows, now) = [laned EXCEPT !.updated = now]
    BY <1>1, <1>2, <1>4 DEF Recomputed, reconcileDecision
  <1>6. QED
    BY <1>4, <1>5 DEF Packet

LEMMA UpdateStep == ASSUME IngestInv, NEW w \in Workers, UpdateEvidence(w) PROVE IngestInv'
  <1>1. /\ StoreTypeOK /\ LocalTypeOK /\ GitHubTypeOK /\ HookInv(w) /\ LoopInv(w) /\ MatchInv(w)
        /\ DistinctInv /\ PublishedInv
        /\ pc[w] = "update" /\ pc[w] \in Reconciling /\ pc[w] # "idle"
    BY DEF IngestInv, UpdateEvidence, Reconciling
  <1>2. CASE Answer(w, "failed") /\ UNCHANGED <<storeVars, clock>>
    <2>1. "failed" \in Answers
      BY DEF Answers
    <2>2. Private(w)
      BY <1>1, <1>2, <2>1, AnswerFacts DEF Private, UpdateEvidence, StoreTypeOK
    <2>3. QED
      BY <1>1, <1>2, <2>1, <2>2, AnswerFacts, IdleIsFine, PrivateStep
         DEF Unsaved, Enriching, Finalizing
  <1>3. PICK id \in PacketIDs, d \in DOMAIN hooks, name \in Names :
            /\ id = target[w].id /\ d = delivery[w] /\ name = target[w].name
            /\ Sourced(id, name, d) /\ packets[id].pr = Head(target[w].prs)
    BY <1>1 DEF MatchInv, HookInv, Sourced, Packet, Requirement
  <1>4. PICK pkt \in Packet : /\ pkt = packets[id] /\ pkt.head = hooks[d].head
                              /\ pkt.head \in Commits /\ pkt.pr = Head(target[w].prs)
    BY <1>3 DEF Sourced, Packet
  <1> DEFINE to == evidenceStatusForCheckRun(hooks[d].conclusion)
             after == [executions[id] EXCEPT ![name] = to]
             entry == [name |-> name, from |-> d]
  <1>5. CASE /\ executions' = [executions EXCEPT ![id] = after]
             /\ audit' = [audit EXCEPT ![id] = Append(@, entry)]
             /\ clock' = clock + 1
             /\ packets' = [packets EXCEPT ![id] =
                    [reconcileDecision(@, after) EXCEPT !.updated = clock + 1]]
             /\ published' = [published EXCEPT ![packets[id].head] = id]
             /\ NextPullRequest(w)
    <2>1. after \in [Names -> EvidenceStatus \cup {NoExecution}]
      BY <1>1 DEF StoreTypeOK, evidenceStatusForCheckRun, EvidenceStatus
    <2>2. entry \in [name : Names, from : Nat] /\ entry.name = name /\ entry.from = d
      BY <1>1, <1>4 DEF GitHubTypeOK
    <2>3. PICK new \in Packet :
            /\ packets' = [packets EXCEPT ![id] = new]
            /\ new.pr = pkt.pr /\ new.head = pkt.head /\ new.diff = pkt.diff
            /\ new.violated = pkt.violated /\ new.evidence = pkt.evidence
      <3>1. clock + 1 \in Nat
        BY <1>1 DEF StoreTypeOK
      <3> HIDE DEF after
      <3>2. PICK new : new = Recomputed(pkt, after, clock + 1)
        OBVIOUS
      <3>3. packets' = [packets EXCEPT ![id] = new]
        BY <1>1, <1>4, <1>5, <3>2 DEF StoreTypeOK, Recomputed
      <3>4. /\ new \in Packet
            /\ new.pr = pkt.pr /\ new.head = pkt.head /\ new.diff = pkt.diff
            /\ new.violated = pkt.violated /\ new.evidence = pkt.evidence
        BY <3>1, <3>2, ReconcileFacts
      <3>5. QED
        BY <3>3, <3>4
    <2> HIDE DEF after, entry
    <2>4. /\ audit' \in [PacketIDs -> Seq([name : Names, from : Nat])]
          /\ audit'[id] = Append(audit[id], entry)
          /\ \A j \in PacketIDs \ {id} : audit'[j] = audit[j]
      <3>1. audit \in [PacketIDs -> Seq([name : Names, from : Nat])]
        BY <1>1 DEF StoreTypeOK
      <3>2. Append(audit[id], entry) \in Seq([name : Names, from : Nat])
        BY <2>2, <3>1, AppendProperties
      <3>3. audit' = [audit EXCEPT ![id] = Append(audit[id], entry)]
        BY <1>5
      <3>4. QED
        BY <3>1, <3>2, <3>3
    <2>5. /\ Len(audit[id]) \in Nat /\ DOMAIN audit[id] = 1..Len(audit[id])
          /\ DOMAIN audit'[id] = 1..Len(audit[id]) + 1
          /\ \A k \in DOMAIN audit[id] : audit'[id][k] = audit[id][k]
          /\ audit'[id][Len(audit[id]) + 1] = entry
      <3>1. audit[id] \in Seq([name : Names, from : Nat])
        BY <1>1 DEF StoreTypeOK
      <3>2. QED
        BY <2>2, <2>4, <3>1
    <2>6. UNCHANGED <<head, hooks, events, created, missed>>
      BY DEF UpdateEvidence
    <2>7. StoreTypeOK'
      <3>1. packets' \in [PacketIDs -> Packet \cup {NoPacket}]
        BY <1>1, <2>3 DEF StoreTypeOK
      <3>2. executions' \in [PacketIDs -> [Names -> EvidenceStatus \cup {NoExecution}]]
        BY <1>1, <1>5, <2>1 DEF StoreTypeOK
      <3>3. published' \in [Commits -> PacketIDs \cup {0}] /\ clock' \in Nat
        BY <1>1, <1>4, <1>5 DEF StoreTypeOK
      <3>4. QED
        BY <1>1, <2>4, <2>6, <3>1, <3>2, <3>3 DEF StoreTypeOK
    <2>8. packets'[id] = new /\ \A j \in PacketIDs \ {id} : packets'[j] = packets[j]
      BY <1>1, <2>3 DEF StoreTypeOK
    <2>9. Later
      <3>1. head <= head' /\ created <= created'
        BY <1>1, <2>6, Bounds DEF GitHubTypeOK, StoreTypeOK
      <3>2. \A j \in PacketIDs : DOMAIN audit[j] \subseteq DOMAIN audit'[j] /\
                \A k \in DOMAIN audit[j] : audit'[j][k] = audit[j][k]
        <4>1. DOMAIN audit[id] \subseteq DOMAIN audit'[id]
          BY <2>5
        <4>2. \A j \in PacketIDs \ {id} : audit'[j] = audit[j]
          BY <1>1, <1>5 DEF StoreTypeOK
        <4>3. QED
          BY <2>5, <4>1, <4>2
      <3>3. QED
        BY <1>4, <2>3, <2>6, <2>8, <3>1, <3>2 DEF Later
    <2>10. Reached(d, pkt.pr)'
      <3>1. packets'[id] # NoPacket
        BY <2>3, <2>8, Bounds
      <3>2. (id \in PacketsFor(pkt.pr, hooks[d].head))'
        BY <1>4, <2>3, <2>6, <2>8, <3>1 DEF PacketsFor, Stored
      <3>3. \E k \in DOMAIN audit'[id] : audit'[id][k].from = d
        BY <2>2, <2>5
      <3>4. QED
        BY <3>2, <3>3 DEF Reached
    <2>11. /\ LocalTypeOK' /\ answer' \in Seq(Answers) /\ Len(answer') = Len(answer)
           /\ pc'[w] \notin Unsaved /\ \A v \in Workers \ {w} : Bystander(v)
           /\ (HookInv(w) /\ DraftInv(w) /\ LoopInv(w) /\ MatchInv(w))'
           /\ \A e \in DOMAIN hooks : reconciled(hooks[e]) /\ answer'[e] = "accepted" =>
                \/ answer[e] = "accepted"
                \/ \A i \in DOMAIN hooks[e].prs : Reached(e, hooks[e].prs[i])'
      <3>1. PICK pr : pr = pkt.pr
        OBVIOUS
      <3>2. pr = Head(target[w].prs) /\ Reached(d, pr)'
        BY <1>4, <2>10, <3>1
      <3>3. QED
        BY <1>1, <1>3, <1>5, <2>6, <2>7, <2>9, <3>2, NextFacts
    <2>12. GitHubTypeOK'
      BY <1>1, <2>6, <2>11 DEF GitHubTypeOK
    <2>13. ASSUME NEW v \in Workers \ {w}
           PROVE  (HookInv(v) /\ DraftInv(v) /\ LoopInv(v) /\ MatchInv(v))'
      <3>1. ASSUME pc[v] \in Unsaved
            PROVE  /\ packets'[packet[v].id] = packets[packet[v].id]
                   /\ events'[packet[v].id] = events[packet[v].id]
        <4>1. packet[v].id \in PacketIDs /\ packets[packet[v].id] = NoPacket
          BY <3>1 DEF IngestInv, DraftInv, Unsaved, Built, Packet
        <4>2. packet[v].id # id
          BY <1>4, <4>1, Bounds
        <4>3. QED
          BY <2>6, <2>8, <4>1, <4>2
      <3>2. QED
        BY <2>7, <2>9, <2>11, <2>12, <3>1, BystanderKeeps
    <2>14. ASSUME NEW j \in PacketIDs PROVE PacketInv(j)'
      <3>1. CASE j # id
        BY <2>4, <2>6, <2>7, <2>8, <2>9, <2>12, <3>1, PacketKeeps
      <3>2. CASE j = id
        <4>1. PacketInv(id) /\ packets[id] # NoPacket
          BY <1>4, Bounds DEF IngestInv
        <4>2. ASSUME NEW k \in DOMAIN audit'[id]
              PROVE  Sourced(id, audit[id][k].name, audit[id][k].from)'
          <5>1. PICK e : e = audit'[id][k] /\ Sourced(id, e.name, e.from)
            <6>1. CASE k \in DOMAIN audit[id]
              BY <2>5, <4>1, <6>1 DEF PacketInv
            <6>2. CASE k = Len(audit[id]) + 1
              BY <1>3, <2>2, <2>5, <6>2
            <6>3. QED
              BY <2>5, <6>1, <6>2
          <5>2. Sourced(id, e.name, e.from)'
            BY <2>9, <5>1, SourcedPersists
          <5>3. QED
            BY <5>1, <5>2
        <4>3. QED
          BY <1>4, <2>3, <2>6, <2>8, <3>2, <4>1, <4>2 DEF PacketInv
      <3>3. QED
        BY <3>1, <3>2
    <2>15. PublishedInv'
      <3>1. published'[pkt.head] = id /\ \A h \in Commits \ {pkt.head} : published'[h] = published[h]
        BY <1>1, <1>4, <1>5 DEF StoreTypeOK
      <3>2. \A h \in Commits \ {pkt.head} : published[h] # 0 =>
                /\ published[h] \in PacketIDs
                /\ packets'[published[h]] \in Packet /\ packets'[published[h]].head = h
        BY <1>1, <2>9 DEF PublishedInv, StoreTypeOK, Later
      <3>3. QED
        BY <2>3, <2>8, <3>1, <3>2 DEF PublishedInv
    <2>16. AcceptedInv'
      BY <2>6, <2>7, <2>9, <2>11, AcceptedKeeps
    <2>17. DistinctInv'
      BY <1>1, <2>11 DEF DistinctInv, Bystander
    <2>18. QED
      BY <2>7, <2>11, <2>12, <2>13, <2>14, <2>15, <2>16, <2>17 DEF IngestInv
  <1>6. QED
    BY <1>2, <1>3, <1>5 DEF UpdateEvidence

-----------------------------------------------------------------------------
(* The theorems. *)

LEMMA IngestInit == Init => IngestInv
  <1> SUFFICES ASSUME Init PROVE IngestInv
    OBVIOUS
  <1>1. GitHubTypeOK
    BY Bounds DEF Init, GitHubTypeOK
  <1>2. StoreTypeOK /\ LocalTypeOK
    BY Bounds DEF Init, StoreTypeOK, LocalTypeOK
  <1>3. \A w \in Workers : HookInv(w) /\ DraftInv(w) /\ LoopInv(w) /\ MatchInv(w)
    BY DEF Init, HookInv, DraftInv, LoopInv, MatchInv, Opening, Reconciling, Unsaved,
          Enriching, Finalizing
  <1>4. \A id \in PacketIDs : PacketInv(id)
    BY DEF Init, PacketInv
  <1>5. DistinctInv /\ PublishedInv /\ AcceptedInv
    BY DEF Init, DistinctInv, PublishedInv, AcceptedInv, Unsaved, Enriching, Finalizing
  <1>6. QED
    BY <1>1, <1>2, <1>3, <1>4, <1>5 DEF IngestInv

LEMMA StutterStep == ASSUME IngestInv, UNCHANGED vars PROVE IngestInv'
  <1> USE DEF vars, githubVars, storeVars, localVars
  <1>1. GitHubTypeOK /\ StoreTypeOK /\ LocalTypeOK /\ DistinctInv
    BY DEF IngestInv
  <1>2. GitHubTypeOK' /\ StoreTypeOK' /\ LocalTypeOK' /\ DistinctInv'
    BY <1>1 DEF GitHubTypeOK, StoreTypeOK, LocalTypeOK, DistinctInv
  <1>3. Later
    BY <1>1, Bounds DEF Later, StoreTypeOK, GitHubTypeOK
  <1>4. \A v \in Workers : (HookInv(v) /\ DraftInv(v) /\ LoopInv(v) /\ MatchInv(v))'
    BY <1>2, <1>3, BystanderKeeps DEF Bystander
  <1>5. \A id \in PacketIDs : PacketInv(id)'
    BY <1>2, <1>3, PacketKeeps
  <1>6. PublishedInv' /\ AcceptedInv'
    BY <1>2, <1>3, PublishedKeeps, AcceptedKeeps
  <1>7. QED
    BY <1>2, <1>4, <1>5, <1>6 DEF IngestInv

(***************************************************************************)
(* The inductive invariant of the ingest service, whatever the webhooks,   *)
(* the failures and the order in which requests run.                       *)
(***************************************************************************)
THEOREM IngestCorrect == Spec => []IngestInv
  <1>1. ASSUME IngestInv, UNCHANGED vars PROVE IngestInv'
    BY <1>1, StutterStep
  <1>2. ASSUME IngestInv, Next PROVE IngestInv'
    BY <1>2, PushStep, CompleteCheckStep, NotifyStep, RequeueStep, ReceiveStep, FailStep,
       FetchStep, BuildStep, EventSteps, DecideStep, SaveStep, PublishCheckStep, FindStep,
       UpdateStep DEF Next, Step
  <1>3. QED
    BY IngestInit, <1>1, <1>2, PTL DEF Spec

(***************************************************************************)
(* The packet of the commit under review describes that commit, however    *)
(* pushes interleave with the two calls that read it: the diff is read     *)
(* after the head.                                                         *)
(***************************************************************************)
THEOREM CurrentPacketDescribesHeadHolds == Spec => []CurrentPacketDescribesHead
  <1>1. ASSUME IngestInv PROVE CurrentPacketDescribesHead
    <2> SUFFICES ASSUME NEW id \in Stored, packets[id].head = head
                 PROVE  packets[id].diff = head
      BY DEF CurrentPacketDescribesHead
    <2>1. StoreTypeOK /\ GitHubTypeOK /\ id \in PacketIDs /\ PacketInv(id)
      BY <1>1 DEF IngestInv, Stored
    <2>2. packets[id] \in Packet
      BY <2>1, StoredIsPacket
    <2>3. packets[id].diff \in Int /\ head \in Int
      BY <2>1, <2>2, Bounds DEF Packet, Commits, GitHubTypeOK
    <2>4. packets[id].head <= packets[id].diff /\ packets[id].diff <= head
      BY <2>1 DEF PacketInv, Stored
    <2>5. QED
      BY <2>3, <2>4
  <1>2. QED
    BY <1>1, IngestCorrect, PTL

(***************************************************************************)
(* A packet is announced, then stored, then shown on its own commit.       *)
(***************************************************************************)
THEOREM AnnouncedStoredShownHolds == Spec => []AnnouncedStoredShown
  <1>1. ASSUME IngestInv PROVE AnnouncedStoredShown
    <2>1. StoreTypeOK /\ PublishedInv
      BY <1>1 DEF IngestInv
    <2>2. ASSUME NEW id \in Stored
          PROVE  /\ IsPrefix(EventFlow, events[id])
                 /\ Last(events[id]) = "MergeLaneAssigned"
                 /\ packets[id].violated <=> Contains(events[id], "PolicyViolationDetected")
      <3>1. packets[id] \in Packet /\ PacketInv(id) /\ packets[id] # NoPacket
        BY <1>1, <2>1, StoredIsPacket DEF IngestInv, Stored
      <3>2. events[id] = Told("done", packets[id].violated) /\ packets[id].violated \in BOOLEAN
        BY <3>1 DEF PacketInv, Packet
      <3>3. QED
        BY <3>2, AnnouncedFacts
    <2>3. ASSUME NEW h \in Commits, published[h] # 0
          PROVE  published[h] \in Stored /\ packets[published[h]].head = h
      BY <2>1, <2>3, StoredIsPacket DEF PublishedInv, StoreTypeOK
    <2>4. QED
      BY <2>2, <2>3 DEF AnnouncedStoredShown
  <1>2. QED
    BY <1>1, IngestCorrect, PTL

(***************************************************************************)
(* Evidence comes only from the check that policy bound it to, on the      *)
(* packet's own pull request and commit.                                   *)
(***************************************************************************)
THEOREM EvidenceFromBoundCheckHolds == Spec => []EvidenceFromBoundCheck
  <1>1. IngestInv => EvidenceFromBoundCheck
    BY DEF IngestInv, PacketInv, Sourced, EvidenceFromBoundCheck
  <1>2. QED
    BY <1>1, IngestCorrect, PTL

(***************************************************************************)
(* A check run that was accepted has reached all its pull requests.        *)
(***************************************************************************)
THEOREM AcceptedCheckReachedAllHolds == Spec => []AcceptedCheckReachedAll
  <1>1. IngestInv => AcceptedCheckReachedAll
    BY DEF IngestInv, AcceptedInv, Reached, AcceptedCheckReachedAll, Deliveries
  <1>2. QED
    BY <1>1, IngestCorrect, PTL

-----------------------------------------------------------------------------
(* One request at a time, for one pull request. *)

Solo ==
    /\ \A v, w \in Workers : v = w
    /\ \A p, q \in PullRequests : p = q

\* The check of h shows, or is about to show, the packet that was updated last.
Shown(pr, h) ==
    /\ \A w \in Workers : pc[w] = "check" /\ packet[w].head = h =>
            packet[w].id \in FindLatestChangePacket(pr, h)
    /\ (\A w \in Workers : ~(pc[w] = "check" /\ packet[w].head = h)) =>
            published[h] \in FindLatestChangePacket(pr, h)

\* Nothing in the store is newer than the packet that is about to be saved.
LatestInv ==
    /\ failures \in Nat
    /\ \A id \in PacketIDs : packets[id] \in Packet => packets[id].updated <= clock
    /\ \A w \in Workers : pc[w] \in Finalizing => packet[w].updated = clock
    /\ failures = 0 => \A pr \in PullRequests, h \in Commits :
            PacketsFor(pr, h) # {} => Shown(pr, h)

LEMMA LatestFacts ==
    ASSUME StoreTypeOK, NEW pr, NEW h
    PROVE  /\ PacketsFor(pr, h) =
                {id \in PacketIDs : packets[id] \in Packet /\ packets[id].pr = pr
                                        /\ packets[id].head = h}
           /\ FindLatestChangePacket(pr, h) =
                {id \in PacketsFor(pr, h) :
                    \A other \in PacketsFor(pr, h) : packets[other].updated <= packets[id].updated}
  BY StoredIsPacket DEF PacketsFor, Stored, FindLatestChangePacket

LEMMA LatestFactsNext ==
    ASSUME StoreTypeOK', NEW pr, NEW h
    PROVE  /\ PacketsFor(pr, h)' =
                {id \in PacketIDs : packets'[id] \in Packet /\ packets'[id].pr = pr
                                        /\ packets'[id].head = h}
           /\ FindLatestChangePacket(pr, h)' =
                {id \in PacketsFor(pr, h)' :
                    \A other \in PacketsFor(pr, h)' : packets'[other].updated <= packets'[id].updated}
  <1>1. \A id \in PacketIDs : packets'[id] # NoPacket <=> packets'[id] \in Packet
    BY Bounds DEF StoreTypeOK
  <1>2. QED
    BY <1>1 DEF PacketsFor, Stored, FindLatestChangePacket

(***************************************************************************)
(* A step that stores nothing and publishes no check, unless it fails.     *)
(***************************************************************************)
LEMMA QuietStep ==
    ASSUME IngestInv, LatestInv, UNCHANGED <<packets, published, clock>>, failures' \in Nat,
           failures' = 0 =>
                /\ failures = 0
                /\ \A w \in Workers : pc[w] = "check" <=> pc'[w] = "check"
                /\ \A w \in Workers : pc[w] = "check" => packet'[w] = packet[w],
           \A w \in Workers : pc'[w] \in Finalizing => pc[w] \in Finalizing /\ packet'[w] = packet[w]
    PROVE  LatestInv'
  <1>1. \A pr \in PullRequests, h \in Commits :
            /\ PacketsFor(pr, h)' = PacketsFor(pr, h)
            /\ FindLatestChangePacket(pr, h)' = FindLatestChangePacket(pr, h)
    BY DEF PacketsFor, Stored, FindLatestChangePacket
  <1>2. ASSUME failures' = 0, NEW pr \in PullRequests, NEW h \in Commits, (PacketsFor(pr, h) # {})'
        PROVE  Shown(pr, h)'
    <2>1. Shown(pr, h)
      BY <1>1, <1>2 DEF LatestInv
    <2>2. \A w \in Workers : (pc'[w] = "check" /\ packet'[w].head = h) <=>
                             (pc[w] = "check" /\ packet[w].head = h)
      BY <1>2
    <2>3. QED
      BY <1>1, <1>2, <2>1, <2>2 DEF Shown
  <1>3. QED
    BY <1>2 DEF LatestInv

LEMMA GitHubIsQuiet ==
    ASSUME IngestInv, LatestInv,
           \/ Push
           \/ \E check \in Checks, result \in {"success", "failure"}, h \in Commits :
                CompleteCheck(check, result, h)
           \/ \E pr \in PullRequests : Notify(PullRequestHook(pr, "edited", head))
           \/ \E check \in Checks :
                Notify(CheckRunHook(check, "none", SetToSeq(PullRequests), head))
           \/ \E d \in Deliveries : Redeliver(d) \/ Duplicate(d) \/ Ignore(d)
    PROVE  LatestInv'
  <1>1. UNCHANGED <<packets, published, clock, failures, pc, packet>>
    BY DEF Push, CompleteCheck, Notify, Redeliver, Duplicate, Ignore, storeVars, localVars
  <1>2. QED
    BY <1>1, QuietStep DEF LatestInv

LEMMA HandlerIsQuiet ==
    ASSUME IngestInv, LatestInv, NEW w \in Workers,
           \/ \E d \in Deliveries : Receive(w, d)
           \/ FetchPullRequest(w) \/ BuildChangePacket(w) \/ EnrichMutations(w) \/ EnrichRisk(w)
           \/ PublishViolations(w) \/ PublishLane(w) \/ FindPacket(w)
    PROVE  LatestInv'
  <1>1. LocalTypeOK
    BY DEF IngestInv
  <1>2. PICK to : /\ pc' = [pc EXCEPT ![w] = to] /\ pc[w] # "check" /\ to # "check"
                  /\ to \in Finalizing => pc[w] \in Finalizing /\ UNCHANGED packet
                  /\ \A v \in Workers \ {w} : packet'[v] = packet[v]
    <2>1. CASE \E d \in Deliveries : Receive(w, d)
      BY <1>1, <2>1 DEF Receive, Finalizing
    <2>2. CASE FetchPullRequest(w) \/ BuildChangePacket(w)
      BY <1>1, <2>2 DEF FetchPullRequest, BuildChangePacket, Proceed, Finalizing, LocalTypeOK
    <2>3. CASE EnrichMutations(w) \/ EnrichRisk(w) \/ PublishViolations(w) \/ PublishLane(w)
      BY <1>1, <2>3 DEF EnrichMutations, EnrichRisk, PublishViolations, PublishLane, Proceed,
            Finalizing
    <2>4. CASE FindPacket(w)
      BY <1>1, <2>4 DEF FindPacket, NextPullRequest, Answer, Finalizing, LocalTypeOK
    <2>5. QED
      BY <2>1, <2>2, <2>3, <2>4
  <1>3. UNCHANGED <<packets, published, clock, failures>>
    BY DEF Receive, FetchPullRequest, BuildChangePacket, EnrichMutations, EnrichRisk,
          PublishViolations, PublishLane, FindPacket, githubVars, storeVars
  <1>4. \A v \in Workers : pc'[v] = IF v = w THEN to ELSE pc[v]
    BY <1>1, <1>2 DEF LocalTypeOK
  <1>5. QED
    BY <1>2, <1>3, <1>4, QuietStep DEF LatestInv

LEMMA FailureIsQuiet ==
    ASSUME IngestInv, LatestInv, NEW w \in Workers,
           \/ Fail(w)
           \/ /\ pc[w] = "update" /\ Answer(w, "failed")
              /\ UNCHANGED <<storeVars, clock, failures>>
    PROVE  LatestInv'
  <1>1. LocalTypeOK /\ failures \in Nat
    BY DEF IngestInv, LatestInv
  <1>2. UNCHANGED <<packets, published, clock>> /\ failures' \in Nat
    BY <1>1 DEF Fail, storeVars
  <1>3. Answer(w, "failed") /\ (failures' = 0 => failures = 0 /\ pc[w] = "update")
    BY <1>1 DEF Fail
  <1>4. \A v \in Workers : /\ pc'[v] = IF v = w THEN "idle" ELSE pc[v]
                           /\ v # w => packet'[v] = packet[v]
    BY <1>1, <1>3 DEF Answer, LocalTypeOK
  <1>5. QED
    BY <1>2, <1>3, <1>4, QuietStep DEF Finalizing

(***************************************************************************)
(* UpdatedAt is taken when the lane is assigned, and nobody else takes one *)
(* before the save.                                                        *)
(***************************************************************************)
LEMMA DecideLatest ==
    ASSUME Solo, IngestInv, LatestInv, NEW w \in Workers, Decide(w)
    PROVE  LatestInv'
  <1>1. StoreTypeOK /\ LocalTypeOK /\ clock \in Nat /\ pc[w] = "decide"
    BY DEF IngestInv, StoreTypeOK, Decide, Proceed
  <1>2. /\ clock' = clock + 1 /\ UNCHANGED <<packets, published, failures>>
        /\ packet'[w].updated = clock + 1
        /\ pc'[w] \in {"violations", "lane"}
    BY <1>1 DEF Decide, Proceed, githubVars, storeVars, LocalTypeOK
  <1>3. \A id \in PacketIDs : packets'[id] \in Packet => packets'[id].updated <= clock'
    BY <1>1, <1>2 DEF LatestInv, Packet
  <1>4. \A v \in Workers : pc'[v] \in Finalizing => packet'[v].updated = clock'
    BY <1>2 DEF Solo
  <1>5. \A pr \in PullRequests, h \in Commits :
            /\ PacketsFor(pr, h)' = PacketsFor(pr, h)
            /\ FindLatestChangePacket(pr, h)' = FindLatestChangePacket(pr, h)
    BY <1>2 DEF PacketsFor, Stored, FindLatestChangePacket
  <1>6. \A v \in Workers : pc[v] # "check" /\ pc'[v] # "check"
    BY <1>1, <1>2 DEF Solo
  <1>7. ASSUME failures' = 0, NEW pr \in PullRequests, NEW h \in Commits, (PacketsFor(pr, h) # {})'
        PROVE  Shown(pr, h)'
    <2>1. Shown(pr, h)
      BY <1>2, <1>5, <1>7 DEF LatestInv
    <2>2. QED
      BY <1>2, <1>5, <1>6, <2>1 DEF Shown
  <1>8. QED
    BY <1>2, <1>3, <1>4, <1>7 DEF LatestInv

\* The packet stored for id now carries the present time; no other has changed.
Stamped(id, now) ==
    /\ packets' = [packets EXCEPT ![id] = packets'[id]]
    /\ packets'[id] \in Packet /\ packets'[id].updated = now

LEMMA StampedIsLatest ==
    ASSUME Solo, IngestInv, LatestInv, StoreTypeOK', NEW id \in PacketIDs, Stamped(id, clock'),
           clock <= clock', packets[id] \in Packet => packets[id].head = packets'[id].head
    PROVE  /\ \A j \in PacketIDs : packets'[j] \in Packet => packets'[j].updated <= clock'
           /\ \A pr \in PullRequests :
                (id \in FindLatestChangePacket(pr, packets[id].head))'
           /\ \A pr \in PullRequests, h \in Commits : h # packets'[id].head =>
                /\ PacketsFor(pr, h)' = PacketsFor(pr, h)
                /\ FindLatestChangePacket(pr, h)' = FindLatestChangePacket(pr, h)
  <1>1. StoreTypeOK /\ clock \in Nat /\ clock' \in Nat
    BY DEF IngestInv, StoreTypeOK
  <1>2. PICK new \in Packet : new = packets'[id] /\ new.updated = clock' /\ new.pr \in PullRequests
    BY DEF Stamped, Packet
  <1>3. \A j \in PacketIDs \ {id} : packets'[j] = packets[j]
    BY <1>1 DEF Stamped, StoreTypeOK
  <1>4. \A j \in PacketIDs : packets'[j] \in Packet => packets'[j].updated <= clock'
    BY <1>1, <1>2, <1>3 DEF LatestInv, Packet
  <1>5. ASSUME NEW pr \in PullRequests
        PROVE  (id \in FindLatestChangePacket(pr, packets[id].head))'
    <2>1. PICK h : h = new.head
      OBVIOUS
    <2>2. PacketsFor(pr, h)' = {j \in PacketIDs : packets'[j] \in Packet /\ packets'[j].pr = pr
                                                        /\ packets'[j].head = h}
      BY LatestFactsNext
    <2>3. id \in PacketsFor(pr, h)'
      BY <1>2, <2>1, <2>2 DEF Solo
    <2>4. \A other \in PacketsFor(pr, h)' : packets'[other].updated <= packets'[id].updated
      BY <1>2, <1>4, <2>2
    <2>5. (id \in FindLatestChangePacket(pr, h))'
      BY <2>3, <2>4, LatestFactsNext
    <2>6. QED
      BY <1>2, <2>1, <2>5
  <1>6. ASSUME NEW pr \in PullRequests, NEW h \in Commits, h # packets'[id].head
        PROVE  /\ PacketsFor(pr, h)' = PacketsFor(pr, h)
               /\ FindLatestChangePacket(pr, h)' = FindLatestChangePacket(pr, h)
    <2>1. /\ PacketsFor(pr, h) =
                {j \in PacketIDs : packets[j] \in Packet /\ packets[j].pr = pr /\ packets[j].head = h}
          /\ PacketsFor(pr, h)' =
                {j \in PacketIDs : packets'[j] \in Packet /\ packets'[j].pr = pr
                                        /\ packets'[j].head = h}
      BY <1>1, LatestFacts, LatestFactsNext
    <2>2. PacketsFor(pr, h)' = PacketsFor(pr, h) /\ id \notin PacketsFor(pr, h)
      BY <1>3, <1>6, <2>1
    <2>3. \A j \in PacketsFor(pr, h) : packets'[j] = packets[j]
      BY <1>3, <2>1, <2>2
    <2>4. QED
      <3>1. FindLatestChangePacket(pr, h) =
                {j \in PacketsFor(pr, h) : \A other \in PacketsFor(pr, h) :
                    packets[other].updated <= packets[j].updated}
        BY <1>1, LatestFacts
      <3>2. FindLatestChangePacket(pr, h)' =
                {j \in PacketsFor(pr, h)' : \A other \in PacketsFor(pr, h)' :
                    packets'[other].updated <= packets'[j].updated}
        BY LatestFactsNext
      <3>3. QED
        BY <2>2, <2>3, <3>1, <3>2
  <1>7. QED
    BY <1>4, <1>5, <1>6

LEMMA SaveLatest ==
    ASSUME Solo, IngestInv, IngestInv', LatestInv, NEW w \in Workers, Save(w)
    PROVE  LatestInv'
  <1>1. StoreTypeOK /\ StoreTypeOK' /\ LocalTypeOK /\ DraftInv(w) /\ clock \in Nat /\ pc[w] = "save"
    BY DEF IngestInv, StoreTypeOK, Save, Proceed
  <1>2. PICK saved \in Packet : /\ saved = packet[w] /\ saved.id \in PacketIDs
                                /\ saved.updated = clock /\ packets[saved.id] = NoPacket
    BY <1>1 DEF DraftInv, LatestInv, Finalizing, Unsaved, Packet
  <1>3. /\ packets' = [packets EXCEPT ![saved.id] = saved] /\ pc'[w] = "check"
        /\ UNCHANGED <<published, clock, failures, packet>>
    BY <1>1, <1>2 DEF Save, Proceed, githubVars, LocalTypeOK
  <1>4. PICK id \in PacketIDs : id = saved.id
    BY <1>2
  <1>5. packets'[id] = saved /\ Stamped(id, clock') /\ packets[id] \notin Packet /\ clock <= clock'
    <2>1. packets'[id] = saved /\ packets' = [packets EXCEPT ![id] = saved]
      BY <1>1, <1>3, <1>4 DEF StoreTypeOK
    <2>2. packets[id] \notin Packet /\ clock <= clock' /\ saved.updated = clock'
      BY <1>1, <1>2, <1>3, <1>4, Bounds
    <2>3. QED
      BY <2>1, <2>2 DEF Stamped
  <1>6. /\ \A j \in PacketIDs : packets'[j] \in Packet => packets'[j].updated <= clock'
        /\ \A pr \in PullRequests : (id \in FindLatestChangePacket(pr, packets[id].head))'
        /\ \A pr \in PullRequests, h \in Commits : h # saved.head =>
            /\ PacketsFor(pr, h)' = PacketsFor(pr, h)
            /\ FindLatestChangePacket(pr, h)' = FindLatestChangePacket(pr, h)
    BY <1>1, <1>5, StampedIsLatest
  <1>7. ASSUME failures' = 0, NEW pr \in PullRequests, NEW h \in Commits, (PacketsFor(pr, h) # {})'
        PROVE  Shown(pr, h)'
    <2>1. CASE h = saved.head
      BY <1>2, <1>3, <1>4, <1>5, <1>6, <2>1 DEF Shown, Solo
    <2>2. CASE h # saved.head
      <3>1. Shown(pr, h)
        BY <1>3, <1>6, <1>7, <2>2 DEF LatestInv
      <3>2. \A v \in Workers : pc[v] # "check" /\ packet'[v].head = saved.head
        BY <1>1, <1>2, <1>3 DEF Solo
      <3>3. QED
        BY <1>3, <1>6, <2>2, <3>1, <3>2 DEF Shown
    <2>3. QED
      BY <2>1, <2>2
  <1>8. \A v \in Workers : pc'[v] \notin Finalizing
    BY <1>3 DEF Solo, Finalizing
  <1>9. QED
    BY <1>3, <1>6, <1>7, <1>8 DEF LatestInv

LEMMA PublishLatest ==
    ASSUME Solo, IngestInv, LatestInv, NEW w \in Workers, PublishCheck(w)
    PROVE  LatestInv'
  <1>1. StoreTypeOK /\ LocalTypeOK /\ DraftInv(w) /\ pc[w] = "check"
    BY DEF IngestInv, PublishCheck
  <1>2. packet[w].head \in Commits
    BY <1>1 DEF DraftInv, Packet
  <1>3. /\ published' = [published EXCEPT ![packet[w].head] = packet[w].id]
        /\ UNCHANGED <<packets, clock, failures>> /\ pc'[w] = "idle"
    BY <1>1 DEF PublishCheck, Answer, LocalTypeOK
  <1>4. \A pr \in PullRequests, h \in Commits :
            /\ PacketsFor(pr, h)' = PacketsFor(pr, h)
            /\ FindLatestChangePacket(pr, h)' = FindLatestChangePacket(pr, h)
    BY <1>3 DEF PacketsFor, Stored, FindLatestChangePacket
  <1>5. ASSUME failures' = 0, NEW pr \in PullRequests, NEW h \in Commits, (PacketsFor(pr, h) # {})'
        PROVE  Shown(pr, h)'
    <2>1. Shown(pr, h)
      BY <1>3, <1>4, <1>5 DEF LatestInv
    <2>2. published'[h] \in FindLatestChangePacket(pr, h)
      BY <1>1, <1>2, <1>3, <2>1 DEF Shown, Solo, StoreTypeOK
    <2>3. \A v \in Workers : pc'[v] # "check"
      BY <1>3 DEF Solo
    <2>4. QED
      BY <1>4, <2>2, <2>3 DEF Shown
  <1>6. \A v \in Workers : pc'[v] \notin Finalizing
    BY <1>3 DEF Solo, Finalizing
  <1>7. QED
    BY <1>3, <1>5, <1>6 DEF LatestInv

LEMMA UpdateLatest ==
    ASSUME Solo, IngestInv, IngestInv', LatestInv, NEW w \in Workers, UpdateEvidence(w)
    PROVE  LatestInv'
  <1>1. /\ StoreTypeOK /\ StoreTypeOK' /\ LocalTypeOK /\ MatchInv(w) /\ clock \in Nat
        /\ pc[w] = "update" /\ UNCHANGED failures
    BY DEF IngestInv, StoreTypeOK, UpdateEvidence
  <1>2. CASE Answer(w, "failed") /\ UNCHANGED <<storeVars, clock>>
    BY <1>1, <1>2, FailureIsQuiet
  <1>3. ASSUME ~(Answer(w, "failed") /\ UNCHANGED <<storeVars, clock>>)
        PROVE  LatestInv'
    <2>1. PICK id \in PacketIDs : id = target[w].id /\ packets[id] \in Packet
      BY <1>1 DEF MatchInv, Sourced
    <2>2. PICK rows : packets' = [packets EXCEPT ![id] = Recomputed(packets[id], rows, clock + 1)]
      BY <1>1, <1>3, <2>1 DEF UpdateEvidence, Recomputed, StoreTypeOK
    <2>3. /\ clock' = clock + 1 /\ NextPullRequest(w)
          /\ published' = [published EXCEPT ![packets[id].head] = id]
      BY <1>3, <2>1 DEF UpdateEvidence
    <2>4. PICK new \in Packet : /\ new = Recomputed(packets[id], rows, clock + 1)
                                /\ new.head = packets[id].head /\ new.updated = clock'
                                /\ new.head \in Commits
      <3>1. clock + 1 \in Nat
        BY <1>1
      <3>2. QED
        BY <2>1, <2>3, <3>1, ReconcileFacts DEF Packet
    <2>5. packets'[id] = new /\ Stamped(id, clock') /\ clock <= clock'
      BY <1>1, <2>2, <2>3, <2>4 DEF Stamped, StoreTypeOK
    <2>6. /\ \A j \in PacketIDs : packets'[j] \in Packet => packets'[j].updated <= clock'
          /\ \A pr \in PullRequests : (id \in FindLatestChangePacket(pr, packets[id].head))'
          /\ \A pr \in PullRequests, h \in Commits : h # new.head =>
              /\ PacketsFor(pr, h)' = PacketsFor(pr, h)
              /\ FindLatestChangePacket(pr, h)' = FindLatestChangePacket(pr, h)
      BY <1>1, <2>4, <2>5, StampedIsLatest
    <2>7. pc'[w] \in {"idle", "find"}
      BY <1>1, <2>3 DEF NextPullRequest, Answer, LocalTypeOK
    <2>8. ASSUME failures' = 0, NEW pr \in PullRequests, NEW h \in Commits,
                 (PacketsFor(pr, h) # {})'
          PROVE  Shown(pr, h)'
      <3>1. \A v \in Workers : pc[v] # "check" /\ pc'[v] # "check"
        BY <1>1, <2>7 DEF Solo
      <3>2. CASE h = new.head
        <4>1. published'[h] = id
          BY <1>1, <2>3, <2>4, <3>2 DEF StoreTypeOK
        <4>2. QED
          BY <2>5, <2>6, <3>1, <3>2, <4>1 DEF Shown
      <3>3. CASE h # new.head
        <4>1. Shown(pr, h)
          BY <1>1, <2>6, <2>8, <3>3 DEF LatestInv
        <4>2. published'[h] = published[h]
          BY <1>1, <2>3, <2>4, <3>3 DEF StoreTypeOK
        <4>3. QED
          BY <2>6, <3>1, <3>3, <4>1, <4>2 DEF Shown
      <3>4. QED
        BY <3>2, <3>3
    <2>9. \A v \in Workers : pc'[v] \notin Finalizing
      BY <2>7 DEF Solo, Finalizing
    <2>10. QED
      BY <1>1, <2>6, <2>8, <2>9 DEF LatestInv
  <1>4. QED
    BY <1>2, <1>3

(***************************************************************************)
(* With one request at a time for one pull request, and no errors, the     *)
(* check on a commit shows between requests the packet that check runs     *)
(* will update.                                                            *)
(***************************************************************************)
THEOREM SettledCheckShowsLatestHolds ==
    ASSUME Solo
    PROVE  Spec => []SettledCheckShowsLatest
  <1>1. Init => LatestInv
    <2> SUFFICES ASSUME Init PROVE LatestInv
      OBVIOUS
    <2>1. \A id \in PacketIDs : packets[id] = NoPacket
      BY DEF Init
    <2>2. \A pr \in PullRequests, h \in Commits : PacketsFor(pr, h) = {}
      BY <2>1 DEF PacketsFor, Stored
    <2>3. QED
      BY <2>1, <2>2, Bounds DEF Init, LatestInv, Finalizing
  <1>2. ASSUME IngestInv, IngestInv', LatestInv, [Next]_vars PROVE LatestInv'
    <2>1. CASE UNCHANGED vars
      BY <1>2, <2>1, QuietStep DEF vars, githubVars, storeVars, localVars, LatestInv
    <2>2. CASE Next
      BY <1>2, <2>2, GitHubIsQuiet, HandlerIsQuiet, FailureIsQuiet, DecideLatest, SaveLatest,
         PublishLatest, UpdateLatest DEF Next, Step
    <2>3. QED
      BY <1>2, <2>1, <2>2
  <1>3. LatestInv => SettledCheckShowsLatest
    BY DEF LatestInv, Shown, SettledCheckShowsLatest
  <1>4. QED
    BY <1>1, <1>2, <1>3, IngestCorrect, PTL DEF Spec

=============================================================================
