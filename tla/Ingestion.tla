------------------------------ MODULE Ingestion ------------------------------
(***************************************************************************)
(* The ingest service: GitHub's webhooks become Change Packets             *)
(* (ProcessPROpened) and evidence (ProcessCheckRun).  A worker is one HTTP *)
(* request in WebhookHandler.ServeHTTP.  GitHub is external: one branch,   *)
(* on which all PullRequests are open, whose head moves; checks that       *)
(* complete on a commit; a webhook for each, delivered in any order and    *)
(* perhaps again.  Commits never come back (no force-push to an old one).  *)
(*                                                                         *)
(* UpdateEvidenceExecution is one step here; what happens inside it is     *)
(* EvidenceService.                                                        *)
(***************************************************************************)
EXTENDS EvidenceLifecycle, Sequences, SequencesExt

CONSTANTS
    PullRequests,   \* pull requests of the branch
    Names,          \* evidence names
    Checks,         \* name-and-App pairs of GitHub check runs
    PolicyOf,       \* PolicyOf[commit]: what analysis and policy make of a diff
    Workers,        \* webhook requests handled at the same time
    NoPacket,
    MaxHead,        \* bound on the commits pushed
    MaxCheckRuns,   \* bound on the check runs that complete
    MaxIgnored,     \* bound on the webhooks the service has no use for
    MaxFailures,    \* bound on the calls that fail
    MaxRedeliveries,\* bound on the accepted webhooks delivered once more
    MaxReports      \* bound on the reports a packet has when webhooks are repeated

VARIABLES
    head,           \* the branch's head commit, 0 before the first push
    hooks,          \* the webhooks GitHub has sent, oldest first
    answer,         \* answer[d]: how far delivery d has come
    redeliveries,
    failures,
    packets,        \* packets[id]: the stored packet, or NoPacket
    executions,     \* executions[id][name]: the status of the evidence
    audit,          \* audit[id]: what check runs reported, oldest first
    published,      \* published[h]: the packet last shown by the check of h
    events,         \* events[id]: the types published for packet id
    created,        \* Change Packet identifiers given out
    clock,          \* time.Now, advanced by every timestamp taken
    pc,             \* pc[w]: the next call of w
    delivery,       \* delivery[w]: the webhook that w handles
    packet,         \* packet[w]: the packet under construction
    target,         \* target[w]: the packet a check run was matched with
    missed          \* missed[d]: the pull requests without a packet for d

githubVars == <<head, hooks, answer, redeliveries, failures>>
storeVars == <<packets, executions, audit, published>>
localVars == <<pc, delivery, packet, target>>
vars == <<githubVars, storeVars, events, created, clock, localVars, missed>>

-----------------------------------------------------------------------------

Commits == 1..MaxHead
MaxPackets == Cardinality(PullRequests) * MaxHead + MaxRedeliveries + MaxFailures
PacketIDs == 1..MaxPackets
MaxDeliveries == Cardinality(PullRequests) * MaxHead + MaxCheckRuns + MaxIgnored
Deliveries == DOMAIN hooks

Requirement == [name : Names, required : BOOLEAN, check : Checks \cup {"none"}]

\* What the stages from enrichMutations to applyPolicy make of a diff.
Policy == [status : DecisionStatus, minimumLane : Lane \cup {NoLane}, score : 0..100,
           reviewers : SUBSET [team : STRING, mandatory : BOOLEAN], canary : BOOLEAN,
           route : ConflictRoute, violated : BOOLEAN, evidence : SUBSET Requirement]

\* A packet with its decision and its lane.
Packet == [pr : PullRequests, head : Commits, diff : Commits, id : PacketIDs,
           status : DecisionStatus, minimumLane : Lane \cup {NoLane}, score : 0..100,
           reviewers : SUBSET [team : STRING, mandatory : BOOLEAN], canary : BOOLEAN,
           route : ConflictRoute, violated : BOOLEAN, evidence : SUBSET Requirement,
           lane : Lane, updated : Nat]

ASSUME IngestionConstants ==
    /\ PullRequests # {} /\ IsFiniteSet(PullRequests)
    /\ MaxHead \in Nat /\ MaxFailures \in Nat /\ MaxRedeliveries \in Nat
    /\ PolicyOf \in [Commits -> Policy]
    /\ NoPacket \notin Packet

Bound(requirement) == requirement.check # "none"

\* The two webhooks ServeHTTP acts on.
PullRequestHook(pr, action, h) ==
    [event |-> "pull_request", action |-> action, pr |-> pr, head |-> h]

CheckRunHook(check, conclusion, prs, h) ==
    [event |-> "check_run", check |-> check, conclusion |-> conclusion,
     prs |-> prs, head |-> h]

\* Faulty: only newly opened pull requests are processed.
handledOpened(hook) == hook.event = "pull_request" /\ hook.action = "opened"

handled(hook) ==
    hook.event = "pull_request" /\ hook.action \in {"opened", "reopened", "synchronize"}

\* A check run reports on evidence once it has completed.
reconciled(hook) == hook.event = "check_run" /\ hook.conclusion # "none"

Ignored(hook) == ~handled(hook) /\ ~reconciled(hook)

EventFlow == <<"PROpened", "ChangePacketCreated", "MutationDetected", "RiskAssigned">>

Init ==
    /\ head = 0 /\ hooks = <<>> /\ answer = <<>>
    /\ redeliveries = 0 /\ failures = 0
    /\ packets = [id \in PacketIDs |-> NoPacket]
    /\ executions = [id \in PacketIDs |-> [name \in Names |-> NoExecution]]
    /\ audit = [id \in PacketIDs |-> <<>>]
    /\ published = [h \in Commits |-> 0]
    /\ events = [id \in PacketIDs |-> <<>>]
    /\ created = 0 /\ clock = 0
    /\ pc = [w \in Workers |-> "idle"]
    /\ delivery = [w \in Workers |-> 0]
    /\ packet = [w \in Workers |-> NoPacket]
    /\ target = [w \in Workers |-> <<>>]
    /\ missed = <<>>

-----------------------------------------------------------------------------
(* GitHub. *)

Send(newHooks) ==
    /\ hooks' = hooks \o newHooks
    /\ answer' = answer \o [i \in 1..Len(newHooks) |-> "queued"]
    /\ missed' = missed \o [i \in 1..Len(newHooks) |-> {}]

\* A push moves the head of every pull request of the branch.
Push ==
    LET action == IF head = 0 THEN "opened" ELSE "synchronize"
        h == head + 1
        sent == SetToSeq({PullRequestHook(pr, action, h) : pr \in PullRequests})
    IN
    /\ head < MaxHead
    /\ head' = h
    /\ Send(sent)
    /\ UNCHANGED <<redeliveries, failures, storeVars, events, created, clock, localVars>>

CompleteCheck(check, result, h) ==
    /\ h \in 1..head
    /\ Cardinality({d \in Deliveries : reconciled(hooks[d])}) < MaxCheckRuns
    /\ Send(<<CheckRunHook(check, result, SetToSeq(PullRequests), h)>>)
    /\ UNCHANGED <<head, redeliveries, failures, storeVars, events, created, clock, localVars>>

\* A webhook of no interest: a title is edited, a check starts.
Notify(hook) ==
    /\ head > 0
    /\ Cardinality({d \in Deliveries : Ignored(hooks[d])}) < MaxIgnored
    /\ Send(<<hook>>)
    /\ UNCHANGED <<head, redeliveries, failures, storeVars, events, created, clock, localVars>>

\* A webhook answered with an error is delivered once more, on request.
Redeliver(d) ==
    /\ answer[d] = "failed"
    /\ \A id \in PacketIDs : Len(audit[id]) < MaxReports
    /\ answer' = [answer EXCEPT ![d] = "queued"]
    /\ UNCHANGED <<head, hooks, redeliveries, failures, storeVars, events, created, clock,
                   localVars, missed>>

\* So can be one that was accepted.
Duplicate(d) ==
    /\ answer[d] = "accepted"
    /\ redeliveries < MaxRedeliveries
    /\ redeliveries' = redeliveries + 1
    /\ answer' = [answer EXCEPT ![d] = "queued"]
    /\ UNCHANGED <<head, hooks, failures, storeVars, events, created, clock, localVars, missed>>

-----------------------------------------------------------------------------
(* The handler's frame. *)

Answer(w, how) ==
    /\ pc' = [pc EXCEPT ![w] = "idle"]
    /\ answer' = [answer EXCEPT ![delivery[w]] = how]
    /\ delivery' = [delivery EXCEPT ![w] = 0]
    /\ packet' = [packet EXCEPT ![w] = NoPacket]
    /\ target' = [target EXCEPT ![w] = <<>>]

evidenceStatusForCheckRun(result) ==
    IF result = "success" THEN "satisfied" ELSE "failed"

\* ServeHTTP up to the processor.
Receive(w, d) ==
    LET hook == hooks[d] IN
    /\ pc[w] = "idle" /\ answer[d] = "queued"
    /\ \/ /\ handled(hook)
          /\ pc' = [pc EXCEPT ![w] = "opened"]
          /\ UNCHANGED target
       \/ /\ reconciled(hook)
          /\ pc' = [pc EXCEPT ![w] = "find"]
          /\ target' = [target EXCEPT ![w] = [prs |-> hook.prs, id |-> 0, name |-> "none"]]
    /\ delivery' = [delivery EXCEPT ![w] = d]
    /\ answer' = [answer EXCEPT ![d] = "handling"]
    /\ UNCHANGED <<head, hooks, redeliveries, failures, storeVars, events, created, clock,
                   packet, missed>>

\* Everything else is accepted at once.
Ignore(d) ==
    /\ answer[d] = "queued" /\ Ignored(hooks[d])
    /\ answer' = [answer EXCEPT ![d] = "accepted"]
    /\ UNCHANGED <<head, hooks, redeliveries, failures, storeVars, events, created, clock,
                   localVars, missed>>

\* A call returns an error, which every caller passes on: 502.
Fail(w) ==
    /\ pc[w] # "idle"
    /\ failures < MaxFailures
    /\ failures' = failures + 1
    /\ Answer(w, "failed")
    /\ UNCHANGED <<head, hooks, redeliveries, storeVars, events, created, clock, missed>>

-----------------------------------------------------------------------------
(* ProcessPROpened. *)

Proceed(w, from, to) == pc[w] = from /\ pc' = [pc EXCEPT ![w] = to]

Emit(w, type) ==
    events' = [events EXCEPT ![packet[w].id] = Append(@, type)]

\* publishPROpened, and fetchPullRequest: when GitHub does not answer, the
\* payload's head is used instead.  The event names no packet.
FetchPullRequest(w) ==
    /\ Proceed(w, "opened", "build")
    /\ \E h \in {head, hooks[delivery[w]].head} :
        packet' = [packet EXCEPT ![w] = [pr |-> hooks[delivery[w]].pr, head |-> h]]
    /\ UNCHANGED <<githubVars, storeVars, events, created, clock, delivery, target, missed>>

\* Faulty: the diff is read before the head.
BuildWithHead(w) ==
    LET id == created + 1 IN
    /\ Proceed(w, "build", "mutations")
    /\ created < MaxPackets
    /\ created' = id
    /\ packet' = [packet EXCEPT ![w] =
            [pr |-> @.pr, head |-> head, diff |-> @.head, id |-> id]]
    /\ events' = [events EXCEPT ![id] = <<"PROpened", "ChangePacketCreated">>]
    /\ UNCHANGED <<githubVars, storeVars, clock, delivery, target, missed>>

\* The diff is GitHub's current one, whatever head has been read.
BuildChangePacket(w) ==
    LET id == created + 1 IN
    /\ Proceed(w, "build", "mutations")
    /\ created < MaxPackets
    /\ created' = id
    /\ packet' = [packet EXCEPT ![w] =
            [pr |-> @.pr, head |-> @.head, diff |-> head, id |-> id]]
    /\ events' = [events EXCEPT ![id] = <<"PROpened", "ChangePacketCreated">>]
    /\ UNCHANGED <<githubVars, storeVars, clock, delivery, target, missed>>

EnrichMutations(w) ==
    /\ Proceed(w, "mutations", "risk")
    /\ Emit(w, "MutationDetected")
    /\ UNCHANGED <<githubVars, storeVars, created, clock, delivery, packet, target, missed>>

\* enrichRuntimeImpact publishes nothing; enrichRisk does.
EnrichRisk(w) ==
    /\ Proceed(w, "risk", "decide")
    /\ Emit(w, "RiskAssigned")
    /\ UNCHANGED <<githubVars, storeVars, created, clock, delivery, packet, target, missed>>

\* applyPolicy and assignMergeLane: UpdatedAt is taken here, not at the save.
Decide(w) ==
    LET draft == packet[w]
        policy == PolicyOf[draft.diff]
    IN
    /\ Proceed(w, "decide", IF policy.violated THEN "violations" ELSE "lane")
    /\ clock' = clock + 1
    /\ packet' = [packet EXCEPT ![w] =
            [pr |-> draft.pr, head |-> draft.head, diff |-> draft.diff, id |-> draft.id,
             status |-> policy.status, minimumLane |-> policy.minimumLane,
             score |-> policy.score, reviewers |-> policy.reviewers,
             canary |-> policy.canary, route |-> policy.route, violated |-> policy.violated,
             evidence |-> policy.evidence, lane |-> Assign(policy), updated |-> clock + 1]]
    /\ UNCHANGED <<githubVars, storeVars, events, created, delivery, target, missed>>

\* finalize's events, before anything is stored.
PublishViolations(w) ==
    /\ Proceed(w, "violations", "lane")
    /\ Emit(w, "PolicyViolationDetected")
    /\ UNCHANGED <<githubVars, storeVars, created, clock, delivery, packet, target, missed>>

PublishLane(w) ==
    /\ Proceed(w, "lane", "save")
    /\ Emit(w, "MergeLaneAssigned")
    /\ UNCHANGED <<githubVars, storeVars, created, clock, delivery, packet, target, missed>>

\* Faulty: the check does not wait for the save.
SaveOrNot(w) ==
    /\ Proceed(w, "save", "check")
    /\ \/ UNCHANGED packets
       \/ packets' = [packets EXCEPT ![packet[w].id] = packet[w]]
    /\ UNCHANGED <<githubVars, executions, audit, published, events, created, clock, delivery,
                   packet, target, missed>>

Save(w) ==
    LET saved == packet[w] IN
    /\ Proceed(w, "save", "check")
    /\ packets' = [packets EXCEPT ![saved.id] = saved]
    /\ executions' = [executions EXCEPT ![saved.id] = [name \in Names |->
            IF findEvidenceRequirement(saved.evidence, name) # {} THEN "pending"
            ELSE NoExecution]]
    /\ UNCHANGED <<githubVars, audit, published, events, created, clock, delivery, packet,
                   target, missed>>

\* checks.Publish, and the answer.
PublishCheck(w) ==
    /\ pc[w] = "check"
    /\ published' = [published EXCEPT ![packet[w].head] = packet[w].id]
    /\ Answer(w, "accepted")
    /\ UNCHANGED <<head, hooks, redeliveries, failures, packets, executions, audit, events,
                   created, clock, missed>>

-----------------------------------------------------------------------------
(* ProcessCheckRun: one pull request after another. *)

\* Faulty: the packet is looked up without its commit.
LatestOfPullRequest(pr, h) ==
    LET found == {id \in PacketIDs : packets[id] # NoPacket /\ packets[id].pr = pr}
    IN  {id \in found : \A other \in found : packets[other].updated <= packets[id].updated}

\* Faulty: the first packet of the commit is kept.
FindFirst(pr, h) ==
    LET found == {id \in PacketIDs :
            packets[id] # NoPacket /\ packets[id].pr = pr /\ packets[id].head = h}
    IN  {id \in found : \A other \in found : id <= other}

FindLatestChangePacket(pr, h) ==
    LET found == {id \in PacketIDs :
            packets[id] # NoPacket /\ packets[id].pr = pr /\ packets[id].head = h}
    IN  {id \in found : \A other \in found : packets[other].updated <= packets[id].updated}

matchingEvidenceRequirement(evidence, check) ==
    {requirement \in evidence : Bound(requirement) /\ requirement.check = check}

\* The loop's next pull request, or the end of the request.
NextPullRequest(w) ==
    LET rest == Tail(target[w].prs) IN
    \/ /\ rest = <<>>
       /\ Answer(w, "accepted")
    \/ /\ rest # <<>>
       /\ pc' = [pc EXCEPT ![w] = "find"]
       /\ target' = [target EXCEPT ![w] = [prs |-> rest, id |-> 0, name |-> "none"]]
       /\ UNCHANGED <<answer, delivery, packet>>

\* reconcileCheckRunForPullRequest up to the call of the control plane.
FindPacket(w) ==
    LET hook == hooks[delivery[w]]
        latest == FindLatestChangePacket(Head(target[w].prs), hook.head)
    IN
    /\ pc[w] = "find"
    /\ \/ /\ latest = {}
          /\ missed' = [missed EXCEPT ![delivery[w]] = @ \cup {Head(target[w].prs)}]
          /\ NextPullRequest(w)
       \/ \E id \in latest :
          LET matching == matchingEvidenceRequirement(packets[id].evidence, hook.check) IN
          /\ UNCHANGED missed
          /\ \/ matching = {} /\ NextPullRequest(w)
             \/ \E requirement \in matching :
                /\ pc' = [pc EXCEPT ![w] = "update"]
                /\ target' = [target EXCEPT ![w] =
                        [prs |-> @.prs, id |-> id, name |-> requirement.name]]
                /\ UNCHANGED <<answer, delivery, packet>>
    /\ UNCHANGED <<head, hooks, redeliveries, failures, storeVars, events, created, clock>>

\* Faulty: a refused update is logged and the loop goes on.
UpdateOrSkip(w) ==
    LET id == target[w].id
        name == target[w].name
        to == evidenceStatusForCheckRun(hooks[delivery[w]].conclusion)
    IN
    /\ pc[w] = "update"
    /\ NextPullRequest(w)
    /\ canTransitionEvidence(executions[id][name], to)
          => /\ executions' = [executions EXCEPT ![id][name] = to]
             /\ audit' = [audit EXCEPT ![id] = Append(@, [name |-> name, from |-> delivery[w]])]
             /\ published' = [published EXCEPT ![packets[id].head] = id]
    /\ ~canTransitionEvidence(executions[id][name], to)
          => UNCHANGED <<executions, audit, published>>
    /\ UNCHANGED <<head, hooks, redeliveries, failures, packets, events, created, clock, missed>>

\* UpdateEvidenceExecution; a refused transition is an error like any other.
UpdateEvidence(w) ==
    LET id == target[w].id
        name == target[w].name
        to == evidenceStatusForCheckRun(hooks[delivery[w]].conclusion)
        after == [executions[id] EXCEPT ![name] = to]
    IN
    /\ pc[w] = "update"
    /\ \/ /\ canTransitionEvidence(executions[id][name], to)
          /\ executions' = [executions EXCEPT ![id] = after]
          /\ audit' = [audit EXCEPT ![id] = Append(@, [name |-> name, from |-> delivery[w]])]
          /\ clock' = clock + 1
          /\ packets' = [packets EXCEPT ![id] =
                [reconcileDecision(@, after) EXCEPT !.updated = clock + 1]]
          /\ published' = [published EXCEPT ![packets[id].head] = id]
          /\ NextPullRequest(w)
       \/ /\ ~canTransitionEvidence(executions[id][name], to)
          /\ Answer(w, "failed")
          /\ UNCHANGED <<storeVars, clock>>
    /\ UNCHANGED <<head, hooks, redeliveries, failures, events, created, missed>>

-----------------------------------------------------------------------------

Step(w) ==
    \/ FetchPullRequest(w) \/ BuildChangePacket(w) \/ EnrichMutations(w) \/ EnrichRisk(w)
    \/ Decide(w) \/ PublishViolations(w) \/ PublishLane(w) \/ Save(w) \/ PublishCheck(w)
    \/ FindPacket(w) \/ UpdateEvidence(w)

Next ==
    \/ Push
    \/ \E check \in Checks, result \in {"success", "failure"}, h \in Commits :
        CompleteCheck(check, result, h)
    \/ \E pr \in PullRequests : Notify(PullRequestHook(pr, "edited", head))
    \/ \E check \in Checks : Notify(CheckRunHook(check, "none", SetToSeq(PullRequests), head))
    \/ \E d \in Deliveries :
        Redeliver(d) \/ Duplicate(d) \/ Ignore(d) \/ \E w \in Workers : Receive(w, d)
    \/ \E w \in Workers : Step(w) \/ Fail(w)

Spec == Init /\ [][Next]_vars

(***************************************************************************)
(* Every request runs in a goroutine of its own, so each webhook delivered *)
(* is received (a worker is free again and again) and each handler runs on *)
(* until it answers; a webhook answered with an error is redelivered.      *)
(***************************************************************************)
FairSpec ==
    /\ Spec
    /\ \A w \in Workers : WF_vars(Step(w))
    /\ \A d \in 1..MaxDeliveries :
        /\ SF_vars(d \in Deliveries /\ \E w \in Workers : Receive(w, d))
        /\ WF_vars(d \in Deliveries /\ Redeliver(d))

-----------------------------------------------------------------------------
(* Properties. *)

Stored == {id \in PacketIDs : packets[id] # NoPacket}

PacketsFor(pr, h) == {id \in Stored : packets[id].pr = pr /\ packets[id].head = h}

Binds(id, check) == matchingEvidenceRequirement(packets[id].evidence, check) # {}

(***************************************************************************)
(* The packet of the commit under review describes that commit: a stored   *)
(* packet that carries the branch's head was built from that head's diff,  *)
(* although the pull request and its diff are read in two calls between    *)
(* which the head can move, and although the head may come from an old     *)
(* webhook.  (A packet of a superseded commit may carry a newer diff.)     *)
(***************************************************************************)
CurrentPacketDescribesHead ==
    \A id \in Stored : packets[id].head = head => packets[id].diff = head

(***************************************************************************)
(* A packet is announced, then stored, then shown, whichever of the calls  *)
(* in finalize fails and is repeated: subscribers have been told of every  *)
(* packet in the store, of its lane, and of its violations exactly when it *)
(* has any; the check on a commit shows a stored packet of that commit     *)
(* ("Persist before creating the GitHub check run").                       *)
(***************************************************************************)
AnnouncedStoredShown ==
    /\ \A id \in Stored :
        /\ IsPrefix(EventFlow, events[id])
        /\ Last(events[id]) = "MergeLaneAssigned"
        /\ packets[id].violated <=> Contains(events[id], "PolicyViolationDetected")
    /\ \A h \in Commits : published[h] # 0 =>
        published[h] \in Stored /\ packets[published[h]].head = h

(***************************************************************************)
(* Evidence comes only from where policy bound it: whatever a check run    *)
(* has reported was reported on the packet's own pull request and commit   *)
(* and by the check that policy binds the evidence to (ProcessCheckRun).   *)
(***************************************************************************)
EvidenceFromBoundCheck ==
    \A id \in PacketIDs : \A k \in DOMAIN audit[id] :
        LET hook == hooks[audit[id][k].from] IN
        /\ hook.head = packets[id].head
        /\ Contains(hook.prs, packets[id].pr)
        /\ \E requirement \in packets[id].evidence :
            requirement.name = audit[id][k].name /\ requirement.check = hook.check

(***************************************************************************)
(* A check run that was accepted has reached all its pull requests: it is  *)
(* recorded on a packet of each of them, unless there was no packet yet or *)
(* one whose evidence is not bound to it.  The loop of ProcessCheckRun     *)
(* ends early only with an error, so that a redelivery finishes it.        *)
(***************************************************************************)
AcceptedCheckReachedAll ==
    \A d \in Deliveries : reconciled(hooks[d]) /\ answer[d] = "accepted" =>
        \A i \in DOMAIN hooks[d].prs :
            LET pr == hooks[d].prs[i] IN
            \/ pr \in missed[d]
            \/ \E id \in PacketsFor(pr, hooks[d].head) :
                \/ \E k \in DOMAIN audit[id] : audit[id][k].from = d
                \/ ~Binds(id, hooks[d].check)

(***************************************************************************)
(* With one request at a time and no errors, the check on a commit shows   *)
(* between requests the packet that check runs for it will update, however *)
(* many packets duplicate and late webhooks have made for that commit:     *)
(* UpdatedAt, by which FindLatestChangePacket chooses, is taken in the     *)
(* order in which checks are published.                                    *)
(***************************************************************************)
SettledCheckShowsLatest ==
    failures = 0 /\ (\A w \in Workers : pc[w] = "idle") =>
        \A pr \in PullRequests, h \in Commits :
            PacketsFor(pr, h) # {} => published[h] \in FindLatestChangePacket(pr, h)

(***************************************************************************)
(* Every pull request ends up with a packet for its current commit,        *)
(* whatever was lost to errors on the way.                                 *)
(***************************************************************************)
HeadGetsPacket ==
    <>[](head > 0 => \A pr \in PullRequests : PacketsFor(pr, head) # {})

(***************************************************************************)
(* api/README.md: "`success` satisfies it".  A successful check run that   *)
(* found its packet leaves the evidence bound to it satisfied.             *)
(***************************************************************************)
SuccessSatisfies ==
    \A d \in Deliveries :
        /\ hooks[d].event = "check_run" /\ hooks[d].conclusion = "success"
        /\ answer[d] \in {"accepted", "failed"} /\ missed[d] = {}
        => \A i \in DOMAIN hooks[d].prs :
            \A id \in FindLatestChangePacket(hooks[d].prs[i], hooks[d].head) :
                \A requirement \in matchingEvidenceRequirement(packets[id].evidence, hooks[d].check) :
                    executions[id][requirement.name] \in Complete

(***************************************************************************)
(* The same over time, for a check run that may complete before the packet *)
(* of its commit is stored.                                                *)
(***************************************************************************)
SuccessEventuallySatisfies ==
    \A h \in Commits : \A pr \in PullRequests :
        (\E d \in Deliveries :
            /\ hooks[d].event = "check_run" /\ hooks[d].conclusion = "success"
            /\ hooks[d].head = h
            /\ \E id \in PacketsFor(pr, h) : Binds(id, hooks[d].check))
        ~> (\E id \in PacketsFor(pr, h), name \in Names : executions[id][name] \in Complete)

(***************************************************************************)
(* docs/flows/github-webhook-flow.md: MergeLaneAssigned is step 13,        *)
(* PolicyViolationDetected step 14.                                        *)
(***************************************************************************)
EventsFollowFlow ==
    \A id \in PacketIDs : \A k \in DOMAIN events[id] :
        events[id][k] = "PolicyViolationDetected" =>
            \E j \in 1..k : events[id][j] = "MergeLaneAssigned"

=============================================================================
