# A formal model of MergeR change control

MergeR receives pull requests from GitHub, turns each into a *Change Packet*,
evaluates risk and policy on it, assigns a merge lane (`GREEN`, `YELLOW`, `RED`,
`BLACK`), publishes a GitHub check, and then keeps decision, lane and check in
step with the evidence that people, API clients and CI report. This directory
models the parts of it that decide, checks them with TLC on small instances and
proves the most important properties with TLAPS for all instances.

## 1. Inventory

| Component (under `internal/`) | State it keeps | Operations | Interacts with |
|---|---|---|---|
| `ingest` | none of its own (a packet under construction per webhook) | `ProcessPROpened`: fetch PR and diff, classify mutations, runtime impact, conflict, risk, policy, lane, save, publish; `ProcessCheckRun`: find latest packet of the head, match the binding, update evidence | GitHub, event bus, store, control-plane service |
| `controlplane` | none of its own (the store) | `UpdateEvidenceExecution`, `reconcileDecision`, packet views, deployment outcomes, calibration report | store, lanes, checks; called by HTTP, gRPC and `ingest` |
| `store` | packets, evidence executions, audit entries, events, deployment outcomes | save, get, find latest, list, record evidence update; memory (one mutex) and Postgres (one transaction each) | shared by the ingest and the control-plane process |
| `policy` | configuration | validate, match, fold the matched rules into one evaluation | called by `ingest` and `scan` |
| `lanes` | thresholds | `Assign` | called by `ingest`, `controlplane`, `scan` |
| `checks` | none | publish a check run for a packet | GitHub |
| `risk`, `conflictrisk`, `mutations`, `runtimegraph` | none | scoring and classification of a packet | called by `ingest` and `scan` |
| `events` | subscribers; recorded events | publish, subscribe, record | all services |
| `github` | installation-token cache | fetch PR, diff, contents; create check run; decode webhooks | `ingest`, `checks` |
| `access`, `controlplane/http.go`, `controlplanegrpc` | none | authenticate, authorize, route, validate, map errors | in front of `controlplane` |
| `mcpserver` | a session: initialized or not | one line in, at most one out; tools on packets, scan, validate | the client's pipe |
| `scan`, `resolve`, `cli` | none (the working tree) | `init`, `validate`, `scan`: find and load configuration and policy, analyse a diff, gate on its lane | shares the tree with editors and other commands |
| `config`, `bootstrap`, `app`, `cmd` | the servers of a process | load, validate, construct, run, shut down | every other part |
| `telemetry`, `pkg` | none | logging, identifiers, diff parser, re-exports | |

**What is hard.** Two processes (ingest and control plane) share the store and
GitHub, and every HTTP request runs in a goroutine of its own. No operation
holds a lock or a transaction across two store calls: `UpdateEvidenceExecution`
reads the packet, reads the status, records the update, reads all statuses,
saves the whole packet and publishes a check, in six separate calls, any of
which can fail after the ones before it have taken effect. Webhooks are
delivered at least once and in any order. The rules of a policy file are folded
in file order into one decision.

**What makes each component correct.**

* Evidence updates: the audit trail explains the current statuses; approvals and
  successful checks rest on evidence; blocked stays blocked; a stale copy never
  loses a requirement; a failed call can be repeated; complete evidence is
  eventually approved.
* Lanes: never laxer than the decision and the minimum lane.
* Policy: what is required depends on which rules match, not on their order;
  approved means unconstrained; one check settles one piece of evidence.
* Ingestion: what is saved describes the commit it names; a check run reaches
  the packet it is about, whatever the order of deliveries.
* Store and reads: a view put together from several reads explains itself, on
  both backends.
* Events: what is on record was delivered or will be; a closed bus is quiet.
* Analysis: the result depends on the change, not on the order of its files; a
  wider change is never safer; conflicts reach a human; the graph traversal
  finds what is reachable within its depth.
* Access: no update without a writer, whatever the transport and the path.
* GitHub authentication: no expired token is used, nobody waits forever.
* Start and stop: what validates can be built; Run and Shutdown end together.
* Local tools: what validates runs; every MCP request is answered, and the tools
  tell one story of a packet.

`PROJECT.json` lists the hazards one by one with the lines where they bite.

## 2. Modules

```
MergeLanes          lanes.ThresholdAssigner
  EvidenceLifecycle pure helpers of controlplane/service.go
    ChangeStore     store.Repository: packets, executions, audit trail
      EvidenceService        UpdateEvidenceExecution, its callers and GitHub
        EvidenceRefinement   EvidenceService implements EvidenceLedger
          MCEvidenceService
        ControlPlaneReads    packet views and deployment outcomes beside updates
          MCControlPlaneReads
        EvidenceProofs       about the three modules above
    Ingestion       webhooks, pipeline, check_run reconciliation
      IngestionProofs
      MCIngestion
  ChangeAnalysis    mutations, conflictrisk, risk, lane; service and scan
  PolicyEngine      policy.RuleEngine.Evaluate
    MCPolicyEngine
EvidenceLedger      what the control plane promises (abstract)
Calibration         RiskCalibrationReport
EventBus            MemoryBus, NATSBus, RecordingBus
  EventBusProofs
Access              static tokens, JWTs, roles
  ControlPlaneAPI   HTTP and gRPC side by side
    ControlPlaneAPIProofs
  Startup           validators, constructors, App.Run, App.Shutdown
    StartupProofs
    MCStartup
RuntimeGraph        ResolveImpact and the graph traversal
TokenCache          AppAuthenticator.Token and its callers
  TokenCacheProofs
McpServer           the MCP session and its tools
LocalTools          init, validate, scan and their MCP counterparts
  MCLocalTools

AnalysisProofs      about PolicyEngine, ChangeAnalysis, RuntimeGraph, Calibration
ToolsProofs         about LocalTools, McpServer

MCControlPlane      Startup (MCStartup), ControlPlaneAPI, EventBus
MCAnalysis          PolicyEngine (MCPolicyEngine), ChangeAnalysis
                    (MCChangeInputs), RuntimeGraph, Calibration
MCTools             LocalTools (MCLocalTools), McpServer
```

An `MC*` module gives the constants of its module their values for TLC. The last
three put modules that share no state into one run: a variable `part` says which
module a behaviour belongs to, the variables of the others keep their first value
or `Off`, and each module's next-state relation and fairness are guarded by its
part. The modules are extended, not instantiated, so that a run checks the very
property a theorem states. Nothing is composed there; a behaviour of the run is
a behaviour of one of the modules.

Definitions named *Faulty* in their comment are variants of the definition that
follows, each with a plausible mistake; replacing the definition by its variant
makes one of the properties fail. No specification uses them.

**`EvidenceService`.** One worker is one running call of
`UpdateEvidenceExecution`. `pc[w]` is the next call it makes; `input[w]` the
request; `packet[w]` the local copy of the Change Packet (the Go variable
`packet`); `from[w]` the local `currentStatus`.

| Action | Code |
|---|---|
| `Submit` | entry and validation, `service.go:178-193` |
| `GetChangePacket` | `:195-206`, with both not-found answers |
| `ReadStatus` | `:208-218`, with the refused transition |
| `RecordUpdate` | `:220-237`; execution and audit entry in one transaction |
| `Reconcile` | `:244-266`: list executions, then decide and assign the lane on the copy |
| `SavePacket` | `:268-270`, which also synchronises the execution rows |
| `PublishWithEvidence` | `:271-275` and `checks/publisher.go:33-68` |
| `Fail`, `PublishUnacknowledged` | any of the calls returns an error, or the process stops; GitHub may have created the check although the caller saw an error |
| `Retry` | the client, or GitHub's redelivery, repeats a call that failed (external) |
| `IngestSave`, `IngestPublish` | the two last steps of `ingest.finalize` |

Each store method is one action because each runs under the repository's mutex
or in one SQL statement or transaction. `published[head]` is the conclusion of
the newest check run named `merger/change-control`, which is what GitHub shows.
`PacketOf` is the packet ingestion builds; `PacketsFromPolicy` assumes of it
what policy and lane assignment guarantee. Its second part is the theorem
`ApprovedIsUnconstrainedHolds` about `PolicyEngine`.

A check run's update enters through `Submit` with a GitHub App as actor; its
metadata (check run, App, commit) is one of two values, present or not.

**`EvidenceLedger`** is the abstract counterpart: a trail of reports per packet
and its standing. Three steps: `Open`, `Report`, `Conclude`. An approval must be
justified by some prefix of the trail, blocked is for ever, a waiver names its
actor. `EvidenceRefinement` maps the audit trail to the ledger's trail and the
stored status to its standing.

**`ControlPlaneReads`** adds to every step of `EvidenceService` the other calls
of the service: a packet view (`GetChangePacket`: packet, executions, audit
list, in three store calls) and a deployment outcome (read the packet, save the
outcome with its lane). Audit entries get their `OccurredAt` in a step before
the transaction that stores them, which matters for the PostgreSQL list:
`Listings` are the orders in which a backend may list the entries. A list that
is cut off at its limit need not explain anything.

**`Ingestion`.** A worker is one webhook request. `FetchPullRequest`,
`BuildChangePacket` (which reads the diff), `EnrichMutations`, `EnrichRisk`,
`Decide`, `PublishViolations`, `PublishLane`, `Save`, `PublishCheck` are the
stages of `ProcessPROpened` in the code's order; `FindPacket` and
`UpdateEvidence` are the two calls of `ProcessCheckRun` per pull request. A call
may fail anywhere (`Fail`), which answers the webhook with an error; GitHub
(external) then repeats it, and may also repeat an accepted one. The head moves
between any two steps. An evidence update is one step here. `PolicyOf` says
what policy makes of a commit; `IngestionConstants` types it.

**`EventBus`.** A behaviour is one of either backend. The bus keeps a list of
handlers per event type. `MemoryPublish` takes the read lock and the handlers of
the type, `CallHandler` runs one of them, `MemoryClose` and `MemorySubscribe` need
the write lock. For NATS the code names one durable consumer per event type: a
second `Subscribe` to a type that has a handler is an error, and the stream keeps
an event for the consumer of its type until `Consume` acknowledges it. A crash
of the subscriber loses nothing that is not acknowledged. `NATSClose` drains,
which may delete the consumers and what is kept for them, so nothing is claimed
about a `NATSBus` after that. `Record` is `RecordingBus`'s second step.

**`Access`, `ControlPlaneAPI`, `Startup`.** A text is its word and whether there
is white space around it; a JSON value is a record with its kind. From these,
`StaticAuthenticate` and `JWTAuthenticate` compute the principal as the code
does. `ControlPlaneAPI` makes the same call over both transports (`ServeHTTP`,
`AccessUnaryServerInterceptor`) and compares the answers (`Corresponding` pairs
the HTTP statuses with the gRPC codes); it also sends HTTP requests that are the
form of no call (extra segments, trailing slashes, dot segments, other methods).
An id or a name is the sequence of its pieces between slashes; a client puts it
into the path with its slashes escaped (`Form`, `Escaped`), the mux cleans the
path as it is written (`Unclean`), the handlers split the decoded one
(`PathParts`). A body fits or is over 64 KiB (`large`), and a caller presents any
number of Authorization values, of which each transport takes its own
(`HeaderGet`, `authorizationFromMetadata`). `Startup`
runs the validators and then the constructors in the order of each `main`, which
may disagree (a padded `private_key_path` passes validation, which trims it, and
fails in `NewAppAuthenticator`, which does not), and then `App.Run` with the two
servers, the channel of two, RPCs in flight and `Shutdown` in its three steps:
`GracefulStop` begins, it returns, the HTTP server stops.

**`ChangeAnalysis`.** A file is what rules and analyzers find in it. A job reads
its files one by one (`ReadFile`) and adds what it finds in each to the map of
mutations, in any order (`AddMutation`); then it scores conflict and risk and
assigns the lane. Numbers (weights, caps, bands) are the code's. Two jobs run
side by side, so that two analyses can be compared: a change and a wider one, a service and a
scan, an analysis and its repetition.

**`RuntimeGraph`.** One step per source and one per pass of the traversal loop;
`Within` is the reference definition: the nodes that a walk of at most that many
edges joins to a touched one.

**`TokenCache`.** One step per lock, request, answer and use; `Tick` advances
time no further than the slowest request allows; the two clocks differ by a
constant.

**`McpServer`, `LocalTools`.** A session reads lines until its input ends, by EOF
or another error (`readErr`), with or without a newline after the last line
(`bare`: that line then comes together with the error, and `ServeLine` handles it
before it acts on the error). Writing a response may fail, which ends `Serve`.
A command is a sequence of looks at the tree, which others change in between;
the CLI's `scan` first looks at its own arguments (`ReadDiff`), and may fail on a
diff it cannot parse or an output file it cannot write.

**`PolicyEngine`.** `Evaluate` as a loop: `Begin` validates, `SkipRule` and
`ApplyRule` are the two outcomes of an iteration, `Finish` ends it. Lists of
reviewers and evidence are sets and a function from names to bindings, since the
code keeps them free of duplicates. Names of teams stand for their case-folded
form. A path pattern is a token that a change touches or not.

**Abstractions.** Summaries, reasons, URLs, deployment environments and the
rollback-plan flag are left out; a head commit, a name, an actor is a model
value; a timestamp is its place in an order where something depends on it; the
risk score is a number.

## 3. Runs

| Run | Instance | Shows |
|---|---|---|
| `concurrent_updates` | 2 workers, a pending packet, its score exactly at the threshold, with 2 pieces of evidence and a blocked one, 2 requests, 1 failure, PostgreSQL | `TypeOK`, `AuditExplainsStatus`, `LaneFollowsDecision`, `SuccessHasWitness`, `ImplementsLedger` |
| `sole_reporter` | 2 workers, 2 pieces, 3 requests; overlapping calls are about different evidence; a view, an outcome; PostgreSQL | `GreenIsBacked`, `SuccessIsBacked`, `LifecycleRespected`, `AuditIsChain`, `ViewIsExplained` |
| `retry` | 1 worker, 2 pieces, 3 requests, 2 failures, clients repeat failed calls, memory | `SettledDecisionIsCurrent`, `CompleteEvidenceIsApproved` |
| `ingest_heads` | 2 workers, 2 commits, a check run, 1 failure, 1 repeated delivery | `CurrentPacketDescribesHead`, `AnnouncedStoredShown`, `EvidenceFromBoundCheck` |
| `ingest_checks` | 1 worker, 2 pull requests, 2 check runs of 2 checks, 1 failure, a webhook of no interest | `AcceptedCheckReachedAll` |
| `ingest_live` | 1 worker, 2 commits, a check run, 1 failure, 1 repeated delivery | `SettledCheckShowsLatest`, `HeadGetsPacket` |
| `token_cache` | 2 callers, the local clock ahead, requests that take 2 units, 9 units, 1 failure | `NoExpiredCall`, `JWTIsTimely`, `EveryoneServed` |
| `control_plane` | access, lane, event and GitHub settings, right and wrong, and environments; two servers, an RPC, failures, a shutdown at any time | `ValidConfigServes`, `RunOutlivesServers`, `ShutdownEndsRun` |
| | every call by callers of every role, none and two values, ids and names with slashes and dots, large bodies, limits around 1, 50 and 200; requests of no call; JWTs with claims of every form | `UpdateNeedsWriter`, `TransportsAgree` |
| | 2 publishers, 3 subscribers (two of them of one type), 2 event types, both backends, 2 failures, 1 crash | `ClosedIsQuiet`, `RecordedIsDelivered`, `PublishedIsHandled` |
| `analysis` | all sequences of up to 3 of 12 rules, 16 changes | `RequirementsOrderFree`, `ApprovedIsUnconstrained` |
| | a change and one with a file more, 2 jobs, contents that do not load, analyzers that fail | `ClassifyIsMaximum`, `WiderChangeIsNoSafer`, `ConflictsAreRouted` |
| | manifests with chains, cycles and edges to undeclared nodes, depths around the diameter | `TraversalExact`, `ResolutionEnds` |
| | 7 outcomes, a limit of 6, 2 keys | `AdverseNeverCalms` |
| `tools` | 2 actors, 2 commands (with wrong flags, unreadable and unparsable diffs among them), 1 edit, three kinds of tree | `ValidatedScanRuns` |
| | sessions of 3 lines of every kind; of 3 tool calls on packets of 4 kinds; input that ends in EOF or an error, with or without a last newline; failing writes | `AllAnswered`, `ToolsAgree` |
| `same_evidence_race` | 2 workers, 1 piece, 3 requests, any of them overlapping | **violated**: `GreenIsBacked` |
| `policy_block` | up to 2 rules | **violated**: `ViolationBlocks` |

`MaxRequests`, `MaxFailures` and the other constants called `Max...` bound what
the environment does. Two overlapping calls are the smallest number at which a
read goes stale, a third request sees what two overlapping ones left, and two
failures let a repeated call fail again. Two pieces of evidence are needed for
decisions that differ on which of them is complete; two commits for a head that
moves; two pull requests for a loop that stops half-way. The calibration
thresholds lie at 5 samples and 1 in 5, which seven outcomes pass. Deadlock
checking is off: with its requests used up, or an evaluation finished, the
system rightly stops. Workers are interchangeable, so the safety runs with two
of them use symmetry; the runs with a liveness property do not.

**Limits of what the passing runs say.**

* `WiderChangeIsNoSafer` leaves out kinds that only external analyzers report:
  they have no weight, score 0, and replace the "unknown" mutation. It also
  leaves out policies that ask for a review of "unknown" changes: such a review
  is no longer asked for when a further file is recognised. And it allows one
  fall of the lane. `Assign` looks at what forces a lane before it looks at the
  score, so a change that is BLACK because its score is beyond `RedMax` becomes
  RED when a further file makes it wait for a refresh or a review. No document
  says otherwise, but RED is what automation then sees. This exception was found
  by the proof, where the property without it does not go through; the run has
  changes that meet it (`<<Auth, OpenApi>>` with `<<Ddl>>` added).
* `ViewIsExplained` on PostgreSQL is checked for calls about different evidence.
  With racing reports on the same evidence the list, ordered by a timestamp
  taken before the transaction, can put the older entry first.
* `TransportsAgree` is about calls that both transports can carry (`Comparable`).
  The others are in the model, and the answers do differ on them:
  * a limit below 1: HTTP refuses it, gRPC replaces it by 50;
  * evidence named "audit": its HTTP path is the audit trail's;
  * an id or a name with a "/" in it, escaped or not: the handler splits the
    decoded path, so a name gives 404, an id with a leading "/" makes HTTP update
    the packet of the rest, and getting packet "cp/evidence/audit" lists the
    audit trail of "cp"; gRPC takes the text as it is (`policy/validation.go`
    only asks for a name that is not blank);
  * "." and ".." as an id or a name: the mux redirects. (A client that escapes
    the dots gets past it; the model does not have that client.)
  * a body over 64 KiB: HTTP answers 400 (`http_test.go:244`), gRPC has no limit
    of its own;
  * several Authorization values: HTTP takes the first, gRPC none of them.
* `Calibration` orders outcomes by `ObservedAt`, the time of recording unless
  the reporter gives another.
* `CurrentPacketDescribesHead` is about the head: a packet of a superseded
  commit may hold the diff of the next one.
* `ShutdownEndsRun` assumes that RPCs end; `GracefulStop` has no deadline.

**The violated runs.**

* *Same evidence, two reporters* (`same_evidence_race`). Both calls read
  `pending` and find their transition allowed. One records `satisfied` and
  decides; the other records `failed` over it; the first saves the packet as
  approved and GREEN. If the second call fails before its own save, or saves
  first, GREEN stays.
* *Un-blocked by a later rule* (`policy_block`). `applyPolicyAction` sets
  pending over blocked.

**Known differences.** The following statements of the documentation are
definitions of the modules, each with the line it quotes. No run checks them on
the instance named here, on which TLC refutes them.

| Definition | Instance | What the code does |
|---|---|---|
| `AuditIsChain` | `same_evidence_race` | the audit trail gets two entries from `pending` |
| `SettledDecisionIsCurrent` | 2 workers, 2 pieces | the call that has seen only its own evidence saves last: pending, although all is complete and both callers got a success; any report repairs it |
| `SettledCheckIsCurrent` | 1 worker, 1 request | an evidence update between ingestion's save and its first check publishes first; the first check then replaces the newer one |
| `CheckProvenanceKept` | memory, an actor in `GitHubApps` | `cloneAuditEntry` copies from the map it has just emptied |
| `SuccessSatisfies` | `MaxCheckRuns = 2` | failed evidence accepts only running and waived, and a check run reports neither: the later success is answered with an error |
| `SuccessEventuallySatisfies` | `FairSpec`, a check run before its packet | a check run without a packet is acknowledged and forgotten |
| `EventsFollowFlow` | any policy with a violation | `finalize` announces violations first, the flow document the lane |
| `GraphManifestHonoured` | `Forwards = {FALSE}` | both callers leave `Options` out of the `ResolutionInput` from which the source reads the manifest's path |
| `ScanMatchesService` | `Inputs <- Same` of `MCChangeInputs` | `DefaultEngine` knows no external analyzers |
| `AssessmentDeterministic` | `Inputs <- Twice` | overlapping diff entries are listed in map order |
| `SameValidation` | a limit of -1; two Authorization values | HTTP refuses a limit below 1 that gRPC replaces by 50; gRPC refuses the call that HTTP serves for the first value |
| `EveryNameReportable` | evidence named "audit", "n/m" or ".."; a large body | the HTTP path of that evidence is the audit trail's, none, or redirected; HTTP refuses a body over 64 KiB |
| `ReportingResolves` | a scanned packet, everything reported | `merger_check_readiness` reads the decision from the packet it is given, which stays pending whatever is reported |
| `InitIsWhatValidateChecks` | a tree with a config at its root | `validate` prefers that config to the one `init` wrote |

**Fairness.**

* `EvidenceService!FairSpec`: weak fairness of each worker's next call (a
  handler that has started runs until it answers) and of `Retry` (the client
  repeats a call answered with an error, as GitHub users do with redelivery and
  CI jobs with their retries). Nothing is assumed about new requests, ingestion
  or failures. Without repeated calls `CompleteEvidenceIsApproved` does not
  hold: nothing in the service itself re-runs a reconciliation.
* `Ingestion!FairSpec`: the same for handlers; a delivered webhook is received,
  and a failed one repeated. Strong fairness of `Receive` stands for one
  goroutine per request: the model's workers are few, Go's are not.
* `EventBus!BusFairSpec`: JetStream delivers what is not acknowledged, and a
  subscriber that died is started again.
* `TokenCache!FairSpec`: goroutines run, the client's timeout ends a wait, and a
  waiter gets a mutex that is released again and again (Go's mutexes hand over
  to starving waiters), which is strong fairness of the lock.
* `Startup!FairSpec`: goroutines run and RPCs end. `McpServer!SessionSpec`
  and `RuntimeGraph!ResolveSpec`: the only process goes on.

## 4. Proofs

The proofs hold for any sets of workers, packets, names, actors and heads, any
thresholds in order, any backend and any bounds, unless a hypothesis of the
theorem says otherwise.

**`EvidenceProofs`: the service.**

* `TypeCorrect` first. `DescentInv` then says that every copy of a packet,
  stored or held by a call, *descends* from the one ingestion saved: same
  requirements, reviewers, head and minimum lane, blocked exactly if that one
  was, lane as `Assign` gives it. It is inductive because `reconcileDecision`
  changes status and lane only (`ReconcileFacts`); with `AssignFacts` it gives
  `LaneFollowsDecision` and `BlockedIsFinal`. The properties alone are not
  inductive: they say nothing about the copies that are saved later.
* With `SoleReporter`, `Disjoint` and `Fresh` (a checked status is still
  current when it is replaced) are inductive; then complete evidence stays
  complete (`CompletenessGrows`), every approved copy stays backed
  (`BackedInv`), hence `GreenIsBacked`; and `LifecycleRespected` follows.
  `same_evidence_race` shows that the assumption is needed.
* With `OneAtATime` (one worker, and clients repeat what failed), `RepairInv`
  says of every stored packet that its decision is current or that a call which
  has recorded its report, or whose client will repeat it, has yet to reconcile
  it. The repeated call finds its own status on record, and a report of the
  current status is a legal transition, so the repair is never refused. At rest
  only the first case is left: `SettledDecisionIsCurrent`.

**`EvidenceProofs`: the audit trail**, without those assumptions.

* `AuditExplainsStatus` is inductive given the types: a save adds a row only
  where there is none. When a call decides, the trail as a whole witnesses what
  it has read (`WitnessNow`), and a witness is never lost (`WitnessPersists`),
  which gives `ApprovalHasWitness` and, with descent, `SuccessHasWitness`.
  `WaiverIsAttributed` follows from the trail and the check that every request
  has passed (`AttributionCorrect`). With `SoleReporter` again, freshness and
  `AuditExplainsStatus` together give `AuditIsChain`: the status a call has read
  is the one the newest entry ends in. `SuccessIsBacked` follows from the
  backing of the copies about to be published.
* `ServiceImplementsLedger`: each step of the service is a step of the ledger or
  a stutter. `RecordUpdate` is `Report`, with attribution; a save is `Conclude`,
  justified by the witness of the saved copy (`WitnessJustifies`); `IngestSave`
  is `Open`.
* `ReadsAreInvisible`: with the reads added, the service still is one of
  `EvidenceService`, so all of the above carries over. Stamps are given in the
  order of the clock (`StampedInOrder`); with `SoleReporter` the stamps of the
  entries about one piece of evidence follow the order in which they were stored
  (`StampsFollowStore`), so that the PostgreSQL list has them newest first.
  `ViewInv` says that what a view has read so far is on record, and therefore
  still will be when the trail, the last of its reads, is listed:
  `ViewIsExplained`, for the memory store or with `SoleReporter`.

**`IngestionProofs`.** `IngestInv` has one part per local variable of a request:
the webhook is of the kind its stage is for (`HookInv`); a packet under
construction has a head no newer than its diff, an identifier nobody else uses
and exactly the events of its stage (`DraftInv`, `DistinctInv`); the loop over
the pull requests of a check run has left something behind for each it has
passed (`LoopInv`), and the evidence it is about to update is bound to the check
(`MatchInv`). Steps of others keep it because history only grows (`Later`).
`CurrentPacketDescribesHead`, `AnnouncedStoredShown`, `EvidenceFromBoundCheck`
and `AcceptedCheckReachedAll` follow for any number of requests, commits,
failures and repeated deliveries. `SettledCheckShowsLatest` is for `Solo`, one
request at a time about one pull request, as its run is: `LatestInv` adds that
nothing in the store is newer than the packet about to be saved.

**`EventBusProofs`.** `BusInv`: who holds the read lock still has a handler to
call, and what it has called or will call is all it owes (`LoopInv`); an event
is settled before it is recorded, and nobody publishes it again (`LogInv`).
`ClosedIsQuiet` and `RecordedIsDelivered` (on NATS until `Close`) follow, for any
handlers, failures and crashes.

**`StartupProofs`.** `Checked` is what main has established at each of its
steps. `AcceptedIsBuilt` compares `validateAccess` with `buildAuthenticator`
clause by clause; the one thing that no clause provides is that the empty word
is not the name of an environment variable (`StartupConstants`).
`RunInv` accounts for the error channel: every end of a server is sent once and
is in the channel or received; a failure that was sent is still in the channel or
has ended Run. Hence `RunOutlivesServers`.

**`ControlPlaneAPIProofs`.** Each step answers at once, so the work is in the
lemmas about what a transport answers. `Single` and `Joined` say what the path of
a comparable call looks like, `PathIsTrimmed` that cleaning and splitting it
gives the texts back; `FormIsRegistered` and `Served` follow the call through mux
and handlers; `Intercepted` follows it through the interceptor; both end in the same `Did`, `LimitOf` and `StatusOf`
(`AgreeInv`), which is `TransportsAgree`. For `UpdateNeedsWriter`, whatever
request reaches the update handler is one that `isEvidenceUpdate` classifies as
an update; and an authenticator knows a caller as a writer exactly if the token
says so, which for a string in the roles claim means that splitting and trimming
it yields its words. Hypotheses: the calls are those of the four methods
(`CallsAreTyped`), paths are sequences of strings (`RequestsAreTyped`), what
callers present are sequences of Authorization values
(`AuthorizationsAreTyped`), the authenticator is one that can be built (`AccessIsBuilt`), and between two words
of a roles claim there is the separator it is split by (`RolesAreWords`; a claim
with commas is split at commas only, so that `"a b, c"` has a value `a b`, which
is not a word). `MCControlPlane` has TLC evaluate them on the run's instances.

**`AnalysisProofs`: the runtime graph.** `WalkInv` is the invariant of a
breadth-first search:
the queue holds visited nodes in the order of their depths, which span two
levels at most (`InLevels`); a depth is the length of a walk (`DepthsAreWalks`);
the neighbours of what was taken from the queue have been met, no deeper than
one edge on (`NeighboursMet`); what was taken is what is reported (`Reported`).
When the queue is empty, every walk stays inside what was visited: otherwise
take the shortest prefix that leaves it. `TraversalExact` follows for every
manifest over finitely many ids (`ManifestsOverIDs`, which `MCAnalysis` has TLC
evaluate).

**`AnalysisProofs`: policy.** `PolicyTypeCorrect`, and `ApplyRuleReflects`:
folding a rule into an evaluation that reflects a set of rules gives one that
reflects the set with the rule added, provided the bindings are consistent,
which `Validate` ensures.

**`AnalysisProofs`: the change analysis.** `JobsInv` says of each job, stage by
stage, what its values are made from. While it classifies, the files read so far
are the first `k`, and what they give rise to is either at hand or in the map
(`ReadSoFar`); the map is the maximum of the reports added (`Merged`), which
adding one more keeps (`AddMutationMerges`). The property says nothing about the
middle of the loop, so it is not inductive by itself. After that stage
the map holds everything (`IsClassified`), the conflict is `Analyze` of the
files for some order of the overlaps (`IsAssessed`), the risk is `Evaluate` of
both (`IsEvaluated`), and the lane is `Assign` of all of it.

* `ClassifyIsMaximum` is `IsClassified`, for every set of files and every
  external analyzer.
* `ConflictsAreRouted`: `KindsAre` reads the kinds of findings off the four
  lists that `Findings` joins, `RouteIs` the route off the kinds, and `LaneIs`
  reduces `Assign` to route, review and score.
* `WiderChangeIsNoSafer`: what is found in a file is found in the wider change
  too (`ReportsWiden`, with `FoundGrows` for contents that did not load), so its
  kinds grow, but for "unknown", which is the lightest (`KindSumGrows`); its
  overlaps grow, since no two files fall together (`OverlapsWiden`), and with
  them the conflict score and the route; `ScoreGrows` and `LaneGrows` put these
  together for all thresholds.

**`AnalysisProofs`: calibration.** A new outcome replaces at most the oldest of
the list (`WindowMoves`), so samples and adverse samples change by one at most,
and the adverse ones lose nothing that the samples do not (`NeverCalmer`, linear
arithmetic): `AdverseNeverCalms`, for every limit and every history.

**`ToolsProofs`: local commands.** `CommandInv` says that as long as the tree has
not changed under it, a command has found what the tree it started from holds
(`RunFound`), and that a finished one has recorded this (`EntryFound`), with
`ConfigIn` and `PolicyIn` for what there is to find in a tree. `validate` and
`scan` reach it through different steps of the code; both end in the same
`Accepted`, which is `ValidatedScanRuns`.

**`ToolsProofs`: MCP sessions.** `SessionInv` relates the lines written, the
pipe and the responses: the lines read are the first `k`, the pipe holds the
others, and the responses answer the requests among the `k`, one each, in order,
with their ids (`Told`); after a write that failed, the line it was for still
counts as unread (`Kept`). Hence `NoRequestDropped`, the safety half of
`AllAnswered`: at the end of its input Serve does not return before every request
is answered, and nothing crashes it. Each response is truthful about its packet, whence `ToolsAgree`.

**`TokenCacheProofs`.** The inductive invariant (`TokenCorrect`) relates each
token in use to the time its request got under way: it is valid for as long as
a request may take. With it, `NoExpiredCall`, `OneRequest` and `JWTIsTimely`
hold for any clocks, lifetimes and delays that the margins cover
(`TokenConstants`).

Where an argument needs an induction over numbers (the least index of a
sequence, the shortest prefix of a walk) it is put as one about a least
counterexample, with `NatLessThanWellFounded` and `WFMin`.

Proved and not in a run of their own: `BlockedIsFinal`, `ApprovalHasWitness` and
`WaiverIsAttributed`, which `ImplementsLedger` contains; `OneRequest`;
`CheckSettlesOneEvidence`; `StampsFollowStore`.

Model-checked only: the liveness properties (`CompleteEvidenceIsApproved`,
`HeadGetsPacket`, `EveryoneServed`, `ShutdownEndsRun`, `PublishedIsHandled`,
`ResolutionEnds`, `AllAnswered`), since fairness is outside the prover's reach.
The safety half of `AllAnswered` is `NoRequestDropped`. Every invariant and
action property that a passing run checks is a theorem.

Assumptions on constants: `ThresholdsOrdered` (`config.Validate`, see
`ValidConfigServes`), `StoreConstants`, `ServiceConstants`, `PolicyConstants`,
`IngestionConstants`, `AnalysisConstants`, `CalibrationConstants` (typing),
`PacketsFromPolicy` (above), `StartupConstants` and `TokenConstants` (the margins
of `app_auth.go` cover skew and delay).

## 5. Not modelled

* The wire format of the GitHub client, webhook signatures and JSON decoding,
  the Markdown of the check summary: input and output, and wording.
* Generated protobuf code and the field-by-field mapping to it.
* SQL text, migrations, the packet list and its limit, the event table: each is
  one statement that the models take as atomic.
* What a pattern or a parser finds in a path, a patch or a file: it is the data
  of a file in `ChangeAnalysis` and `RuntimeGraph`. The diff parser likewise.
* The HTTP routes of outcomes and calibration (their service calls are in
  `ControlPlaneReads` and `Calibration`).
* Syntax of flags and output formats of the CLI (a scan's flags are right or not,
  its diff is readable and parses or not, its output file can be written or
  not), telemetry, the SDK's re-exports and SCM
  client extensions, shell scripts and deployment files: no state, no decision
  that the models depend on.

## 6. What is left

1. A form of `SettledCheckShowsLatest` for several pull requests: a commit has
   one check, so it has to say whose packet the check shows.
2. `Ingestion` with `EvidenceService`'s steps in place of its atomic update.
