----------------------------- MODULE McpServer -----------------------------
(***************************************************************************)
(* An MCP session over stdio: a client writes lines to a pipe and closes   *)
(* it, mcpserver.Serve reads them, handles each one and writes at most one *)
(* response to it.  The tools that work on a Change Packet are modelled by *)
(* what they say about the packet; merger_scan and merger_validate, whose  *)
(* work is in module LocalTools, by the ways they end.                     *)
(*                                                                         *)
(* A line is [id, method, call]; call is the tool call of a tools/call:    *)
(* [tool, packet, evidence, reviews].  A packet is                         *)
(* [status, evidence, reviewers, lane], its evidence a set of              *)
(* [name, required] and its reviewers a set of [team, mandatory].          *)
(***************************************************************************)
EXTENDS Integers, FiniteSets, Sequences, SequencesExt

CONSTANTS
    Clients,     \* the kinds of clients
    Lines,       \* client -> the lines it may write, without their ids
    Scanned,     \* the packets that merger_scan may return
    MaxLines     \* bound: how many lines a client writes

VARIABLES
    client,      \* who writes
    pipe,        \* lines written and not read
    written,     \* every line so far that reaches the reader
    readErr,     \* how the input ended: "nil" (it is open), "EOF" or "other"
    bare,        \* the last line of the pipe ends without a newline
    initialized,
    out,         \* the responses written
    serve        \* "running", or how Serve ended: "returned" nil, the error "read_failed"
                 \* or "write_failed", or "crashed" when a panic got out

sessionVars == <<client, pipe, written, readErr, bare, initialized, out, serve>>

NoID == 0
NoPacket(why) == [status |-> why, evidence |-> {}, reviewers |-> {}, lane |-> "unset"]
NoCall == [tool |-> "missing", packet |-> NoPacket("absent"), evidence |-> {}, reviews |-> {}]

-----------------------------------------------------------------------------
(* The tools.  Failed is an error that the calling model can read.         *)

Outcome(ok, tool) == [ok |-> ok, tool |-> tool]
Failed == Outcome(FALSE, "failed")
Panicked == Outcome(FALSE, "panicked")
ErrUnknownTool == Outcome(FALSE, "unknown_tool")

\* change_packet must be there and must decode.
changePacketArg(call) == call.packet.status \notin {"absent", "undecodable"}

requiredEvidenceCount(packet) == Cardinality({e \in packet.evidence : e.required})

requiredReviews(packet) == {r.team : r \in {q \in packet.reviewers : q.mandatory}}

nextAction(packet) ==
    IF packet.status # "approved" THEN "resolve_policy_decision"
    ELSE IF \E e \in packet.evidence : e.required THEN "complete_evidence_plan"
    ELSE IF requiredReviews(packet) # {} THEN "obtain_reviews"
    ELSE IF packet.lane = "BLACK" THEN "escalate"
    ELSE "nothing_unreported"

toolExplain(packet) ==
    [ok |-> TRUE, tool |-> "merger_explain", packet |-> packet, next |-> nextAction(packet),
     evidenceRequired |-> requiredEvidenceCount(packet)]

\* A faulty variant: the checklist holds every evidence entry.
toolPlanEvidenceAll(packet) ==
    [ok |-> TRUE, tool |-> "merger_plan_evidence", packet |-> packet,
     steps |-> {e.name : e \in packet.evidence}, reviews |-> requiredReviews(packet)]

toolPlanEvidence(packet) ==
    [ok |-> TRUE, tool |-> "merger_plan_evidence", packet |-> packet,
     steps |-> {e.name : e \in {f \in packet.evidence : f.required}}, reviews |-> requiredReviews(packet)]

\* Names reported twice, empty or not strings make no difference (stringSet).
Blockers(packet, evidence, reviews) ==
    {<<"evidence", e.name>> : e \in {f \in packet.evidence : f.required /\ f.name \notin evidence}}
      \cup {<<"review", r.team>> : r \in {q \in packet.reviewers : q.mandatory /\ q.team \notin reviews}}
      \cup (IF packet.status # "approved" THEN {<<"decision", packet.status>>} ELSE {})
      \cup (IF packet.lane = "BLACK" THEN {<<"lane", "BLACK">>} ELSE {})

toolCheckReadiness(call) ==
    LET blockers == Blockers(call.packet, call.evidence, call.reviews)
    IN [ok |-> TRUE, tool |-> "merger_check_readiness", packet |-> call.packet,
        evidence |-> call.evidence, reviews |-> call.reviews,
        blockers |-> blockers, ready |-> blockers = {},
        next |-> IF blockers = {} THEN "ready" ELSE nextAction(call.packet)]

PacketTool(call) ==
    CASE call.tool = "merger_explain" -> toolExplain(call.packet)
      [] call.tool = "merger_plan_evidence" -> toolPlanEvidence(call.packet)
      [] call.tool = "merger_check_readiness" -> toolCheckReadiness(call)

\* The results a call may have.
Call(call) ==
    CASE call.tool = "merger_scan" ->
             {Failed} \cup {[ok |-> TRUE, tool |-> "merger_scan", packet |-> p] : p \in Scanned}
      [] call.tool = "merger_validate" -> {Failed, Outcome(TRUE, "merger_validate")}
      [] call.tool \in {"merger_explain", "merger_plan_evidence", "merger_check_readiness"} ->
             {IF changePacketArg(call) THEN PacketTool(call) ELSE Failed}
      [] call.tool = "panics" -> {Panicked}
      [] OTHER -> {ErrUnknownTool}

-----------------------------------------------------------------------------
(* Responses.                                                              *)

jsonRPCParseError == -32700
jsonRPCInvalidRequest == -32600
jsonRPCMethodNotFound == -32601
jsonRPCInvalidParams == -32602
jsonRPCInternalError == -32603
jsonRPCServerError == -32000

Error(line, code) == <<[id |-> line.id, code |-> code, result |-> Failed]>>

Success(line, result) == <<[id |-> line.id, code |-> 0, result |-> result]>>

Nothing == Outcome(TRUE, "none")

\* A panic that nobody recovers from ends the process: no such response is written.
Crash == <<[id |-> NoID, code |-> 1, result |-> Panicked]>>

\* A faulty variant: nobody recovers from a panic.
handleToolCallBare(line) ==
    {IF r = Panicked THEN Crash ELSE Success(line, r) : r \in Call(line.call)}

\* safeToolCall turns a panic into an error, an unknown tool is a protocol
\* error, any other failure a result that says so.
handleToolCall(line) ==
    IF line.call.tool \in {"missing", "unparsable"}
    THEN {Error(line, jsonRPCInvalidParams)}
    ELSE {IF r = Panicked THEN Error(line, jsonRPCInternalError)
          ELSE IF r = ErrUnknownTool THEN Error(line, jsonRPCInvalidParams)
          ELSE Success(line, r) : r \in Call(line.call)}

requireInitialized(line, handled) == IF initialized THEN handled ELSE {Error(line, jsonRPCServerError)}

\* The responses HandleLine may give: a sequence of one, or none.
HandleLine(line) ==
    CASE line.method = "garbage" -> {Error([id |-> NoID], jsonRPCParseError)}
      [] line.method = "bad_version" -> {Error(line, jsonRPCInvalidRequest)}
      [] line.method = "initialize" -> {Success(line, Nothing)}
      [] line.method = "initialize_bad_params" -> {Error(line, jsonRPCInvalidParams)}
      [] line.method = "ping" -> {Success(line, Nothing)}
      [] line.method = "tools/list" -> requireInitialized(line, {Success(line, Nothing)})
      [] line.method = "tools/call" -> requireInitialized(line, handleToolCall(line))
      [] line.method \in {"blank", "notifications/initialized", "notifications/other"} -> {<<>>}
      [] OTHER -> {Error(line, jsonRPCMethodNotFound)}

-----------------------------------------------------------------------------

SessionInit ==
    /\ client \in Clients
    /\ pipe = <<>> /\ written = <<>> /\ readErr = "nil" /\ bare = FALSE
    /\ initialized = FALSE /\ out = <<>> /\ serve = "running"

\* The client: external.  Ids number the requests.
Write ==
    /\ readErr = "nil" /\ Len(written) < MaxLines
    /\ \E line \in Lines[client] :
           LET numbered == [id |-> Len(written) + 1, method |-> line.method, call |-> line.call]
           IN pipe' = Append(pipe, numbered) /\ written' = Append(written, numbered)
    /\ UNCHANGED <<client, readErr, bare, initialized, out, serve>>

\* The client closes the pipe, or reading from it fails.  Closing without a
\* newline after the last line is what one-shot clients do.
Close ==
    /\ readErr = "nil" /\ readErr' \in {"EOF", "other"}
    /\ bare' \in (IF pipe = <<>> THEN {FALSE} ELSE BOOLEAN)
    /\ UNCHANGED <<client, pipe, written, initialized, out, serve>>

\* What Serve returns when the input ends.
Ended == IF readErr = "EOF" THEN "returned" ELSE "read_failed"

\* A line is handled and its response written, or writing fails and Serve
\* returns; next is how Serve goes on after the line.
Handle(line, next) ==
    /\ \E response \in HandleLine(line) :
         IF response = Crash
         THEN serve' = "crashed" /\ UNCHANGED out
         ELSE \/ out' = out \o response /\ serve' = next
              \/ response # <<>> /\ serve' = "write_failed" /\ UNCHANGED out
    /\ initialized' = (initialized \/ line.method = "notifications/initialized")

\* ReadBytes returns an unterminated last line together with the error that
\* ended the input.
WithError == bare /\ Len(pipe) = 1

\* A faulty variant: Serve acts on the error before it looks at the line.
ServeLineErrorFirst ==
    /\ serve = "running" /\ pipe # <<>>
    /\ pipe' = Tail(pipe)
    /\ IF WithError THEN serve' = Ended /\ UNCHANGED <<initialized, out>>
       ELSE Handle(Head(pipe), serve)
    /\ UNCHANGED <<client, written, readErr, bare>>

\* One pass of Serve's loop with a line in it.
ServeLine ==
    /\ serve = "running" /\ pipe # <<>>
    /\ pipe' = Tail(pipe)
    /\ Handle(Head(pipe), IF WithError THEN Ended ELSE serve)
    /\ UNCHANGED <<client, written, readErr, bare>>

\* The input has ended and nothing is left.
ServeEOF ==
    /\ serve = "running" /\ pipe = <<>> /\ readErr # "nil"
    /\ serve' = Ended
    /\ UNCHANGED <<client, pipe, written, readErr, bare, initialized, out>>

SessionNext == Write \/ Close \/ ServeLine \/ ServeEOF

\* The server's loop runs whenever there is something to read; the client
\* may stop at any time.
SessionSpec ==
    SessionInit /\ [][SessionNext]_sessionVars /\ WF_sessionVars(ServeLine) /\ WF_sessionVars(ServeEOF)

-----------------------------------------------------------------------------

Silent == {"blank", "notifications/initialized", "notifications/other"}

\* The lines among the first k of s that are owed an answer.
Requests(s, k) == {i \in 1..k : s[i].method \notin Silent}

ReplyID(line) == IF line.method = "garbage" THEN NoID ELSE line.id

\* How many responses the client is owed.
Owed == Cardinality(Requests(written, Len(written)))

\* The n-th response is to the n-th request.
InOrder ==
    \A i \in Requests(written, Len(written)) :
        LET n == Cardinality(Requests(written, i))
        IN n <= Len(out) => out[n].id = ReplyID(written[i])

Answered == Len(out) = Owed /\ InOrder

(***************************************************************************)
(* Serve, server.go:33: no request is dropped: whatever reached the reader *)
(* when its input ends is answered, once and in order, an unterminated     *)
(* last line and the lines behind a panicking tool included, before Serve  *)
(* returns.  Only when a response cannot be written does Serve end sooner, *)
(* and then what it had written answers the first requests.                *)
(***************************************************************************)
AllAnswered ==
    readErr # "nil" ~>
        \/ serve \in {"returned", "read_failed"} /\ Answered
        \/ serve = "write_failed" /\ Len(out) < Owed /\ InOrder

Answers(tool) == {r.result : r \in {s \in ToSet(out) : s.result.ok /\ s.result.tool = tool}}

(***************************************************************************)
(* The agent tools tell one story of a packet: completing exactly the plan *)
(* of merger_plan_evidence clears every evidence and review blocker of     *)
(* merger_check_readiness and nothing less does, and merger_explain sees   *)
(* nothing left to do iff readiness without any report is ready.           *)
(***************************************************************************)
ToolsAgree ==
    \A check \in Answers("merger_check_readiness") :
        /\ \A plan \in Answers("merger_plan_evidence") : plan.packet = check.packet =>
               ((plan.steps \subseteq check.evidence /\ plan.reviews \subseteq check.reviews) <=>
                   \A b \in check.blockers : b[1] \in {"decision", "lane"})
        /\ \A why \in Answers("merger_explain") : why.packet = check.packet =>
               (why.next = "nothing_unreported" <=> Blockers(why.packet, {}, {}) = {})

(***************************************************************************)
(* docs/mcp.md:69: for a packet that merger_scan returned and that is not  *)
(* in the BLACK lane, readiness is reached once all its evidence and       *)
(* reviews are reported as completed.                                      *)
(***************************************************************************)
ReportingResolves ==
    \A check \in Answers("merger_check_readiness") :
        (/\ check.packet \in Scanned /\ check.packet.lane # "BLACK"
         /\ \A e \in check.packet.evidence : e.required => e.name \in check.evidence
         /\ \A r \in check.packet.reviewers : r.mandatory => r.team \in check.reviews) => check.ready

=============================================================================
