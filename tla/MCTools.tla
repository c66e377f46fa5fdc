------------------------------- MODULE MCTools -------------------------------
(***************************************************************************)
(* One run over the tools that work without a service: a behaviour is a    *)
(* history of local commands on a working tree (LocalTools, from           *)
(* MCLocalTools) or an MCP session, with any lines of the protocol or with *)
(* tool calls on packets (McpServer); the variable part says which.  The   *)
(* parts share no state: the variables of the other keep their first value *)
(* or the value Off.                                                       *)
(***************************************************************************)
EXTENDS MCLocalTools, McpServer

VARIABLE part

-----------------------------------------------------------------------------

ToolCall(tool, packet, evidence, reviews) ==
    [method |-> "tools/call",
     call |-> [tool |-> tool, packet |-> packet, evidence |-> evidence, reviews |-> reviews]]
Line(method) == [method |-> method, call |-> NoCall]
Bare(tool) == ToolCall(tool, NoPacket("absent"), {}, {})

Packet(status, evidence, reviewers, lane) ==
    [status |-> status, evidence |-> evidence, reviewers |-> reviewers, lane |-> lane]
Tests == [name |-> "tests", required |-> TRUE]
Notes == [name |-> "notes", required |-> FALSE]
Team == [team |-> "owners", mandatory |-> TRUE]

\* policy.applyPolicyAction: a packet with a requirement is pending.
MCScanned ==
    {Packet("approved", {}, {}, "GREEN"), Packet("pending", {Tests}, {}, "RED"),
     Packet("pending", {Tests}, {Team}, "RED")}

ProtocolLines ==
    {Line(m) : m \in {"garbage", "bad_version", "initialize", "initialize_bad_params", "ping",
        "tools/list", "blank", "notifications/initialized", "notifications/other", "other"}}
    \cup {Bare(t) : t \in {"missing", "unparsable", "no such tool", "panics", "merger_scan",
        "merger_validate", "merger_explain"}}

Packets ==
    {Packet("approved", {Notes}, {}, "GREEN"), Packet("approved", {Notes}, {}, "BLACK"),
     Packet("approved", {Tests, Notes}, {Team}, "RED"),
     Packet("blocked", {}, {Team}, "BLACK")}
ToolLines ==
    {Line("notifications/initialized")}
    \cup {ToolCall(t, p, {}, {}) : t \in {"merger_explain", "merger_plan_evidence"}, p \in Packets}
    \cup {ToolCall("merger_check_readiness", p, done[1], done[2]) :
              p \in Packets, done \in {<<{}, {}>>, <<{"tests"}, {}>>, <<{"tests"}, {"owners"}>>}}
    \cup {ToolCall("merger_explain", NoPacket("undecodable"), {}, {})}

\* One client speaks every line of the protocol, the other works with packets.
MCClients == {"protocol", "agent"}
MCLines == [c \in MCClients |-> IF c = "agent" THEN ToolLines ELSE ProtocolLines]

-----------------------------------------------------------------------------

allVars == <<part, vars, sessionVars>>

Off == "off"

NoSession ==
    /\ client = Off /\ pipe = <<>> /\ written = <<>> /\ readErr = "nil" /\ bare = FALSE
    /\ initialized = FALSE /\ out = <<>> /\ serve = Off

NoCommands == tree = Off /\ run = Off /\ log = <<>> /\ edits = 0

MCInit ==
    \/ part = "local" /\ Init /\ NoSession
    \/ part = "session" /\ SessionInit /\ NoCommands

Talk(step) == part = "session" /\ step /\ UNCHANGED <<part, vars>>

MCNext ==
    \/ part = "local" /\ Next /\ UNCHANGED <<part, sessionVars>>
    \/ Talk(SessionNext)

\* The fairness of SessionSpec.
MCSpec ==
    /\ MCInit /\ [][MCNext]_allVars
    /\ WF_allVars(Talk(ServeLine)) /\ WF_allVars(Talk(ServeEOF))

=============================================================================
