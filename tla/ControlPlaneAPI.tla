-------------------------- MODULE ControlPlaneAPI --------------------------
(***************************************************************************)
(* The two transports of the control plane.  One call is made over HTTP    *)
(* and over gRPC; each transport authenticates, authorizes, validates and  *)
(* maps the outcome of the service (EvidenceService models what the        *)
(* service does) to a status of its own.                                   *)
(*                                                                         *)
(* A text is the sequence of what "/" separates in it: "a/b" is            *)
(* <<"a", "b">>, the empty text is <<"">>.                                 *)
(*                                                                         *)
(* An HTTP request is a record [method, route, segments, escaped, limits,  *)
(* body]: segments is the decoded path, as a text, behind                  *)
(* "/api/v1/change-packets/" for that route and the whole path otherwise;  *)
(* escaped the segments behind which the "/" is written %2F; limits the    *)
(* values of the query parameter (records [number, n]); body "one" JSON    *)
(* value, "two", "bad", or one that is "large": over 64 KiB, and below     *)
(* what a gRPC server receives.                                            *)
(***************************************************************************)
EXTENDS Access

CONSTANTS
    Modes,              \* the values of access.mode
    Credentials,        \* of the static token authenticator
    JWT,                \* the JWT authenticator
    Now,
    \* What is asked in each mode m:
    Authorizations,     \* Authorizations[m]: the callers' sequences of Authorization values
    Calls,              \* Calls[m]: records [op, id, name, limit, large]; limit is None or
                        \* Some(n), large says whether the body is
    OtherRequests       \* OtherRequests[m]: HTTP requests that are not the form of a call

VARIABLES
    mode,           \* access.mode of the process
    call,           \* the call, or None for a request of OtherRequests
    request,        \* its HTTP form
    authorization,
    result,         \* how the service ends, if it is asked
    httpAnswer, grpcAnswer  \* the answers: records [status, did, about, limit, principal]

callVars == <<mode, call, request, authorization, result, httpAnswer, grpcAnswer>>

-----------------------------------------------------------------------------

Authenticate(m, value) ==
    CASE m = "disabled" -> DisabledAuthenticate
      [] m = "static_token" -> StaticAuthenticate(Credentials, value)
      [] m = "jwt" -> JWTAuthenticate(JWT, value, Now)

\* r.Header.Get("Authorization")
HeaderGet(values) == IF values = <<>> THEN NoAuthorization ELSE values[1]

\* Faulty: reporting evidence asks for no more than reading.
isEvidenceUpdateNever(r) == FALSE

\* strings.Split(strings.Trim(path, "/"), "/")
PathParts(r) ==
    LET inner == {i \in DOMAIN r.segments : r.segments[i] # ""}
    IN IF inner = {} THEN <<"">> ELSE SubSeq(r.segments, Min(inner), Max(inner))

isEvidenceUpdate(r) ==
    LET parts == PathParts(r)
    IN r.method = "PUT" /\ Len(parts) = 3 /\ parts[2] = "evidence" /\ "" \notin {parts[1], parts[3]}

AccessMiddleware(r, principal) ==
    IF r.route = "/healthz" THEN "ok"
    ELSE Authorize(principal, IF isEvidenceUpdate(r) THEN "evidence_writer" ELSE "reader")

-----------------------------------------------------------------------------
(* HTTP. *)

DefaultListLimit == 50
MaxListLimit == 200

Cap(n) == IF n > MaxListLimit THEN MaxListLimit ELSE n

\* The limit, or None.
parseListLimit(r) ==
    IF r.limits = <<>> THEN Some(DefaultListLimit)
    ELSE IF Len(r.limits) = 1 /\ r.limits[1].number /\ r.limits[1].n > 0
         THEN Some(Cap(r.limits[1].n))
         ELSE None

\* Faulty: an invalid transition is an internal error.
statusForErrorPlain(err) ==
    CASE err = "ok" -> 200 [] err = "invalid" -> 400
      [] err \in {"packet not found", "evidence not found"} -> 404
      [] OTHER -> 500

\* Of an operation that may also succeed; 200 stands for 202 as well.
statusForError(err) ==
    CASE err = "ok" -> 200
      [] err \in {"packet not found", "evidence not found"} -> 404
      [] err = "invalid" -> 400
      [] err = "transition" -> 409
      [] err = "error" -> 500

\* An answer, and as whom the caller was known.
To(principal, answer) ==
    [did |-> answer.did, about |-> answer.about, status |-> answer.status, limit |-> answer.limit,
     principal |-> principal]

\* What the service is asked: an operation, the texts it is about, a limit.
Refused(status) == [did |-> "nothing", about |-> <<>>, status |-> status, limit |-> 0]
Asked(op, about, limit) ==
    [did |-> op, about |-> about, status |-> statusForError(result), limit |-> limit]

\* A list operation, once its limit is parsed.
Listed(r, op, about) ==
    LET limit == parseListLimit(r)
    IN IF limit = None THEN Refused(400) ELSE Asked(op, about, The(limit))

\* An operation with a body of which all, or the first value, is decoded, but
\* no more than 64 KiB.
Posted(r, op, about, accepted) == IF r.body \in accepted THEN Asked(op, about, 0) ELSE Refused(400)

Only(r, method, answer) == IF r.method = method THEN answer ELSE Refused(405)

handleChangePacketByID(r) ==
    LET parts == PathParts(r)
        length == Len(parts)
        id == <<parts[1]>>
        name == <<parts[3]>>
    IN IF parts[1] = "" THEN Refused(400)
       ELSE CASE length = 1 -> Only(r, "GET", Asked("get", <<id>>, 0))
              [] length = 3 /\ parts[2] = "evidence" /\ parts[3] = "audit" ->
                    Only(r, "GET", Listed(r, "audit", <<id>>))
              [] length = 3 /\ parts[2] = "evidence" /\ parts[3] # "audit" ->
                    Only(r, "PUT", Posted(r, "update", <<id, name>>, {"one"}))
              [] length = 2 /\ parts[2] = "outcomes" ->
                    Only(r, "POST", Posted(r, "outcome", <<id>>, {"one", "two"}))
              [] OTHER -> Refused(404)

\* The mux looks at the path before it is decoded: what is between two "/" that
\* are written so is empty, "." or "..".
Unclean(r) ==
    \E i \in DOMAIN r.segments :
        /\ i \notin r.escaped /\ i - 1 \notin r.escaped
        /\ \/ r.segments[i] \in {".", ".."}
           \/ r.segments[i] = "" /\ i < Len(r.segments)

\* The mux redirects a path that is not clean.
Register(r) ==
    IF Unclean(r) THEN Refused(301)
    ELSE CASE r.route = "/api/v1/change-packets" -> Only(r, "GET", Listed(r, "list", <<>>))
           [] r.route = "/api/v1/change-packets/" -> handleChangePacketByID(r)
           [] r.route = "/api/v1/risk-calibration" -> Only(r, "GET", Asked("calibration", <<>>, 0))
           [] r.route = "/healthz" -> Refused(200)
           [] OTHER -> Refused(404)

ServeHTTP(r, principal) ==
    LET access == AccessMiddleware(r, principal)
    IN CASE access = "ok" -> Register(r)
         [] access = "unauthenticated" -> Refused(401)
         [] access = "forbidden" -> Refused(403)

AnswerHTTP ==
    /\ httpAnswer = None
    /\ LET principal == Authenticate(mode, HeaderGet(authorization))
       IN httpAnswer' = Some(To(principal, ServeHTTP(request, principal)))
    /\ UNCHANGED <<mode, call, request, authorization, result, grpcAnswer>>

-----------------------------------------------------------------------------
(* gRPC. *)

roleForMethod(op) ==
    CASE op \in {"get", "list", "audit"} -> Some("reader")
      [] op = "update" -> Some("evidence_writer")
      [] OTHER -> None

authorizationFromMetadata(values) == IF Len(values) # 1 THEN NoAuthorization ELSE values[1]

\* A limit that is not set is 0.
ListLimit(limit) == IF limit <= 0 THEN DefaultListLimit ELSE Cap(limit)

grpcStatusForError(err) ==
    CASE err = "ok" -> "OK"
      [] err \in {"packet not found", "evidence not found"} -> "NotFound"
      [] err = "invalid" -> "InvalidArgument"
      [] err = "transition" -> "FailedPrecondition"
      [] err = "error" -> "Internal"

\* The texts that the methods of Server hand on.
About(c) ==
    IF c.op = "list" THEN <<>> ELSE IF c.op = "update" THEN <<c.id, c.name>> ELSE <<c.id>>

\* The methods of Server.
Server(c) ==
    IF \/ c.op # "list" /\ c.id = <<"">>
       \/ c.op = "update" /\ c.name = <<"">>
    THEN Refused("InvalidArgument")
    ELSE [did |-> c.op, about |-> About(c), status |-> grpcStatusForError(result),
          limit |-> IF c.op \in {"list", "audit"}
                    THEN ListLimit(IF c.limit = None THEN 0 ELSE The(c.limit)) ELSE 0]

AccessUnaryServerInterceptor(c, principal) ==
    LET role == roleForMethod(c.op)
        access == Authorize(principal, The(role))
    IN CASE role = None -> Refused("PermissionDenied")
         [] role # None /\ principal = NoPrincipal -> Refused("Unauthenticated")
         [] OTHER -> CASE access = "ok" -> Server(c)
                       [] access = "unauthenticated" -> Refused("Unauthenticated")
                       [] access = "forbidden" -> Refused("PermissionDenied")

AnswerGRPC ==
    /\ grpcAnswer = None /\ call # None
    /\ LET principal == Authenticate(mode, authorizationFromMetadata(authorization))
       IN grpcAnswer' = Some(To(principal, AccessUnaryServerInterceptor(The(call), principal)))
    /\ UNCHANGED <<mode, call, request, authorization, result, httpAnswer>>

-----------------------------------------------------------------------------

\* The HTTP form of a call, as the API documents it, by a client that escapes
\* what it puts into the path.
Path(c) ==
    CASE c.op = "list" -> <<"api", "v1", "change-packets">>
      [] c.op = "get" -> c.id
      [] c.op = "audit" -> c.id \o <<"evidence", "audit">>
      [] c.op = "update" -> c.id \o <<"evidence">> \o c.name
Escaped(c) ==
    {i \in DOMAIN Path(c) : c.op # "list" /\ (i < Len(c.id) \/ (i > Len(c.id) + 1 /\ i < Len(Path(c))))}
Form(c) ==
    [method |-> IF c.op = "update" THEN "PUT" ELSE "GET",
     route |-> IF c.op = "list" THEN "/api/v1/change-packets" ELSE "/api/v1/change-packets/",
     segments |-> Path(c), escaped |-> Escaped(c),
     limits |-> IF c.limit = None THEN <<>> ELSE <<[number |-> TRUE, n |-> The(c.limit)]>>,
     body |-> IF c.large THEN "large" ELSE "one"]

\* How the service can end for an operation.
Outcomes(op) ==
    CASE op \in {"list", "calibration"} -> {"ok", "error"}
      [] op \in {"get", "audit"} -> {"ok", "packet not found", "error"}
      [] OTHER -> {"ok", "packet not found", "invalid", "evidence not found", "transition", "error"}

CallInit ==
    /\ mode \in Modes
    /\ authorization \in Authorizations[mode]
    /\ \/ \E c \in Calls[mode] : call = Some(c) /\ request = Form(c) /\ result \in Outcomes(c.op)
       \/ call = None /\ request \in OtherRequests[mode] /\ result \in Outcomes("update")
    /\ httpAnswer = None /\ grpcAnswer = None

CallNext == AnswerHTTP \/ AnswerGRPC

CallSpec == CallInit /\ [][CallNext]_callVars

-----------------------------------------------------------------------------
(* What the proofs assume of the callers. *)

\* The values from which a transport takes the credentials of a call.
Presented(m) ==
    {NoAuthorization} \cup UNION {{values[i] : i \in DOMAIN values} : values \in Authorizations[m]}

AuthorizationsAreTyped == \A m \in Modes : Authorizations[m] \subseteq Seq(Presented(m))

\* The calls of the service's four gRPC methods.
CallsAreTyped ==
    \A c \in UNION {Calls[m] : m \in Modes} :
        /\ c.op \in {"get", "list", "audit", "update"} /\ c.large \in BOOLEAN
        /\ c.id \in Seq(STRING) \ {<<>>} /\ c.name \in Seq(STRING) \ {<<>>}
        /\ c.limit = None \/ (c.limit = Some(The(c.limit)) /\ The(c.limit) \in Int)

RequestsAreTyped ==
    \A r \in UNION {OtherRequests[m] : m \in Modes} : r.segments \in Seq(STRING)

Separator(phrase) == IF "," \in ToSet(phrase) THEN "," ELSE " "

\* Between any two words of the phrase is the separator by which it is split.
Separated(phrase) ==
    \A i, j \in DOMAIN phrase :
        (i < j /\ phrase[i] \in Words(phrase) /\ phrase[j] \in Words(phrase)) =>
            \E k \in i..j : phrase[k] = Separator(phrase)

\* A string in the tokens' roles claim separates its words.
RolesAreWords ==
    "jwt" \in Modes =>
        \A value \in Presented("jwt") :
            LET token == The(value.token)
                claim == Claim(The(token.claims), JWT.rolesClaim)
            IN (value.token # None /\ token.claims # None /\ claim.json = "string") =>
                    claim.phrase \in Seq(STRING) /\ Separated(claim.phrase)

-----------------------------------------------------------------------------
(* Properties. *)

Answered == httpAnswer # None /\ grpcAnswer # None

\* The HTTP statuses and the gRPC codes that say the same.
Corresponding ==
    {<<200, "OK">>, <<404, "NotFound">>, <<400, "InvalidArgument">>, <<409, "FailedPrecondition">>,
     <<500, "Internal">>, <<401, "Unauthenticated">>, <<403, "PermissionDenied">>}

\* What the caller's own token says: a configured token, or one that the
\* identity provider signed, still valid, with a word in its roles claim that
\* is bound to writing, however the claim is written down.
Entitled(m, value) ==
    LET Writes(roles) == roles \cap {"evidence_writer", "admin"} # {}
        token == The(value.token)
        claim == Claim(The(token.claims), JWT.rolesClaim)
        words == CASE claim.json = "string" -> Words(claim.phrase)
                   [] claim.json = "list" -> {claim.items[i].text.word : i \in DOMAIN claim.items}
                   [] OTHER -> {}
    IN CASE m = "disabled" -> TRUE
         [] m = "static_token" -> \E i \in DOMAIN Credentials :
                /\ Some(Credentials[i].token) = value.token
                /\ Writes(Credentials[i].principal.roles)
         [] m = "jwt" ->
                /\ token.key = JWT.verifier /\ token.claims # None
                /\ Now < Claim(The(token.claims), "exp").seconds
                /\ \E w \in words \cap DOMAIN JWT.bindings : Writes(JWT.bindings[w])

(***************************************************************************)
(* Whatever the path, the method and the transport, evidence is only       *)
(* updated for a caller whose token entitles to it: the middleware's       *)
(* classification of a path (isEvidenceUpdate) never says less than the    *)
(* handler's own parsing of it, and no form of a roles claim grants more   *)
(* than it says.  Nor less: who is entitled and known is not forbidden.    *)
(***************************************************************************)
UpdateNeedsWriter ==
    LET http == HeaderGet(authorization)
        grpc == authorizationFromMetadata(authorization)
    IN /\ (httpAnswer # None /\ The(httpAnswer).did = "update") => Entitled(mode, http)
       /\ (grpcAnswer # None /\ The(grpcAnswer).did = "update") => Entitled(mode, grpc)
       /\ (/\ grpcAnswer # None /\ The(call).op = "update"
           /\ The(grpcAnswer).principal # NoPrincipal /\ Entitled(mode, grpc)) =>
                The(grpcAnswer).status # "PermissionDenied"

\* A path can carry the text as one segment.
OneSegment(text) == Len(text) = 1 /\ text[1] \notin {".", ".."}

\* The calls that the transports are to treat alike.  They differ on the others:
\* HTTP splits and cleans a path that has another "/", "." or ".." in it, takes
\* evidence named "audit" for the audit trail, refuses a limit below 1 and a
\* body over 64 KiB, and reads the first of several Authorization values.
Comparable(c, values) ==
    /\ OneSegment(c.id) /\ OneSegment(c.name) /\ c.name # <<"audit">>
    /\ c.limit # None => The(c.limit) > 0
    /\ ~c.large
    /\ Len(values) <= 1

(***************************************************************************)
(* The transports agree: a call that both can carry, by the same caller,   *)
(* is refused by both or asks the service the same operation about the     *)
(* same packet and evidence, with the same limit, as the same principal,   *)
(* and ends in corresponding statuses (unless a text is missing).          *)
(***************************************************************************)
TransportsAgree ==
    LET c == The(call)
        http == The(httpAnswer)
        grpc == The(grpcAnswer)
    IN Answered /\ Comparable(c, authorization) =>
        /\ http.did = grpc.did /\ http.about = grpc.about /\ http.limit = grpc.limit
        /\ http.principal = grpc.principal
        /\ <<"">> \notin {c.id, c.name} => <<http.status, grpc.status>> \in Corresponding

(***************************************************************************)
(* api/README.md: "gRPC requests use the same validation and list limits   *)
(* as HTTP."                                                               *)
(***************************************************************************)
SameValidation ==
    Answered /\ The(call).op \in {"list", "audit"} =>
        (The(httpAnswer).did = "nothing" <=> The(grpcAnswer).did = "nothing")

(***************************************************************************)
(* api/README.md: "PUT /api/v1/change-packets/{id}/evidence/{name}         *)
(* reports an evidence status." for every name and report: what gRPC hands *)
(* to the service, HTTP does as well.                                      *)
(***************************************************************************)
EveryNameReportable ==
    Answered /\ The(call).op = "update" =>
        (The(grpcAnswer).did = "update" => The(httpAnswer).did = "update")

=============================================================================
