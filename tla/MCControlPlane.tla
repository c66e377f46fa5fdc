--------------------------- MODULE MCControlPlane ---------------------------
(***************************************************************************)
(* One run over the process around the services.  A behaviour is a start   *)
(* of a service (Startup, from MCStartup), a call of a control plane with  *)
(* static tokens or with JSON Web Tokens (ControlPlaneAPI), or a life of   *)
(* the event bus (EventBus); the variable part says which.  The parts      *)
(* share no state: the variables of the others keep their first value, or  *)
(* the value Off.                                                          *)
(***************************************************************************)
EXTENDS MCStartup, ControlPlaneAPI, EventBus, TLC

VARIABLE part

-----------------------------------------------------------------------------
(* Static tokens: one principal per set of roles that matters. *)

Credential(name, roles) == [token |-> name, principal |-> [subject |-> name, roles |-> roles]]
MCCredentials ==
    <<Credential("r", {"reader"}), Credential("w", {"evidence_writer"}),
      Credential("a", {"admin"}), Credential("rw", {"reader", "evidence_writer"})>>
Bearer(token) == [scheme |-> "Bearer", token |-> Some(token), space |-> FALSE]
\* One value of every form, none, and two that disagree.
StaticAuthorizations ==
    {<<Bearer(t)>> : t \in {"r", "w", "a", "rw", "unknown"}}
    \cup {<<[Bearer("r") EXCEPT !.scheme = scheme]>> : scheme \in {"bearer", "Basic"}}
    \cup {<<[Bearer("r") EXCEPT !.space = TRUE]>>, <<NoAuthorization>>, <<>>}
    \cup {<<Bearer("r"), Bearer("w")>>, <<Bearer("w"), Bearer("r")>>}

Limits == {None} \cup {Some(n) : n \in {-1, 0, 1, 50, 199, 200, 201}}
\* "", "cp", "cp/n" and "/cp".
Ids == {<<"">>, <<"cp">>, <<"cp", "n">>, <<"", "cp">>}
Names == {<<"">>, <<"n">>, <<"audit">>, <<"outcomes">>, <<"n", "m">>, <<"..">>}
StaticCalls ==
    [op : {"list"}, id : {<<"cp">>}, name : {<<"n">>}, limit : Limits, large : {FALSE}]
    \cup [op : {"get"}, id : Ids \cup {<<"cp", "evidence", "audit">>}, name : {<<"n">>},
          limit : {None}, large : {FALSE}]
    \cup [op : {"audit"}, id : Ids, name : {<<"n">>}, limit : Limits, large : {FALSE}]
    \cup [op : {"update"}, id : Ids, name : Names, limit : {None}, large : BOOLEAN]

Segments == {"", "cp", "evidence", "audit", "outcomes"}
Request(segments, escaped) ==
    [method : {"GET", "PUT", "POST"}, route : {"/api/v1/change-packets/"}, segments : segments,
     escaped : escaped, limits : {<<>>}, body : {"one", "large"}]
Paths(n) == [1..n -> Segments]
StaticRequests ==
    Request(Paths(1) \cup Paths(2) \cup Paths(3), {{}})
    \cup Request(Paths(2) \cup {<<"cp", "evidence", "">>, <<"", "evidence", "cp">>}, {{1}})
    \cup Request({<<"cp", "evidence", "audit", "cp">>, <<"cp", "evidence", "", "cp">>}, {{}, {2, 3}})
    \cup Request({<<"cp", "evidence", ".">>, <<"..", "evidence", "cp">>, <<"cp", ".", "evidence", "cp">>},
            {{}, {1}})
    \cup {[r EXCEPT !.body = body] :
            r \in Request({<<"cp", "evidence", "n">>, <<"cp", "outcomes">>}, {{}}), body \in {"two", "bad"}}
    \cup {[r EXCEPT !.limits = <<[number |-> FALSE, n |-> 0]>>] :
            r \in Request({<<"cp">>, <<"cp", "evidence", "audit">>}, {{}})}
    \cup {[r EXCEPT !.route = "other"] : r \in Request({<<"cp", "evidence", "n">>}, {{}})}
    \cup {[r EXCEPT !.route = "/api/v1/risk-calibration"] :
            r \in Request({<<"api", "v1", "risk-calibration">>}, {{}})}
    \cup {[r EXCEPT !.route = "/healthz"] : r \in Request({<<"healthz">>}, {{}})}

-----------------------------------------------------------------------------
(* JSON Web Tokens: now is 5. *)

MCJWT ==
    [algorithm |-> "HS256", verifier |-> "secret", issuer |-> "idp", audience |-> "merger",
     subjectClaim |-> "sub", rolesClaim |-> "roles",
     bindings |-> [claim \in {"read", "write"} |->
        IF claim = "read" THEN {"reader"} ELSE {"reader", "evidence_writer"}]]

String(word) == [json |-> "string", text |-> Text(word)]
Number(n) == [json |-> "number", seconds |-> n, integer |-> TRUE]
List(words) == [json |-> "list", items |-> [i \in DOMAIN words |-> String(words[i])]]
Phrase(phrase) == [json |-> "string", phrase |-> phrase]

RoleClaims ==
    {Absent, List(<<>>), List(<<"read">>), List(<<"read", "write">>), List(<<"other", "write">>),
     [json |-> "list", items |-> <<String("read"), Number(1)>>], Number(1)}
    \cup {Phrase(p) : p \in {<<>>, <<"read">>, <<"read", " ", "write">>, <<" ", "other", " ", "write">>,
          <<"read", ",", "write">>, <<"read", ",", " ", "other", ",">>, <<",", " ">>, <<"write", ",", "read">>}}
MCClaims ==
    UNION {LET good == [iss |-> String("idp"), aud |-> String("merger"), exp |-> exp, nbf |-> Absent,
                        sub |-> String("svc"), roles |-> roles]
           IN {good}
              \cup {[good EXCEPT !.iss = iss] : iss \in {String("other"), Absent}}
              \cup {[good EXCEPT !.aud = aud] : aud \in {List(<<"x", "merger">>), List(<<"x">>), Number(1)}}
              \cup {[good EXCEPT !.nbf = nbf] : nbf \in {Number(5), Number(6)}}
              \cup {[good EXCEPT !.sub = sub] :
                        sub \in {[json |-> "string", text |-> [word |-> "", pad |-> TRUE]], Number(1)}} :
        exp \in {Number(5), Number(6), [Number(6) EXCEPT !.integer = FALSE], Absent},
        roles \in RoleClaims}
MCTokens ==
    {[parts |-> 3, alg |-> "HS256", key |-> "secret", claims |-> Some(c)] : c \in MCClaims}
    \cup {[parts |-> p, alg |-> alg, key |-> key, claims |-> None] :
            p \in {2, 3}, alg \in {"HS256", "none"}, key \in {"secret", "forged"}}
TokenAuthorizations ==
    {<<Bearer(t)>> : t \in MCTokens}
UpdateCall == {[op |-> "update", id |-> <<"cp">>, name |-> <<"n">>, limit |-> None, large |-> FALSE]}

-----------------------------------------------------------------------------

\* Calls of every form with static tokens, one with every JSON Web Token.
MCModes == {"static_token", "jwt"}
PerMode(static, jwt) == [m \in MCModes |-> IF m = "jwt" THEN jwt ELSE static]
MCAuthorizations == PerMode(StaticAuthorizations, TokenAuthorizations)
MCCalls == PerMode(StaticCalls, UpdateCall)
MCOtherRequests == PerMode(StaticRequests, {})

\* The callers are as the proofs of ControlPlaneAPI assume them; the static
\* authenticator is the one that is built for a configuration.
ASSUME CallersAssumption ==
    AuthorizationsAreTyped /\ CallsAreTyped /\ RequestsAreTyped /\ RolesAreWords
ASSUME CredentialsAssumption ==
    LET Entry(name, roles) == [subject |-> Text(name), tokenEnv |-> Text(name), roles |-> roles]
    IN NewStaticTokenAuthenticator(
        <<Entry("r", <<"reader">>), Entry("w", <<"evidence_writer">>), Entry("a", <<"admin">>),
          Entry("rw", <<"reader", "evidence_writer">>)>>,
        [name \in {"r", "w", "a", "rw"} |-> [token |-> name, space |-> FALSE]]) = Some(MCCredentials)

\* Two publishers and three subscribers of two event types.
MCTypeOf ==
    ("p1" :> "lane") @@ ("s1" :> "lane") @@ ("s2" :> "lane") @@ ("p2" :> "risk") @@ ("s3" :> "risk")

-----------------------------------------------------------------------------

allVars == <<part, vars, callVars, busVars>>

Off == "off"

NoCall ==
    /\ mode = Off /\ call = None /\ request = Off /\ authorization = Off /\ result = Off
    /\ httpAnswer = None /\ grpcAnswer = None

NoStart ==
    /\ service = Off /\ cfg = Off /\ world = Off /\ stage = Off /\ failedAt = Off
    /\ grpc = Off /\ http = Off /\ rpcs = 0 /\ errCh = <<>> /\ sent = {}
    /\ received = 0 /\ stopping = "no"

NoBus == BusInit /\ backend = "memory"

MCInit ==
    \/ part = "start" /\ Init /\ NoCall /\ NoBus
    \/ part = "call" /\ CallInit /\ NoStart /\ NoBus
    \/ part = "bus" /\ BusInit /\ NoStart /\ NoCall

Start(step) == part = "start" /\ step /\ UNCHANGED <<part, callVars, busVars>>
Answer(step) == part = "call" /\ step /\ UNCHANGED <<part, vars, busVars>>
Deliver(step) == part = "bus" /\ step /\ UNCHANGED <<part, vars, callVars>>

MCNext == Start(Next) \/ Answer(CallNext) \/ Deliver(BusNext)

\* The fairness of FairSpec (Startup) and BusFairSpec (EventBus).
MCSpec ==
    /\ MCInit /\ [][MCNext]_allVars
    /\ WF_allVars(Start(Send("grpc", grpc))) /\ WF_allVars(Start(Send("http", http)))
    /\ WF_allVars(Start(Receive)) /\ WF_allVars(Start(EndRPC))
    /\ WF_allVars(Start(Shutdown /\ stopping # "no"))
    /\ \A s \in Subscribers : WF_allVars(Deliver(NATSSubscribe(s)))
    /\ \A t \in Types, p \in Publishers : WF_allVars(Deliver(Consume(t, p)))

=============================================================================
