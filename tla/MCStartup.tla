----------------------------- MODULE MCStartup -----------------------------
(* Instances of Startup: a plain configuration, and variants of one part. *)
EXTENDS Startup

Padded(word) == [word |-> word, pad |-> TRUE]
Texts == {Text(""), Padded(""), Text("x")}

NoJWT ==
    [algorithm |-> Text(""), issuer |-> Text(""), audience |-> Text(""), subjectClaim |-> Text(""),
     rolesClaim |-> Text(""), secretEnv |-> Text(""), publicKeyPath |-> Text(""), roleBindings |-> <<>>]
Plain ==
    [access |-> [mode |-> "disabled", tokens |-> <<>>, jwt |-> NoJWT],
     lanes |-> [green |-> 20, yellow |-> 55, red |-> 85],
     events |-> "memory", persistence |-> "memory", environment |-> Text("dev"),
     github |-> [enabled |-> FALSE, webhookSecret |-> Text(""), appID |-> Text(""),
                 privateKeyPath |-> Text(""), timeout |-> TRUE],
     analyzers |-> <<>>]

RoleLists == {<<>>, <<"reader">>, <<"admin", "admin">>, <<"owner">>}
Tokens == [subject : {Text(""), Text("ci"), Padded("CI"), Text("x")},
           tokenEnv : {Padded(""), Text("A"), Padded("A"), Text("B"), Text("1A")}, roles : RoleLists]
GoodTokens == {t \in Tokens : t.roles = <<"reader">>}
TokenLists == {<<>>} \cup {<<t>> : t \in Tokens} \cup (GoodTokens \X GoodTokens)
Bindings == [claimValue : {Padded(""), Text("c"), Padded("c")}, roles : RoleLists]
BindingLists == {<<>>} \cup {<<b>> : b \in Bindings} \cup
    {<<b, c>> : b, c \in {d \in Bindings : d.roles = <<"reader">>}}
JWTs ==
    [algorithm : {Text(""), Padded("hs256"), Text("RS256"), Text("ES256")},
     issuer : {Text("x"), Padded("")}, audience : {Text("x"), Text("")},
     subjectClaim : {Text(""), Padded(""), Text("x")}, rolesClaim : {Text("")},
     secretEnv : {Text(""), Padded("A"), Text("1A")}, publicKeyPath : {Text(""), Padded("key")},
     roleBindings : BindingLists]
AccessVariants ==
    {[Plain.access EXCEPT !.mode = "static_token", !.tokens = tokens] : tokens \in TokenLists}
    \cup {[Plain.access EXCEPT !.mode = "jwt", !.jwt = jwt] : jwt \in JWTs}
    \cup {[mode |-> mode, tokens |-> tokens, jwt |-> jwt] :
            mode \in {"disabled", "static_token", "jwt", "none"},
            tokens \in {<<>>, <<CHOOSE t \in GoodTokens : t.subject.word = "x" /\ t.tokenEnv = Text("A")>>},
            jwt \in {NoJWT, [NoJWT EXCEPT !.issuer = Text("x")]}}
GitHubVariants ==
    [enabled : {TRUE}, webhookSecret : {Padded("todo"), Text("x")}, appID : Texts,
     privateKeyPath : {Text("replace-me"), Text("key"), Text("app"), Padded("app"), Text("x")}, timeout : BOOLEAN]
MCConfigs ==
    {[Plain EXCEPT !.access = access] : access \in AccessVariants}
    \cup {[Plain EXCEPT !.github = github] : github \in GitHubVariants}
    \cup {[Plain EXCEPT !.lanes = [green |-> g, yellow |-> y, red |-> r]] :
            g \in {0, 20}, y \in {19, 20, 100}, r \in {20, 100, 101}}
    \cup {[Plain EXCEPT !.environment = e] : e \in {Padded("PROD"), Text("prod")}}
    \cup {[Plain EXCEPT !.events = e, !.persistence = p] :
            e \in {"", "memory", "nats"}, p \in {"", "memory", "postgres"}}
    \cup {[Plain EXCEPT !.analyzers = <<a>>] : a \in [absolute : BOOLEAN, allowlisted : BOOLEAN]}

Env(a, b) == [name \in {"A", "B"} |-> IF name = "A" THEN a ELSE b]
Value(token, space) == [token |-> token, space |-> space]
Fine ==
    [env |-> Env(Value("s", FALSE), Value("t", FALSE)),
     files |-> [path \in {"key", "app"} |->
                  IF path = "app" THEN <<[type |-> "PRIVATE KEY", rsa |-> TRUE]>>
                  ELSE <<[type |-> "COMMENT", rsa |-> FALSE], [type |-> "PUBLIC KEY", rsa |-> TRUE]>>],
     file |-> "ok", policy |-> TRUE, database |-> TRUE, nats |-> TRUE, port |-> TRUE]
MCWorlds ==
    {Fine, [Fine EXCEPT !.env = Env(Value("s", FALSE), Value("s", FALSE))],
     [Fine EXCEPT !.env = Env(Value("", FALSE), Value("t", TRUE))],
     [Fine EXCEPT !.env = <<>>, !.files = <<>>],
     [Fine EXCEPT !.files["key"] = <<[type |-> "CERTIFICATE", rsa |-> FALSE]>>],
     [Fine EXCEPT !.file = "unreadable"], [Fine EXCEPT !.file = "unknown field"],
     [Fine EXCEPT !.policy = FALSE, !.database = FALSE], [Fine EXCEPT !.nats = FALSE],
     [Fine EXCEPT !.port = FALSE]}

=============================================================================
