------------------------------ MODULE Startup ------------------------------
(***************************************************************************)
(* How a service starts and stops: config.Load and the validators, the     *)
(* constructors that main calls in turn, and App.Run with its two servers. *)
(*                                                                         *)
(* A configuration is a record [access, lanes, events, persistence,        *)
(* environment, github, analyzers]; its texts are those of Access.  The    *)
(* world is what the process finds: the environment variables, the key     *)
(* files, and the parts that may fail.                                     *)
(***************************************************************************)
EXTENDS Access

CONSTANTS
    Configs, Worlds,
    EnvironmentNames    \* the words that are names of environment variables

\* validEnvironmentName refuses the empty name.
ASSUME StartupConstants == "" \notin EnvironmentNames

VARIABLES
    service,        \* "controlplane" or "ingest"
    cfg, world,
    stage,          \* the step that main is at, or how it ended
    failedAt,       \* the step that ended the process, or "none"
    grpc, http,     \* the servers: "off", "serving", "draining", "stopped", "failed"
    rpcs,           \* the RPCs in flight
    errCh,          \* the channel of Run
    sent,           \* the servers whose goroutine has sent
    received,       \* how many values Run has received
    stopping        \* how far Shutdown is

servers == <<grpc, http, rpcs, errCh, sent, received, stopping>>
vars == <<service, cfg, world, stage, failedAt, servers>>

-----------------------------------------------------------------------------
(* config.Validate *)

validateRoleSet(roles) ==
    /\ roles # <<>>
    /\ \A i \in DOMAIN roles : IsSupportedRole(roles[i])
    /\ IsInjective(roles)

\* Faulty: subjects are compared as they are written.
validateAccessTokensExact(tokens) ==
    /\ \A i \in DOMAIN tokens :
        /\ TrimSpace(tokens[i].subject) # ""
        /\ TrimSpace(tokens[i].tokenEnv) \in EnvironmentNames
        /\ validateRoleSet(tokens[i].roles)
    /\ Distinct(tokens, LAMBDA t : t.subject)
    /\ Distinct(tokens, LAMBDA t : TrimSpace(t.tokenEnv))

validateAccessTokens(tokens) ==
    /\ \A i \in DOMAIN tokens :
        /\ TrimSpace(tokens[i].subject) # ""
        /\ TrimSpace(tokens[i].tokenEnv) \in EnvironmentNames
        /\ validateRoleSet(tokens[i].roles)
    /\ Distinct(tokens, LAMBDA t : ToLower(TrimSpace(t.subject)))
    /\ Distinct(tokens, LAMBDA t : TrimSpace(t.tokenEnv))

\* Exactly one of the key's two sources is configured, the algorithm's own.
validateJWTAlgorithm(jwt) ==
    LET secret == TrimSpace(jwt.secretEnv)
        path == TrimSpace(jwt.publicKeyPath)
    IN \/ Algorithm(jwt) = "HS256" /\ secret \in EnvironmentNames /\ path = ""
       \/ Algorithm(jwt) = "RS256" /\ secret = "" /\ path # ""

validateJWTClaimsConfig(jwt) ==
    LET Blank(text) == TrimSpace(text) = "" /\ text.pad
    IN /\ TrimSpace(jwt.issuer) # "" /\ TrimSpace(jwt.audience) # ""
       /\ ~Blank(jwt.subjectClaim) /\ ~Blank(jwt.rolesClaim)
       /\ jwt.roleBindings # <<>>

validateJWTBindings(bindings) ==
    /\ \A i \in DOMAIN bindings :
        TrimSpace(bindings[i].claimValue) # "" /\ validateRoleSet(bindings[i].roles)
    /\ Distinct(bindings, LAMBDA b : TrimSpace(b.claimValue))

isZeroJWTConfig(jwt) ==
    /\ \A field \in {"algorithm", "issuer", "audience", "subjectClaim", "rolesClaim",
                     "secretEnv", "publicKeyPath"} : TrimSpace(jwt[field]) = ""
    /\ jwt.roleBindings = <<>>

validateAccess(access) ==
    \/ access.mode = "disabled" /\ access.tokens = <<>> /\ isZeroJWTConfig(access.jwt)
    \/ /\ access.mode = "static_token"
       /\ access.tokens # <<>> /\ isZeroJWTConfig(access.jwt)
       /\ validateAccessTokens(access.tokens)
    \/ /\ access.mode = "jwt"
       /\ access.tokens = <<>>
       /\ validateJWTAlgorithm(access.jwt)
       /\ validateJWTClaimsConfig(access.jwt)
       /\ validateJWTBindings(access.jwt.roleBindings)

Validate(c) ==
    /\ validateAccess(c.access)
    /\ {c.lanes.green, c.lanes.yellow, c.lanes.red} \subseteq 0..100
    /\ c.lanes.green < c.lanes.yellow /\ c.lanes.yellow < c.lanes.red
    /\ c.events \in {"memory", "nats"} /\ c.persistence \in {"memory", "postgres"}

missingOrPlaceholder(text) ==
    ToLower(TrimSpace(text)) \in {"", "replace-me", "replace_me", "change-me", "changeme", "todo"}

ValidateForGitHubIntegration(c) ==
    /\ Validate(c)
    /\ c.github.enabled =>
        \A field \in {"webhookSecret", "appID", "privateKeyPath"} :
            ~missingOrPlaceholder(c.github[field])

ValidateForControlPlane(c) ==
    /\ ValidateForGitHubIntegration(c)
    /\ ~(c.access.mode = "disabled" /\ ToLower(TrimSpace(c.environment)) \in {"prod", "production"})

-----------------------------------------------------------------------------
(* main *)

Init ==
    /\ service \in {"controlplane", "ingest"}
    /\ cfg \in Configs /\ world \in Worlds
    /\ stage = "load" /\ failedAt = "none"
    /\ grpc = "off" /\ http = "off" /\ rpcs = 0
    /\ errCh = <<>> /\ sent = {} /\ received = 0 /\ stopping = "no"

\* A step of main that goes on to the next, or ends the process (log.Fatal).
Step(at, succeeds, next) ==
    /\ stage = at
    /\ IF succeeds
       THEN stage' = next /\ UNCHANGED failedAt
       ELSE stage' = "exited" /\ failedAt' = at
    /\ UNCHANGED <<service, cfg, world, servers>>

\* The file is read and decoded strictly, and is one document.
Load == Step("load", world.file = "ok" /\ Validate(cfg), "validate")

ValidateService ==
    Step("validate",
         IF service = "controlplane" THEN ValidateForControlPlane(cfg)
                                     ELSE ValidateForGitHubIntegration(cfg),
         IF service = "controlplane" THEN "authenticator" ELSE "policy")

LoadPolicy == Step("policy", world.policy, "repository")

buildAuthenticator(access) ==
    \/ access.mode = "disabled"
    \/ access.mode = "static_token" /\ NewStaticTokenAuthenticator(access.tokens, world.env) # None
    \/ access.mode = "jwt" /\ NewJWTAuthenticator(access.jwt, world.env, world.files) # None

BuildAuthenticator == Step("authenticator", buildAuthenticator(cfg.access), "repository")

\* The connection or the migration may fail.
BuildRepository ==
    Step("repository", cfg.persistence = "memory" \/ world.database, "bus")

BuildEventBus == Step("bus", cfg.events = "memory" \/ world.nats, "github")

\* Validation trims the path of the App's key, os.ReadFile takes it as it is
\* written, and no file has a padded name.  The first PEM block is the key.
NewAppAuthenticator(path) ==
    /\ ~path.pad /\ path.word \in DOMAIN world.files
    /\ LET blocks == world.files[path.word]
       IN blocks # <<>> /\ Head(blocks).type = "PRIVATE KEY" /\ Head(blocks).rsa

\* NewClient parses the timeout and reads the App's key.
BuildGitHubService ==
    Step("github",
         cfg.github.enabled => cfg.github.timeout /\ NewAppAuthenticator(cfg.github.privateKeyPath),
         "app")

\* New of the ingest service panics on an analyzer that is not allowlisted.
NewApp ==
    Step("app",
         service = "ingest" =>
            \A i \in DOMAIN cfg.analyzers : cfg.analyzers[i].absolute /\ cfg.analyzers[i].allowlisted,
         "run")

-----------------------------------------------------------------------------
(* App.Run and App.Shutdown of the control plane; the ingest service runs   *)
(* one server, whose error ends main.                                      *)

Capacity == 2

\* Subscribe and Listen come first; then both goroutines are started.
Run ==
    /\ stage = "run"
    /\ IF world.port
       THEN /\ stage' = "serving" /\ UNCHANGED failedAt
            /\ IF service = "ingest" THEN http' = "serving" /\ UNCHANGED grpc
               ELSE grpc' = "serving" /\ http' \in {"serving", "failed"}
       ELSE stage' = "exited" /\ failedAt' = "run" /\ UNCHANGED <<grpc, http>>
    /\ UNCHANGED <<service, cfg, world, rpcs, errCh, sent, received, stopping>>

\* A goroutine sends how its server ended; the channel has room for both.
Send(name, state) ==
    /\ stage \in {"serving", "returned"} /\ service = "controlplane"
    /\ state \in {"stopped", "failed"} /\ name \notin sent
    /\ Len(errCh) < Capacity
    /\ errCh' = Append(errCh, state) /\ sent' = sent \cup {name}
    /\ UNCHANGED <<service, cfg, world, stage, failedAt, grpc, http, rpcs, received, stopping>>

\* Faulty: Run waits for one server only.
ReceiveOne ==
    /\ stage = "serving" /\ errCh # <<>>
    /\ errCh' = Tail(errCh) /\ received' = received + 1
    /\ IF Head(errCh) = "failed"
       THEN stage' = "returned" /\ failedAt' = "serve"
       ELSE stage' = "returned" /\ UNCHANGED failedAt
    /\ UNCHANGED <<service, cfg, world, grpc, http, rpcs, sent, stopping>>

\* The first error is returned at once, else the second end is awaited.
Receive ==
    /\ stage = "serving" /\ errCh # <<>>
    /\ errCh' = Tail(errCh) /\ received' = received + 1
    /\ stage' = IF Head(errCh) = "failed" \/ received = 1 THEN "returned" ELSE stage
    /\ failedAt' = IF Head(errCh) = "failed" THEN "serve" ELSE failedAt
    /\ UNCHANGED <<service, cfg, world, grpc, http, rpcs, sent, stopping>>

\* A server dies of an error of its own.
ServerFails ==
    /\ stage = "serving" /\ service = "controlplane"
    /\ \/ grpc = "serving" /\ grpc' = "failed" /\ UNCHANGED http
       \/ http = "serving" /\ http' = "failed" /\ UNCHANGED grpc
    /\ UNCHANGED <<service, cfg, world, stage, failedAt, rpcs, errCh, sent, received, stopping>>

BeginRPC ==
    /\ grpc = "serving" /\ rpcs = 0 /\ rpcs' = 1
    /\ UNCHANGED <<service, cfg, world, stage, failedAt, grpc, http, errCh, sent, received, stopping>>

EndRPC ==
    /\ rpcs = 1 /\ rpcs' = 0
    /\ UNCHANGED <<service, cfg, world, stage, failedAt, grpc, http, errCh, sent, received, stopping>>

\* Faulty: the HTTP server is left alone.
ShutdownHalf ==
    /\ service = "controlplane" /\ stage = "serving"
    /\ \/ /\ stopping = "no" /\ stopping' = "grpc"
          /\ grpc' = IF grpc = "serving" THEN "draining" ELSE grpc
          /\ UNCHANGED http
       \/ /\ stopping = "grpc" /\ rpcs = 0 /\ stopping' = "done"
          /\ grpc' = IF grpc = "draining" THEN "stopped" ELSE grpc
          /\ UNCHANGED http
    /\ UNCHANGED <<service, cfg, world, stage, failedAt, rpcs, errCh, sent, received>>

\* GracefulStop takes no new RPC and waits for those in flight, whatever the
\* context; only then is the HTTP server shut down.
Shutdown ==
    /\ service = "controlplane" /\ stage = "serving"
    /\ \/ /\ stopping = "no" /\ stopping' = "grpc"
          /\ grpc' = IF grpc = "serving" THEN "draining" ELSE grpc
          /\ UNCHANGED http
       \/ /\ stopping = "grpc" /\ rpcs = 0 /\ stopping' = "http"
          /\ grpc' = IF grpc = "draining" THEN "stopped" ELSE grpc
          /\ UNCHANGED http
       \/ /\ stopping = "http" /\ stopping' = "done"
          /\ http' = IF http = "serving" THEN "stopped" ELSE http
          /\ UNCHANGED grpc
    /\ UNCHANGED <<service, cfg, world, stage, failedAt, rpcs, errCh, sent, received>>

Next ==
    \/ Load \/ ValidateService \/ LoadPolicy \/ BuildAuthenticator
    \/ BuildRepository \/ BuildEventBus \/ BuildGitHubService \/ NewApp
    \/ Run \/ Send("grpc", grpc) \/ Send("http", http) \/ Receive
    \/ ServerFails \/ BeginRPC \/ EndRPC \/ Shutdown

Spec == Init /\ [][Next]_vars

\* Goroutines run, and an RPC ends.
FairSpec ==
    /\ Spec
    /\ WF_vars(Send("grpc", grpc)) /\ WF_vars(Send("http", http)) /\ WF_vars(Receive)
    /\ WF_vars(EndRPC) /\ WF_vars(Shutdown /\ stopping # "no")

-----------------------------------------------------------------------------
(* Properties. *)

\* What the configuration names is there: every variable is set to a token of
\* its own, and the key file holds an RSA key first.
WorldAsConfigured ==
    /\ \A i \in DOMAIN cfg.access.tokens :
        LET name == TrimSpace(cfg.access.tokens[i].tokenEnv)
        IN name \in DOMAIN world.env /\ world.env[name].token # "" /\ ~world.env[name].space
    /\ Distinct(cfg.access.tokens, LAMBDA t : world.env[TrimSpace(t.tokenEnv)].token)
    /\ newJWTVerifier(Algorithm(cfg.access.jwt), cfg.access.jwt, world.env, world.files) # None
       \/ cfg.access.mode # "jwt"

(***************************************************************************)
(* A configuration that the validators accept can be run: building the     *)
(* authenticator, which checks everything again in its own words, only     *)
(* fails when the environment lacks what the configuration names.  And a   *)
(* service that serves has what the lane assigner relies on, thresholds    *)
(* 0 <= green < yellow < red <= 100 (MergeLanes assumes them); in          *)
(* production its control plane knows who calls.                           *)
(***************************************************************************)
ValidConfigServes ==
    /\ failedAt = "authenticator" => ~WorldAsConfigured
    /\ stage = "serving" =>
        /\ 0 <= cfg.lanes.green /\ cfg.lanes.green < cfg.lanes.yellow
        /\ cfg.lanes.yellow < cfg.lanes.red /\ cfg.lanes.red <= 100
        /\ service = "controlplane" /\ cfg.environment.word \in {"prod", "PROD"} =>
            cfg.access.mode # "disabled"

(***************************************************************************)
(* Run returns without an error only when both servers have stopped.       *)
(***************************************************************************)
RunOutlivesServers ==
    stage = "returned" /\ failedAt = "none" => grpc = "stopped" /\ http = "stopped"

(***************************************************************************)
(* Shutdown ends Run, whatever is in flight and whichever server fails     *)
(* meanwhile.                                                              *)
(***************************************************************************)
ShutdownEndsRun == (stopping # "no") ~> (stage = "returned")

=============================================================================
