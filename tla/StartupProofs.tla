--------------------------- MODULE StartupProofs ---------------------------
(***************************************************************************)
(* Proofs about Startup: what a service that got past the validators can   *)
(* rely on, and when Run returns.                                          *)
(***************************************************************************)
EXTENDS Startup, SequenceTheorems, TLAPS

-----------------------------------------------------------------------------
(* The validators against the constructors. *)

\* What main has established at each of its steps.
Checked ==
    /\ stage \notin {"load", "exited"} => Validate(cfg)
    /\ stage = "authenticator" => service = "controlplane" /\ ValidateForControlPlane(cfg)
    /\ stage \notin {"load", "validate", "exited"} /\ service = "controlplane" =>
        ValidateForControlPlane(cfg)
    /\ failedAt = "authenticator" =>
        ValidateForControlPlane(cfg) /\ ~buildAuthenticator(cfg.access)

(***************************************************************************)
(* buildAuthenticator accepts every configuration that validateAccess      *)
(* accepts, in a world that has what the configuration names: the two      *)
(* check subjects, variables, roles and bindings in words of their own and *)
(* mean the same.                                                          *)
(***************************************************************************)
LEMMA AcceptedIsBuilt ==
    ASSUME validateAccess(cfg.access), WorldAsConfigured
    PROVE  buildAuthenticator(cfg.access)
<1>1. CASE cfg.access.mode = "disabled"
    BY <1>1 DEF buildAuthenticator
<1>2. CASE cfg.access.mode = "static_token"
    <2> DEFINE tokens == cfg.access.tokens
    <2>1. tokens # <<>> /\ validateAccessTokens(tokens)
        BY <1>2 DEF validateAccess
    <2>2. \A i \in DOMAIN tokens :
            /\ TrimSpace(tokens[i].subject) # ""
            /\ TrimSpace(tokens[i].tokenEnv) # ""
            /\ validatedRoles(tokens[i].roles)
        BY <2>1, StartupConstants DEF validateAccessTokens, validateRoleSet, validatedRoles
    <2>3. /\ Distinct(tokens, LAMBDA t : ToLower(TrimSpace(t.subject)))
          /\ Distinct(tokens, LAMBDA t : TrimSpace(t.tokenEnv))
        BY <2>1 DEF validateAccessTokens
    <2>4. /\ \A i \in DOMAIN tokens :
                /\ TrimSpace(tokens[i].tokenEnv) \in DOMAIN world.env
                /\ world.env[TrimSpace(tokens[i].tokenEnv)].token # ""
                /\ ~world.env[TrimSpace(tokens[i].tokenEnv)].space
          /\ Distinct(tokens, LAMBDA t : world.env[TrimSpace(t.tokenEnv)].token)
        BY DEF WorldAsConfigured
    <2>5. NewStaticTokenAuthenticator(tokens, world.env) # None
        BY <2>1, <2>2, <2>3, <2>4 DEF NewStaticTokenAuthenticator, Distinct, Some, None
    <2> QED BY <1>2, <2>5 DEF buildAuthenticator
<1>3. CASE cfg.access.mode = "jwt"
    <2> DEFINE jwt == cfg.access.jwt
    <2>1. /\ validateJWTAlgorithm(jwt) /\ validateJWTClaimsConfig(jwt)
          /\ validateJWTBindings(jwt.roleBindings)
        BY <1>3 DEF validateAccess
    <2>2. Algorithm(jwt) \in {"HS256", "RS256"}
        BY <2>1 DEF validateJWTAlgorithm
    <2>3. TrimSpace(jwt.issuer) # "" /\ TrimSpace(jwt.audience) # "" /\ jwt.roleBindings # <<>>
        BY <2>1 DEF validateJWTClaimsConfig
    <2>4. /\ \A i \in DOMAIN jwt.roleBindings :
                /\ TrimSpace(jwt.roleBindings[i].claimValue) # ""
                /\ validatedRoles(jwt.roleBindings[i].roles)
          /\ Distinct(jwt.roleBindings, LAMBDA b : TrimSpace(b.claimValue))
        BY <2>1 DEF validateJWTBindings, validateRoleSet, validatedRoles
    <2>5. newJWTVerifier(Algorithm(jwt), jwt, world.env, world.files) # None
        BY <1>3 DEF WorldAsConfigured
    <2>6. NewJWTAuthenticator(jwt, world.env, world.files) # None
        BY <2>2, <2>3, <2>4, <2>5 DEF NewJWTAuthenticator, Distinct, Some, None
    <2> QED BY <1>3, <2>6 DEF buildAuthenticator
<1> QED BY <1>1, <1>2, <1>3 DEF validateAccess

\* The validators do not depend on the servers, nor on how far main is.
LEMMA CheckedStep ==
    ASSUME Checked, [Next]_vars
    PROVE  Checked'
<1>1. /\ cfg' = cfg /\ world' = world /\ service' = service
      /\ Validate(cfg)' = Validate(cfg)
      /\ ValidateForControlPlane(cfg)' = ValidateForControlPlane(cfg)
      /\ buildAuthenticator(cfg.access)' = buildAuthenticator(cfg.access)
    <2>1. cfg' = cfg /\ world' = world /\ service' = service
        BY DEF Next, vars, Load, ValidateService, LoadPolicy, BuildAuthenticator,
               BuildRepository, BuildEventBus, BuildGitHubService, NewApp, Step, Run, Send,
               Receive, ServerFails, BeginRPC, EndRPC, Shutdown
    <2> QED BY <2>1 DEF buildAuthenticator
<1>2. CASE Load
    BY <1>1, <1>2 DEF Checked, Load, Step
<1>3. CASE ValidateService
    BY <1>1, <1>3 DEF Checked, ValidateService, Step
<1>4. CASE BuildAuthenticator
    BY <1>1, <1>4 DEF Checked, BuildAuthenticator, Step
<1>5. CASE LoadPolicy \/ BuildRepository \/ BuildEventBus \/ BuildGitHubService \/ NewApp
    BY <1>1, <1>5 DEF Checked, LoadPolicy, BuildRepository, BuildEventBus,
                      BuildGitHubService, NewApp, Step
<1>6. CASE Run
    BY <1>1, <1>6 DEF Checked, Run
<1>7. CASE Receive
    BY <1>1, <1>7 DEF Checked, Receive
<1>8. CASE \/ Send("grpc", grpc) \/ Send("http", http) \/ ServerFails \/ BeginRPC \/ EndRPC
           \/ Shutdown \/ UNCHANGED vars
    <2>1. stage' = stage /\ failedAt' = failedAt
        BY <1>8 DEF Send, ServerFails, BeginRPC, EndRPC, Shutdown, vars
    <2> QED BY <1>1, <2>1 DEF Checked
<1> QED BY <1>2, <1>3, <1>4, <1>5, <1>6, <1>7, <1>8 DEF Next

(***************************************************************************)
(* A configuration that the validators accept can be run, and a service    *)
(* that serves has what the lane assigner and the access control rely on,  *)
(* for every set of configurations and worlds.                             *)
(***************************************************************************)
THEOREM ValidConfigServesHolds == Spec => []ValidConfigServes
<1>1. Init => Checked
    BY DEF Init, Checked
<1>2. Checked /\ [Next]_vars => Checked'
    BY CheckedStep
<1>3. Checked => ValidConfigServes
    <2> SUFFICES ASSUME Checked PROVE ValidConfigServes
        OBVIOUS
    <2>1. failedAt = "authenticator" => ~WorldAsConfigured
        BY AcceptedIsBuilt DEF Checked, ValidateForControlPlane, ValidateForGitHubIntegration,
                               Validate
    <2>2. ASSUME stage = "serving"
          PROVE  /\ 0 <= cfg.lanes.green /\ cfg.lanes.green < cfg.lanes.yellow
                 /\ cfg.lanes.yellow < cfg.lanes.red /\ cfg.lanes.red <= 100
        BY <2>2 DEF Checked, Validate
    <2>3. ASSUME stage = "serving", service = "controlplane", cfg.environment.word \in {"prod", "PROD"}
          PROVE  cfg.access.mode # "disabled"
        BY <2>3 DEF Checked, ValidateForControlPlane, ToLower, TrimSpace
    <2> QED BY <2>1, <2>2, <2>3 DEF ValidConfigServes
<1> QED BY <1>1, <1>2, <1>3, PTL DEF Spec

-----------------------------------------------------------------------------
(* App.Run: every end of a server is sent once and received at most once.  *)

One(P) == IF P THEN 1 ELSE 0

(***************************************************************************)
(* What is sent is in the channel or received; the failure of a server     *)
(* that has sent is still in the channel or has ended Run; and Run goes on *)
(* receiving until it meets a failure or the second end.                   *)
(***************************************************************************)
RunInv ==
    /\ errCh \in Seq({"stopped", "failed"}) /\ received \in 0..2
    /\ sent \subseteq {"grpc", "http"}
    /\ stage \notin {"serving", "returned"} => errCh = <<>> /\ sent = {} /\ received = 0
    /\ received + Len(errCh) = One("grpc" \in sent) + One("http" \in sent)
    /\ "grpc" \in sent => grpc \in {"stopped", "failed"}
    /\ "http" \in sent => http \in {"stopped", "failed"}
    /\ ("grpc" \in sent /\ grpc = "failed") \/ ("http" \in sent /\ http = "failed") =>
        failedAt = "serve" \/ \E i \in DOMAIN errCh : errCh[i] = "failed"
    /\ stage = "serving" => failedAt = "none" /\ received \in {0, 1}
    /\ stage = "returned" /\ failedAt = "none" => received = 2
    /\ stage \notin {"exited", "returned"} => failedAt = "none"

LEMMA RunStart == Init => RunInv
    BY DEF Init, RunInv, One

\* The servers change only while they serve, so what was sent stays true.
LEMMA RunStep ==
    ASSUME RunInv, [Next]_vars
    PROVE  RunInv'
<1> USE DEF RunInv, One
<1>1. CASE \/ Load \/ ValidateService \/ LoadPolicy \/ BuildAuthenticator
           \/ BuildRepository \/ BuildEventBus \/ BuildGitHubService \/ NewApp
    <2>1. /\ UNCHANGED servers /\ stage \notin {"serving", "returned"}
          /\ stage' \notin {"serving", "returned"}
          /\ stage' # "exited" => failedAt' = failedAt
          /\ stage # "exited"
        BY <1>1 DEF Load, ValidateService, LoadPolicy, BuildAuthenticator, BuildRepository,
                    BuildEventBus, BuildGitHubService, NewApp, Step
    <2> QED BY <2>1 DEF servers
<1>2. CASE Run
    BY <1>2 DEF Run
<1>3. ASSUME NEW name \in {"grpc", "http"}, NEW state, Send(name, state),
             state = (IF name = "grpc" THEN grpc ELSE http)
      PROVE  RunInv'
    <2>1. /\ errCh' = Append(errCh, state) /\ sent' = sent \cup {name} /\ name \notin sent
          /\ state \in {"stopped", "failed"} /\ stage \in {"serving", "returned"}
          /\ UNCHANGED <<stage, failedAt, grpc, http, received>>
        BY <1>3 DEF Send
    <2>2. /\ errCh' \in Seq({"stopped", "failed"}) /\ Len(errCh') = Len(errCh) + 1
          /\ \A i \in DOMAIN errCh : i \in DOMAIN errCh' /\ errCh'[i] = errCh[i]
          /\ Len(errCh') \in DOMAIN errCh' /\ errCh'[Len(errCh')] = state
        BY <2>1
    <2>3. received' + Len(errCh') = One("grpc" \in sent') + One("http" \in sent')
        BY <1>3, <2>1, <2>2
    <2>4. ("grpc" \in sent' /\ grpc' = "failed") \/ ("http" \in sent' /\ http' = "failed") =>
            failedAt' = "serve" \/ \E i \in DOMAIN errCh' : errCh'[i] = "failed"
        BY <1>3, <2>1, <2>2
    <2> QED BY <1>3, <2>1, <2>2, <2>3, <2>4
<1>4. CASE Receive
    <2>1. /\ stage = "serving" /\ errCh # <<>> /\ errCh' = Tail(errCh) /\ received' = received + 1
          /\ stage' = (IF Head(errCh) = "failed" \/ received = 1 THEN "returned" ELSE stage)
          /\ failedAt' = (IF Head(errCh) = "failed" THEN "serve" ELSE failedAt)
          /\ UNCHANGED <<grpc, http, sent>>
        BY <1>4 DEF Receive
    <2>2. /\ errCh' \in Seq({"stopped", "failed"}) /\ Len(errCh') = Len(errCh) - 1
          /\ Head(errCh) = errCh[1] /\ Len(errCh) \in Nat \ {0}
        BY <2>1
    <2>3. ASSUME NEW i \in DOMAIN errCh, errCh[i] = "failed", Head(errCh) # "failed"
          PROVE  i - 1 \in DOMAIN errCh' /\ errCh'[i - 1] = "failed"
        BY <2>1, <2>2, <2>3
    <2>4. ("grpc" \in sent' /\ grpc' = "failed") \/ ("http" \in sent' /\ http' = "failed") =>
            failedAt' = "serve" \/ \E i \in DOMAIN errCh' : errCh'[i] = "failed"
        BY <2>1, <2>3
    <2> QED BY <2>1, <2>2, <2>4
<1>5. CASE ServerFails
    BY <1>5 DEF ServerFails
<1>6. CASE Shutdown
    BY <1>6 DEF Shutdown
<1>7. CASE BeginRPC \/ EndRPC \/ UNCHANGED vars
    BY <1>7 DEF BeginRPC, EndRPC, vars, servers
<1> QED BY <1>1, <1>2, <1>3, <1>4, <1>5, <1>6, <1>7 DEF Next

(***************************************************************************)
(* Run returns without an error only when both servers have stopped: it    *)
(* then received twice, so that nothing is left in the channel and no      *)
(* failure of a server can have passed it by.                              *)
(***************************************************************************)
THEOREM RunOutlivesServersHolds == Spec => []RunOutlivesServers
<1>1. Init => RunInv
    BY RunStart
<1>2. RunInv /\ [Next]_vars => RunInv'
    BY RunStep
<1>3. RunInv => RunOutlivesServers
    <2> SUFFICES ASSUME RunInv, stage = "returned", failedAt = "none"
                 PROVE  grpc = "stopped" /\ http = "stopped"
        BY DEF RunOutlivesServers
    <2>1. received = 2 /\ Len(errCh) \in Nat /\ DOMAIN errCh = 1..Len(errCh)
        BY DEF RunInv
    <2>2. "grpc" \in sent /\ "http" \in sent /\ Len(errCh) = 0
        BY <2>1 DEF RunInv, One
    <2> QED BY <2>1, <2>2 DEF RunInv
<1> QED BY <1>1, <1>2, <1>3, PTL DEF Spec

=============================================================================
