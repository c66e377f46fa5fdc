------------------------------- MODULE Access -------------------------------
(***************************************************************************)
(* Access control: how an Authorization value becomes a principal and what *)
(* a principal may do.                                                     *)
(*                                                                         *)
(* A text is a record [word, pad]: the word that is left when the white    *)
(* space around it is trimmed, and whether there was any.  A JSON value is *)
(* a record whose field json names its kind.  A role is a string; the      *)
(* roles of a principal are a set, since nothing depends on their order.   *)
(***************************************************************************)
EXTENDS Integers, Sequences, FiniteSets, SequencesExt, FiniteSetsExt

\* What may fail has the value Some(x) or None; Authenticate fails with
\* NoPrincipal.
None == <<>>
Some(x) == <<x>>
The(option) == option[1]

NoPrincipal == [subject |-> "", roles |-> {}]

Text(word) == [word |-> word, pad |-> FALSE]
TrimSpace(text) == text.word

\* strings.ToLower on the words of the configurations.
ToLower(word) ==
    IF word = "CI" THEN "ci" ELSE IF word = "PROD" THEN "prod" ELSE word

IsSupportedRole(role) == role \in {"reader", "evidence_writer", "admin"}

Authorize(principal, role) ==
    IF principal.subject = "" THEN "unauthenticated"
    ELSE IF {"admin", role} \cap principal.roles # {} THEN "ok" ELSE "forbidden"

\* A non-empty sequence of supported roles without repetition.
validatedRoles(roles) ==
    /\ roles # <<>>
    /\ \A i \in DOMAIN roles : IsSupportedRole(roles[i])
    /\ IsInjective(roles)

\* No two entries have the same value of Key.
Distinct(entries, Key(_)) ==
    \A i, j \in DOMAIN entries : Key(entries[i]) = Key(entries[j]) => i = j

-----------------------------------------------------------------------------
(* Static tokens.  env maps the names that are set to their values; a value *)
(* is a record [token, space]: does the token contain white space?         *)

NewStaticTokenAuthenticator(tokens, env) ==
    LET Env(entry) == TrimSpace(entry.tokenEnv)
        valid ==
            /\ tokens # <<>>
            /\ \A i \in DOMAIN tokens :
                /\ TrimSpace(tokens[i].subject) # ""
                /\ Env(tokens[i]) # ""
                /\ validatedRoles(tokens[i].roles)
                /\ Env(tokens[i]) \in DOMAIN env
                /\ env[Env(tokens[i])].token # "" /\ ~env[Env(tokens[i])].space
            /\ Distinct(tokens, LAMBDA entry : ToLower(TrimSpace(entry.subject)))
            /\ Distinct(tokens, Env)
            /\ Distinct(tokens, LAMBDA entry : env[Env(entry)].token)
    IN IF valid
       THEN Some([i \in DOMAIN tokens |->
                [token |-> env[Env(tokens[i])].token,
                 principal |-> [subject |-> TrimSpace(tokens[i].subject),
                                roles |-> ToSet(tokens[i].roles)]]])
       ELSE None

\* An Authorization value is a record [scheme, token, space]: token is None when
\* nothing follows the scheme, space tells whether white space is inside it.
NoAuthorization == [scheme |-> "", token |-> None, space |-> FALSE]

bearerToken(authorization) ==
    IF authorization.scheme \in {"Bearer", "bearer"} /\ ~authorization.space
    THEN authorization.token ELSE None

\* Every credential is compared; the last that matches is taken.
StaticAuthenticate(credentials, authorization) ==
    LET token == bearerToken(authorization)
        matches == {i \in DOMAIN credentials : Some(credentials[i].token) = token}
    IN IF matches = {} THEN NoPrincipal ELSE credentials[Max(matches)].principal

DisabledAuthenticate == [subject |-> "local", roles |-> {"admin"}]

-----------------------------------------------------------------------------
(* JSON Web Tokens.  A token is a record [parts, alg, key, claims]: the     *)
(* number of non-empty parts, the algorithm of its header, the key that    *)
(* signed it, and its claims, a function from names; None if garbled.      *)

Absent == [json |-> "absent"]
Claim(claims, name) == IF name \in DOMAIN claims THEN claims[name] ELSE Absent

\* A key file is a sequence of PEM blocks [type, rsa]; blocks of another type
\* are skipped, the first of a known type decides.
parseRSAPublicKeyPEM(blocks) ==
    LET known == {i \in DOMAIN blocks :
            blocks[i].type \in {"PUBLIC KEY", "RSA PUBLIC KEY", "CERTIFICATE"}}
    IN IF known = {} \/ ~blocks[Min(known)].rsa THEN None ELSE Some(blocks[Min(known)].type)

newJWTVerifier(algorithm, cfg, env, files) ==
    IF algorithm = "HS256"
    THEN LET name == TrimSpace(cfg.secretEnv)
         IN IF name \in DOMAIN env /\ env[name].token # "" THEN Some(env[name].token) ELSE None
    ELSE LET path == TrimSpace(cfg.publicKeyPath)
         IN IF path \in DOMAIN files THEN parseRSAPublicKeyPEM(files[path]) ELSE None

Algorithm(cfg) == IF TrimSpace(cfg.algorithm) = "hs256" THEN "HS256" ELSE TrimSpace(cfg.algorithm)

NewJWTAuthenticator(cfg, env, files) ==
    LET verifier == newJWTVerifier(Algorithm(cfg), cfg, env, files)
        Value(binding) == TrimSpace(binding.claimValue)
        valid ==
            /\ Algorithm(cfg) \in {"HS256", "RS256"}
            /\ TrimSpace(cfg.issuer) # "" /\ TrimSpace(cfg.audience) # ""
            /\ cfg.roleBindings # <<>>
            /\ \A i \in DOMAIN cfg.roleBindings :
                /\ Value(cfg.roleBindings[i]) # ""
                /\ validatedRoles(cfg.roleBindings[i].roles)
            /\ Distinct(cfg.roleBindings, Value)
            /\ verifier # None
        Or(text, default) == IF TrimSpace(text) = "" THEN default ELSE TrimSpace(text)
    IN IF valid
       THEN Some([algorithm |-> Algorithm(cfg), verifier |-> The(verifier),
             issuer |-> TrimSpace(cfg.issuer), audience |-> TrimSpace(cfg.audience),
             subjectClaim |-> Or(cfg.subjectClaim, "sub"),
             rolesClaim |-> Or(cfg.rolesClaim, "roles"),
             bindings |-> [claim \in {Value(cfg.roleBindings[i]) : i \in DOMAIN cfg.roleBindings} |->
                ToSet((CHOOSE b \in ToSet(cfg.roleBindings) : Value(b) = claim).roles)]])
       ELSE None

\* The header's algorithm must be the configured one.
verifiedClaims(a, token) ==
    IF /\ token.alg = a.algorithm
       /\ token.key = a.verifier
    THEN token.claims ELSE None

audienceMatches(value, audience) ==
    \/ value.json = "string" /\ value.text = Text(audience)
    \/ value.json = "list" /\ \E i \in DOMAIN value.items :
        value.items[i].json = "string" /\ value.items[i].text = Text(audience)

\* Whether the number is a date: an integer.
numericDate(value) == value.json = "number" /\ value.integer

validateClaims(a, claims, now) ==
    /\ Claim(claims, "iss").json = "string" /\ Claim(claims, "iss").text = Text(a.issuer)
    /\ audienceMatches(Claim(claims, "aud"), a.audience)
    /\ numericDate(Claim(claims, "exp")) /\ now < Claim(claims, "exp").seconds
    /\ numericDate(Claim(claims, "nbf")) => now >= Claim(claims, "nbf").seconds

subjectFromClaims(a, claims) ==
    LET value == Claim(claims, a.subjectClaim)
    IN IF value.json = "string" THEN TrimSpace(value.text) ELSE ""

\* A roles claim that is a string is a phrase: a sequence of words, "," and " ".
Words(phrase) == ToSet(phrase) \ {",", " "}

\* The parts of a phrase between the places where separator is, without the
\* blanks around them; empty parts are left out.
Parts(phrase, separator) ==
    LET end == Len(phrase) + 1
        cuts == {0, end} \cup {i \in DOMAIN phrase : phrase[i] = separator}
        parts == {SubSeq(phrase, a + 1, Min({b \in cuts : b > a}) - 1) : a \in cuts \ {end}}
        Inner(part) == {i \in DOMAIN part : part[i] # " "}
    IN {SubSeq(p, Min(Inner(p)), Max(Inner(p))) : p \in {p \in parts : Inner(p) # {}}}

\* Between commas when there is one, else between blanks.
splitClaimString(phrase) ==
    IF "," \in ToSet(phrase) THEN Parts(phrase, ",") ELSE Parts(phrase, " ")

\* The values, each a phrase.
claimValues(value) ==
    CASE value.json = "absent" -> Some({})
      [] value.json = "string" -> Some(splitClaimString(value.phrase))
      [] value.json = "list" ->
            IF \A i \in DOMAIN value.items : value.items[i].json = "string"
            THEN Some({<<TrimSpace(value.items[i].text)>> : i \in DOMAIN value.items})
            ELSE None
      [] OTHER -> None

\* A value without a binding grants nothing.
rolesFromClaims(a, claims) ==
    UNION {a.bindings[claim] : claim \in
        {claim \in DOMAIN a.bindings : <<claim>> \in The(claimValues(Claim(claims, a.rolesClaim)))}}

Accepts(a, claims, now) ==
    /\ validateClaims(a, claims, now)
    /\ subjectFromClaims(a, claims) # ""
    /\ claimValues(Claim(claims, a.rolesClaim)) # None

JWTAuthenticate(a, authorization, now) ==
    LET token == bearerToken(authorization)
        claims == IF token # None /\ The(token).parts = 3 THEN verifiedClaims(a, The(token)) ELSE None
    IN IF claims # None /\ Accepts(a, The(claims), now)
       THEN [subject |-> subjectFromClaims(a, The(claims)),
             roles |-> rolesFromClaims(a, The(claims))]
       ELSE NoPrincipal

=============================================================================
