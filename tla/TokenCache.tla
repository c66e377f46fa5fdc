----------------------------- MODULE TokenCache -----------------------------
(***************************************************************************)
(* github.AppAuthenticator.Token and the calls of github.Client that use   *)
(* its answer.  One mutex guards the cache and is held during the request  *)
(* for a new token; the token is used after it has been released.  Times   *)
(* are in one unit; GitHub's clock and the local one differ by a constant. *)
(* One installation: the cache keeps them apart and the mutex does not.    *)
(***************************************************************************)
EXTENDS Naturals

CONSTANTS
    Callers,        \* goroutines that call GitHub
    LocalOffset,    \* the local clock shows now + LocalOffset
    GitHubOffset,   \* GitHub's clock shows now + GitHubOffset
    Lifetime,       \* of an installation token, from GitHub
    Margin,         \* a cached token is not used this long before it expires
    Backdate,       \* a JWT is issued this long before it is made
    JWTLifetime,    \* and expires this long after
    MaxDelay,       \* no request or answer is under way for longer
    MaxTime,        \* bound on time
    MaxFailures     \* bound on the requests that fail

\* The margins are meant to cover how far apart the clocks are and how long a
\* request takes (github.timeout, 10 seconds unless configured).
ASSUME TokenConstants ==
    /\ "free" \notin Callers
    /\ {LocalOffset, GitHubOffset, Lifetime, Margin, Backdate, JWTLifetime,
        MaxDelay, MaxTime, MaxFailures} \subseteq Nat
    /\ Margin <= Lifetime
    /\ LocalOffset <= GitHubOffset + Backdate
    /\ GitHubOffset + MaxDelay < LocalOffset + JWTLifetime
    /\ GitHubOffset + MaxDelay <= LocalOffset + Margin
    /\ MaxDelay + MaxDelay < Lifetime

VARIABLES
    now,            \* time
    mu,             \* the caller that holds the mutex, or "free"
    cached,         \* expiresAt of the cached token, 0 if there is none
    pc,             \* pc[c]: where c is
    since,          \* since[c]: when c's request or answer got under way
    jwt,            \* jwt[c]: when the JWT that c has sent was made
    token,          \* token[c]: expiresAt of the token c has been given
    failures,       \* requests that failed so far
    rejected        \* GitHub has seen a token after its expiry

vars == <<now, mu, cached, pc, since, jwt, token, failures, rejected>>

Local(t) == t + LocalOffset
GitHub(t) == t + GitHubOffset

\* A call is under way to or from GitHub.
UnderWay == {"post", "answer", "call"}

TypeOK ==
    /\ now \in Nat
    /\ mu \in Callers \cup {"free"}
    /\ cached \in Nat
    /\ pc \in [Callers -> {"idle", "lock"} \cup UnderWay]
    /\ since \in [Callers -> Nat]
    /\ jwt \in [Callers -> Nat]
    /\ token \in [Callers -> Nat]
    /\ failures \in Nat
    /\ rejected \in BOOLEAN

Init ==
    /\ now = 0 /\ mu = "free" /\ cached = 0
    /\ pc = [c \in Callers |-> "idle"]
    /\ since = [c \in Callers |-> 0]
    /\ jwt = [c \in Callers |-> 0]
    /\ token = [c \in Callers |-> 0]
    /\ failures = 0 /\ rejected = FALSE

-----------------------------------------------------------------------------

\* Time passes, no further than the slowest request may take.
Tick ==
    /\ now < MaxTime
    /\ \A c \in Callers : pc[c] \in UnderWay => now < since[c] + MaxDelay
    /\ now' = now + 1
    /\ UNCHANGED <<mu, cached, pc, since, jwt, token, failures, rejected>>

\* A client method asks for a token.
Ask(c) ==
    /\ pc[c] = "idle"
    /\ pc' = [pc EXCEPT ![c] = "lock"]
    /\ UNCHANGED <<now, mu, cached, since, jwt, token, failures, rejected>>

\* Faulty: no margin.
UsableToTheEnd == cached # 0 /\ Local(now) < cached

\* time.Now().Before(expiresAt.Add(-1 * time.Minute)).
Usable == cached # 0 /\ Local(now) + Margin < cached

\* The token goes into a request.
Use(c, expiresAt) ==
    /\ token' = [token EXCEPT ![c] = expiresAt]
    /\ pc' = [pc EXCEPT ![c] = "call"]
    /\ since' = [since EXCEPT ![c] = now]

\* The mutex is free and the cached token will do.
TokenCached(c) ==
    /\ pc[c] = "lock" /\ mu = "free" /\ Usable
    /\ Use(c, cached)
    /\ UNCHANGED <<now, mu, cached, jwt, failures, rejected>>

\* The mutex is free and the cached token will not do: appJWT and the POST.
TokenExpired(c) ==
    /\ pc[c] = "lock" /\ mu = "free" /\ ~Usable
    /\ mu' = c
    /\ pc' = [pc EXCEPT ![c] = "post"]
    /\ since' = [since EXCEPT ![c] = now]
    /\ jwt' = [jwt EXCEPT ![c] = now]
    /\ UNCHANGED <<now, cached, token, failures, rejected>>

\* Faulty: a JWT is issued when it is made.
AcceptsExactly(made) ==
    /\ Local(made) <= GitHub(now)
    /\ GitHub(now) < Local(made) + JWTLifetime

\* GitHub takes a JWT between its iat and its exp.
Accepts(made) ==
    /\ Local(made) <= GitHub(now) + Backdate
    /\ GitHub(now) < Local(made) + JWTLifetime

\* GitHub issues a token: external.
Issue(c) ==
    /\ pc[c] = "post" /\ Accepts(jwt[c])
    /\ token' = [token EXCEPT ![c] = GitHub(now) + Lifetime]
    /\ pc' = [pc EXCEPT ![c] = "answer"]
    /\ since' = [since EXCEPT ![c] = now]
    /\ UNCHANGED <<now, mu, cached, jwt, failures, rejected>>

\* The answer is decoded and cached, and the mutex released.
TokenReceived(c) ==
    /\ pc[c] = "answer"
    /\ cached' = token[c]
    /\ mu' = "free"
    /\ Use(c, token[c])
    /\ UNCHANGED <<now, jwt, failures, rejected>>

\* Faulty: an error returns without releasing the mutex.
TokenFailsLocked(c) ==
    /\ pc[c] \in {"post", "answer"} /\ failures < MaxFailures
    /\ pc' = [pc EXCEPT ![c] = "idle"]
    /\ failures' = failures + 1
    /\ UNCHANGED <<now, mu, cached, since, jwt, token, rejected>>

\* A refused or failed request, a timeout, an answer that does not decode.
TokenFails(c) ==
    /\ pc[c] \in {"post", "answer"} /\ failures < MaxFailures
    /\ pc' = [pc EXCEPT ![c] = "idle"]
    /\ mu' = "free"
    /\ failures' = failures + 1
    /\ UNCHANGED <<now, cached, since, jwt, token, rejected>>

\* The request that carries the token reaches GitHub.
Call(c) ==
    /\ pc[c] = "call"
    /\ rejected' = (rejected \/ GitHub(now) >= token[c])
    /\ pc' = [pc EXCEPT ![c] = "idle"]
    /\ UNCHANGED <<now, mu, cached, since, jwt, token, failures>>

Token(c) == TokenCached(c) \/ TokenExpired(c) \/ TokenReceived(c)

Next ==
    \/ Tick
    \/ \E c \in Callers :
        Ask(c) \/ Token(c) \/ Issue(c) \/ TokenFails(c) \/ Call(c)

Spec == Init /\ [][Next]_vars

(***************************************************************************)
(* Goroutines run; a mutex that is released again and again is eventually  *)
(* obtained (sync.Mutex hands over to a waiter that starves); GitHub       *)
(* answers or the client's timeout ends the wait.  Nobody has to ask.      *)
(***************************************************************************)
FairSpec ==
    /\ Spec
    /\ \A c \in Callers :
        /\ SF_vars(TokenCached(c) \/ TokenExpired(c))
        /\ WF_vars(Issue(c) \/ TokenFails(c))
        /\ WF_vars(TokenReceived(c))
        /\ WF_vars(Call(c))

-----------------------------------------------------------------------------

(***************************************************************************)
(* No call to GitHub carries an expired token, although the token was      *)
(* looked at earlier, by another clock, and possibly for another caller.   *)
(***************************************************************************)
NoExpiredCall == ~rejected

(***************************************************************************)
(* A request for a token is never refused for its JWT: when it arrives,    *)
(* GitHub's clock is past the JWT's iat and has not reached its exp.       *)
(***************************************************************************)
JWTIsTimely == \A c \in Callers : pc[c] = "post" => Accepts(jwt[c])

(***************************************************************************)
(* Callers that find no usable token do not all ask for one: at most one   *)
(* request for a token is under way, and whoever sends it has the mutex.   *)
(***************************************************************************)
OneRequest == \A c \in Callers : pc[c] \in {"post", "answer"} => mu = c

(***************************************************************************)
(* Everyone who waits for a token is answered, although the mutex is held  *)
(* while GitHub is asked and such requests fail.                           *)
(***************************************************************************)
EveryoneServed == \A c \in Callers : pc[c] = "lock" ~> pc[c] # "lock"

=============================================================================
