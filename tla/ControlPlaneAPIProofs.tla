----------------------- MODULE ControlPlaneAPIProofs -----------------------
(***************************************************************************)
(* Proofs about ControlPlaneAPI, for any credentials, token issuer, calls  *)
(* and requests.                                                           *)
(***************************************************************************)
EXTENDS ControlPlaneAPI, SequenceTheorems, NaturalsInduction, WellFoundedInduction, TLAPS

-----------------------------------------------------------------------------
(* One call, over both transports. *)

AllCalls == UNION {Calls[m] : m \in Modes}

\* What CallsAreTyped says of a call.
LEMMA CallType ==
    ASSUME CallsAreTyped, NEW c \in AllCalls
    PROVE  /\ c.op \in {"get", "list", "audit", "update"} /\ c.large \in BOOLEAN
           /\ c.id \in Seq(STRING) \ {<<>>} /\ c.name \in Seq(STRING) \ {<<>>}
           /\ c.limit \in {None} \cup {Some(n) : n \in Int}
BY DEF CallsAreTyped, AllCalls

RoleOf(op) == IF op = "update" THEN "evidence_writer" ELSE "reader"

\* The call names what it is about.
Named(c) == c.op = "list" \/ (c.id # <<"">> /\ (c.op = "update" => c.name # <<"">>))

\* What both transports do with the call.
Did(c, principal) ==
    IF Authorize(principal, RoleOf(c.op)) = "ok" /\ Named(c) THEN c.op ELSE "nothing"
AboutOf(c, principal) == IF Did(c, principal) = "nothing" THEN <<>> ELSE About(c)
FormLimit(c) ==
    IF c.op \notin {"list", "audit"} THEN 0
    ELSE IF c.limit = None THEN DefaultListLimit ELSE Cap(The(c.limit))
LimitOf(c, principal) == IF Did(c, principal) = "nothing" THEN 0 ELSE FormLimit(c)
StatusOf(c, principal, ends) ==
    IF principal.subject = "" THEN "Unauthenticated"
    ELSE IF Authorize(principal, RoleOf(c.op)) = "ok" THEN grpcStatusForError(ends)
    ELSE "PermissionDenied"

\* Every outcome of the service has corresponding statuses.
LEMMA StatusesCorrespond ==
    ASSUME NEW err \in {"ok", "packet not found", "invalid", "evidence not found", "transition", "error"}
    PROVE  <<statusForError(err), grpcStatusForError(err)>> \in Corresponding
<1>1. CASE err = "ok"
    <2>1. statusForError(err) = 200 /\ grpcStatusForError(err) = "OK"
        BY <1>1, Zenon DEF statusForError, grpcStatusForError
    <2> QED BY <2>1, Zenon DEF Corresponding
<1>2. CASE err \in {"packet not found", "evidence not found"}
    <2>1. statusForError(err) = 404 /\ grpcStatusForError(err) = "NotFound"
        BY <1>2, Zenon DEF statusForError, grpcStatusForError
    <2> QED BY <2>1, Zenon DEF Corresponding
<1>3. CASE err = "invalid"
    <2>1. statusForError(err) = 400 /\ grpcStatusForError(err) = "InvalidArgument"
        BY <1>3, Zenon DEF statusForError, grpcStatusForError
    <2> QED BY <2>1, Zenon DEF Corresponding
<1>4. CASE err = "transition"
    <2>1. statusForError(err) = 409 /\ grpcStatusForError(err) = "FailedPrecondition"
        BY <1>4, Zenon DEF statusForError, grpcStatusForError
    <2> QED BY <2>1, Zenon DEF Corresponding
<1>5. CASE err = "error"
    <2>1. statusForError(err) = 500 /\ grpcStatusForError(err) = "Internal"
        BY <1>5, Zenon DEF statusForError, grpcStatusForError
    <2> QED BY <2>1, Zenon DEF Corresponding
<1> QED BY <1>1, <1>2, <1>3, <1>4, <1>5

LEMMA OutcomesAreKnown ==
    ASSUME NEW op, NEW err \in Outcomes(op)
    PROVE  err \in {"ok", "packet not found", "invalid", "evidence not found", "transition", "error"}
BY Zenon DEF Outcomes

LEMMA AuthorizeResults ==
    ASSUME NEW principal, NEW role
    PROVE  /\ Authorize(principal, role) \in {"ok", "unauthenticated", "forbidden"}
           /\ Authorize(principal, role) = "unauthenticated" <=> principal.subject = ""
           /\ Authorize(principal, role) = "ok" => {"admin", role} \cap principal.roles # {}
BY DEF Authorize

LEMMA Served ==
    ASSUME NEW r, NEW p
    PROVE  /\ AccessMiddleware(r, p) = "ok" => ServeHTTP(r, p) = Register(r)
           /\ AccessMiddleware(r, p) = "unauthenticated" => ServeHTTP(r, p) = Refused(401)
           /\ AccessMiddleware(r, p) = "forbidden" => ServeHTTP(r, p) = Refused(403)
<1>1. CASE AccessMiddleware(r, p) = "ok"
    BY <1>1, Zenon DEF ServeHTTP
<1>2. CASE AccessMiddleware(r, p) = "unauthenticated"
    BY <1>2, Zenon DEF ServeHTTP
<1>3. CASE AccessMiddleware(r, p) = "forbidden"
    BY <1>3, Zenon DEF ServeHTTP
<1> QED BY <1>1, <1>2, <1>3, Zenon

LEMMA Intercepted ==
    ASSUME NEW c, c.op \in {"get", "list", "audit", "update"}, NEW p
    PROVE  LET access == Authorize(p, RoleOf(c.op))
               answer == AccessUnaryServerInterceptor(c, p)
           IN /\ access = "ok" => answer = Server(c)
              /\ access = "unauthenticated" => answer = Refused("Unauthenticated")
              /\ access = "forbidden" => answer = Refused("PermissionDenied")
<1> DEFINE access == Authorize(p, RoleOf(c.op))
<1>1. roleForMethod(c.op) = Some(RoleOf(c.op))
    <2>1. CASE c.op = "update"
        BY <2>1, Zenon DEF roleForMethod, RoleOf
    <2>2. CASE c.op \in {"get", "list", "audit"}
        BY <2>2, Zenon DEF roleForMethod, RoleOf
    <2> QED BY <2>1, <2>2
<1>2. roleForMethod(c.op) # None /\ The(roleForMethod(c.op)) = RoleOf(c.op)
    BY <1>1 DEF None, Some, The
<1>3. p = NoPrincipal => access = "unauthenticated"
    <2>1. NoPrincipal.subject = ""
        BY DEF NoPrincipal
    <2> QED BY <2>1, AuthorizeResults
<1>4. CASE access = "ok"
    BY <1>2, <1>3, <1>4, Zenon DEF AccessUnaryServerInterceptor
<1>5. CASE access = "unauthenticated"
    BY <1>2, <1>3, <1>5, Zenon DEF AccessUnaryServerInterceptor
<1>6. CASE access = "forbidden"
    BY <1>2, <1>3, <1>6, Zenon DEF AccessUnaryServerInterceptor
<1> QED BY <1>4, <1>5, <1>6, Zenon

-----------------------------------------------------------------------------
(* Paths. *)

LEMMA Single ==
    ASSUME NEW S, NEW s \in Seq(S)
    PROVE  /\ Len(s) = 1 => s = <<s[1]>>
           /\ s = <<>> <=> Len(s) = 0
           /\ s # <<>> => s[1] \in S
           /\ Len(s) \in Nat
OBVIOUS

LEMMA Joined ==
    ASSUME NEW a, NEW b, NEW d
    PROVE  /\ <<a>> \o <<b, d>> = <<a, b, d>>
           /\ <<a>> \o <<b>> \o <<d>> = <<a, b, d>>
<1>1. PICK S, x, y, z, yz : /\ S = {a, b, d} /\ x = <<a>> /\ y = <<b>> /\ z = <<d>>
                            /\ yz = <<b, d>>
    OBVIOUS
<1>2. /\ x \in Seq(S) /\ Len(x) = 1 /\ x[1] = a
      /\ y \in Seq(S) /\ Len(y) = 1 /\ y[1] = b
      /\ z \in Seq(S) /\ Len(z) = 1 /\ z[1] = d
      /\ yz \in Seq(S) /\ Len(yz) = 2 /\ yz[1] = b /\ yz[2] = d
    BY <1>1
<1>3. \A t \in Seq(S) : Len(t) = 3 => t = <<t[1], t[2], t[3]>>
    OBVIOUS
<1>4. PICK t : t = x \o yz
    OBVIOUS
<1>5. t \in Seq(S) /\ Len(t) = 3 /\ t[1] = a /\ t[2] = b /\ t[3] = d
    <2>1. /\ t \in Seq(S) /\ Len(t) = Len(x) + Len(yz)
          /\ \A i \in 1..Len(x) + Len(yz) : t[i] = IF i <= Len(x) THEN x[i] ELSE yz[i - Len(x)]
        BY <1>2, <1>4, ConcatProperties
    <2> QED BY <1>2, <1>4, <2>1
<1>6. PICK xy : xy = x \o y
    OBVIOUS
<1>7. xy \in Seq(S) /\ Len(xy) = 2 /\ xy[1] = a /\ xy[2] = b
    <2>1. /\ xy \in Seq(S) /\ Len(xy) = Len(x) + Len(y)
          /\ \A i \in 1..Len(x) + Len(y) : xy[i] = IF i <= Len(x) THEN x[i] ELSE y[i - Len(x)]
        BY <1>2, <1>6, ConcatProperties
    <2> QED BY <1>2, <1>6, <2>1
<1>8. PICK u : u = xy \o z
    OBVIOUS
<1>9. u \in Seq(S) /\ Len(u) = 3 /\ u[1] = a /\ u[2] = b /\ u[3] = d
    <2>1. /\ u \in Seq(S) /\ Len(u) = Len(xy) + Len(z)
          /\ \A i \in 1..Len(xy) + Len(z) : u[i] = IF i <= Len(xy) THEN xy[i] ELSE z[i - Len(xy)]
        BY <1>2, <1>7, <1>8, ConcatProperties
    <2> QED BY <1>2, <1>7, <1>8, <2>1
<1>10. t = <<a, b, d>>
    BY <1>3, <1>5, Zenon
<1>11. u = <<a, b, d>>
    BY <1>3, <1>9, Zenon
<1> QED BY <1>1, <1>4, <1>6, <1>8, <1>10, <1>11, Zenon

LEMMA AtMostOne ==
    ASSUME NEW n \in Nat
    PROVE  /\ n = 0 => n # 1
           /\ (n # 0 /\ n <= 1) => n = 1
OBVIOUS

LEMMA Wider ==
    ASSUME NEW S, NEW T, S \subseteq T, NEW s \in Seq(S)
    PROVE  s \in Seq(T)
OBVIOUS

\* Every non-empty set of numbers up to n has a smallest and a largest one.
LEMMA Extremes ==
    ASSUME NEW n \in Nat, NEW T, T \subseteq 0..n, T # {}
    PROVE  /\ Min(T) \in T /\ \A y \in T : Min(T) <= y
           /\ Max(T) \in T /\ \A y \in T : y <= Max(T)
<1>0. \A U \in SUBSET Nat : U # {} => \E x \in U : \A y \in U : ~(y < x)
    <2> SUFFICES ASSUME NEW U \in SUBSET Nat, U # {}
                 PROVE  \E x \in U : \A y \in U : ~(y < x)
        OBVIOUS
    <2>1. \E x \in U : \A y \in U : ~(<<y, x>> \in OpToRel(<, Nat))
        BY NatLessThanWellFounded, WFMin
    <2> QED BY <2>1 DEF OpToRel
<1>1. \E x \in T : \A y \in T : x =< y
    <2>1. PICK x \in T : \A y \in T : ~(y < x)
        BY <1>0
    <2> QED BY <2>1
<1>2. \E x \in T : \A y \in T : x >= y
    <2> DEFINE U == {n - y : y \in T}
    <2>1. U \in SUBSET Nat /\ U # {}
        <3>1. \A y \in T : n - y \in Nat
            OBVIOUS
        <3> QED BY <3>1
    <2>2. PICK u \in U : \A y \in U : ~(y < u)
        BY <1>0, <2>1
    <2>3. PICK x \in T : u = n - x
        BY <2>2
    <2>4. ASSUME NEW y \in T
          PROVE  x >= y
        <3>1. n - y \in U
            OBVIOUS
        <3> HIDE DEF U
        <3>2. ~(n - y < n - x)
            BY <2>2, <2>3, <3>1
        <3> QED BY <3>2
    <2> QED BY <2>4
<1> QED BY <1>1, <1>2 DEF Min, Max

\* Trimming takes what is e at the ends, and only that.
Trim(s, e) ==
    LET inner == {i \in DOMAIN s : s[i] # e}
    IN IF inner = {} THEN <<e>> ELSE SubSeq(s, Min(inner), Max(inner))

LEMMA TrimFacts ==
    ASSUME NEW S, NEW e \in S, NEW s \in Seq(S)
    PROVE  /\ Trim(s, e) \in Seq(S)
           /\ Len(Trim(s, e)) > 1 => Trim(s, e)[Len(Trim(s, e))] # e
           /\ (s # <<>> /\ s[1] # e /\ s[Len(s)] # e) => Trim(s, e) = s
<1>0. PICK inner : inner = {i \in DOMAIN s : s[i] # e}
    OBVIOUS
<1>1. CASE inner = {}
    <2>1. Trim(s, e) = <<e>>
        BY <1>0, <1>1 DEF Trim
    <2>2. s = <<>> \/ s[1] = e
        BY <1>0, <1>1
    <2> QED BY <2>1, <2>2
<1>2. CASE inner # {}
    <2>1. inner \subseteq 0..Len(s) /\ Len(s) \in Nat
        BY <1>0
    <2>2. PICK a, b : a = Min(inner) /\ b = Max(inner)
        OBVIOUS
    <2>3. /\ a \in inner /\ \A y \in inner : a <= y
          /\ b \in inner /\ \A y \in inner : y <= b
        BY <1>2, <2>1, <2>2, Extremes
    <2>4. a \in 1..Len(s) /\ b \in 1..Len(s) /\ a <= b /\ s[b] # e
        BY <1>0, <2>3
    <2>5. Trim(s, e) = SubSeq(s, a, b)
        BY <1>0, <1>2, <2>2 DEF Trim
    <2>6. /\ Trim(s, e) \in Seq(S) /\ Len(Trim(s, e)) = b - a + 1
          /\ \A i \in 1..(b - a + 1) : Trim(s, e)[i] = s[a + i - 1]
        BY <2>4, <2>5
    <2>7. Trim(s, e)[Len(Trim(s, e))] # e
        BY <2>4, <2>6
    <2>8. ASSUME s # <<>>, s[1] # e, s[Len(s)] # e
          PROVE  Trim(s, e) = s
        <3>1. 1 \in inner /\ Len(s) \in inner
            BY <1>0, <2>8
        <3>2. a = 1 /\ b = Len(s)
            BY <2>3, <2>4, <3>1
        <3> QED BY <2>5, <3>2
    <2> QED BY <2>6, <2>7, <2>8
<1> QED BY <1>1, <1>2

LEMMA PathIsTrimmed ==
    ASSUME NEW r
    PROVE  PathParts(r) = Trim(r.segments, "")
BY DEF PathParts, Trim

LEMMA PathOf ==
    ASSUME NEW c
    PROVE  /\ c.op = "list" => Path(c) = <<"api", "v1", "change-packets">>
           /\ c.op = "get" => Path(c) = c.id
           /\ c.op = "audit" => Path(c) = c.id \o <<"evidence", "audit">>
           /\ c.op = "update" => Path(c) = c.id \o <<"evidence">> \o c.name
<1>1. CASE c.op = "list"
    BY <1>1, Zenon DEF Path
<1>2. CASE c.op = "get"
    BY <1>2, Zenon DEF Path
<1>3. CASE c.op = "audit"
    BY <1>3, Zenon DEF Path
<1>4. CASE c.op = "update"
    BY <1>4, Zenon DEF Path
<1> QED BY <1>1, <1>2, <1>3, <1>4, Zenon

\* The paths below a packet that handleChangePacketByID knows; e is the empty
\* string.
HandledAs(r, e, parts, n, answer) ==
    /\ parts[1] = e => answer = Refused(400)
    /\ (parts[1] # e /\ n = 1) => answer = Only(r, "GET", Asked("get", <<<<parts[1]>>>>, 0))
    /\ (parts[1] # e /\ n = 3 /\ parts[2] = "evidence" /\ parts[3] = "audit") =>
            answer = Only(r, "GET", Listed(r, "audit", <<<<parts[1]>>>>))
    /\ (parts[1] # e /\ n = 3 /\ parts[2] = "evidence" /\ parts[3] # "audit") =>
            answer = Only(r, "PUT", Posted(r, "update", <<<<parts[1]>>, <<parts[3]>>>>, {"one"}))
    /\ (parts[1] # e /\ n = 2 /\ parts[2] = "outcomes") =>
            answer = Only(r, "POST", Posted(r, "outcome", <<<<parts[1]>>>>, {"one", "two"}))
    /\ (/\ parts[1] # e /\ n # 1
        /\ ~(n = 3 /\ parts[2] = "evidence") /\ ~(n = 2 /\ parts[2] = "outcomes")) =>
            answer = Refused(404)

LEMMA Lengths == 1 # 2 /\ 1 # 3 /\ 2 # 3
OBVIOUS

LEMMA Handled ==
    ASSUME NEW r, NEW e, e = "", NEW parts, parts = PathParts(r), NEW n, n = Len(parts)
    PROVE  HandledAs(r, e, parts, n, handleChangePacketByID(r))
<1>1. CASE parts[1] = e
    <2>1. handleChangePacketByID(r) = Refused(400)
        <3>1. PathParts(r)[1] = ""
            BY <1>1
        <3>2. IF PathParts(r)[1] = "" THEN handleChangePacketByID(r) = Refused(400) ELSE TRUE
            BY Zenon DEF handleChangePacketByID
        <3> QED BY <3>1, <3>2, Zenon
    <2> QED BY <1>1, <2>1, Zenon DEF HandledAs
<1>2. CASE parts[1] # e /\ n = 1
    BY <1>2, Lengths, Zenon DEF handleChangePacketByID, HandledAs
<1>3. CASE parts[1] # e /\ n = 3 /\ parts[2] = "evidence" /\ parts[3] = "audit"
    BY <1>3, Lengths, Zenon DEF handleChangePacketByID, HandledAs
<1>4. CASE parts[1] # e /\ n = 3 /\ parts[2] = "evidence" /\ parts[3] # "audit"
    BY <1>4, Lengths, Zenon DEF handleChangePacketByID, HandledAs
<1>5. CASE parts[1] # e /\ n = 2 /\ parts[2] = "outcomes"
    BY <1>5, Lengths, Zenon DEF handleChangePacketByID, HandledAs
<1>6. CASE /\ parts[1] # e /\ n # 1
           /\ ~(n = 3 /\ parts[2] = "evidence") /\ ~(n = 2 /\ parts[2] = "outcomes")
    BY <1>6, Lengths, Zenon DEF handleChangePacketByID, HandledAs
<1> QED BY <1>1, <1>2, <1>3, <1>4, <1>5, <1>6, Zenon

LEMMA Routed ==
    ASSUME NEW r
    PROVE  /\ Unclean(r) => Register(r) = Refused(301)
           /\ (~Unclean(r) /\ r.route = "/api/v1/change-packets") =>
                Register(r) = Only(r, "GET", Listed(r, "list", <<>>))
           /\ (~Unclean(r) /\ r.route = "/api/v1/change-packets/") =>
                Register(r) = handleChangePacketByID(r)
           /\ (~Unclean(r) /\ r.route = "/api/v1/risk-calibration") =>
                Register(r) = Only(r, "GET", Asked("calibration", <<>>, 0))
           /\ (~Unclean(r) /\ r.route = "/healthz") => Register(r) = Refused(200)
           /\ (~Unclean(r) /\ r.route \notin {"/api/v1/change-packets", "/api/v1/change-packets/",
                    "/api/v1/risk-calibration", "/healthz"}) => Register(r) = Refused(404)
<1>1. CASE Unclean(r)
    BY <1>1, Zenon DEF Register
<1>2. CASE ~Unclean(r) /\ r.route = "/api/v1/change-packets"
    BY <1>2, Zenon DEF Register
<1>3. CASE ~Unclean(r) /\ r.route = "/api/v1/change-packets/"
    BY <1>3, Zenon DEF Register
<1>4. CASE ~Unclean(r) /\ r.route = "/api/v1/risk-calibration"
    BY <1>4, Zenon DEF Register
<1>5. CASE ~Unclean(r) /\ r.route = "/healthz"
    BY <1>5, Zenon DEF Register
<1>6. CASE ~Unclean(r) /\ r.route \notin {"/api/v1/change-packets", "/api/v1/change-packets/",
                    "/api/v1/risk-calibration", "/healthz"}
    BY <1>6, Zenon DEF Register
<1> QED BY <1>1, <1>2, <1>3, <1>4, <1>5, <1>6, Zenon

LEMMA Trimmed ==
    ASSUME NEW e, NEW a, NEW b, NEW d, a # e, b # e
    PROVE  /\ Trim(<<a>>, e) = <<a>>
           /\ d = e => Trim(<<a, b, d>>, e) = <<a, b>>
<1>0. PICK S : S = {e, a, b, d}
    OBVIOUS
<1>1. Trim(<<a>>, e) = <<a>>
    <2>1. PICK s : s = <<a>>
        OBVIOUS
    <2>2. s \in Seq(S) /\ s # <<>> /\ s[1] = a /\ s[Len(s)] = a /\ e \in S
        BY <1>0, <2>1
    <2>3. Trim(s, e) = s
        BY <2>2, TrimFacts
    <2> QED BY <2>1, <2>3
<1>2. CASE d = e
    <2>1. PICK s : s = <<a, b, d>>
        OBVIOUS
    <2>2. DOMAIN s = 1..3 /\ s[1] = a /\ s[2] = b /\ s[3] = d /\ s \in Seq(S) /\ Len(s) = 3
        BY <1>0, <2>1
    <2>3. PICK inner : inner = {i \in DOMAIN s : s[i] # e}
        OBVIOUS
    <2>4. inner \subseteq 0..3 /\ 3 \in Nat /\ inner # {} /\ 1 \in inner /\ 2 \in inner
          /\ \A i \in inner : i = 1 \/ i = 2
        BY <1>2, <2>2, <2>3
    <2>5. Min(inner) = 1 /\ Max(inner) = 2
        <3>1. PICK x, y : x = Min(inner) /\ y = Max(inner)
            OBVIOUS
        <3>2. x \in inner /\ y \in inner /\ x <= 1 /\ 2 <= y
            BY <2>4, <3>1, Extremes
        <3>3. x = 1 /\ y = 2
            BY <2>4, <3>2
        <3> QED BY <3>1, <3>3
    <2>6. Trim(s, e) = SubSeq(s, Min(inner), Max(inner))
        BY <2>3, <2>4 DEF Trim
    <2>7. Trim(s, e) = SubSeq(s, 1, 2)
        BY <2>5, <2>6
    <2>8. SubSeq(s, 1, 2) = <<a, b>>
        <3>1. PICK q : q = SubSeq(s, 1, 2)
            OBVIOUS
        <3>2. q \in Seq(S) /\ Len(q) = 2
            BY <2>2, <3>1
        <3>3. q[1] = a /\ q[2] = b
            BY <2>2, <3>1
        <3>4. q = <<q[1], q[2]>>
            BY <3>2
        <3> QED BY <3>1, <3>3, <3>4
    <2> QED BY <1>1, <1>2, <2>1, <2>7, <2>8
<1> QED BY <1>1, <1>2

LEMMA TrimmedThree ==
    ASSUME NEW e, NEW a, NEW b, NEW d, a # e, d # e
    PROVE  Trim(<<a, b, d>>, e) = <<a, b, d>>
<1>1. PICK S, s : S = {e, a, b, d} /\ s = <<a, b, d>>
    OBVIOUS
<1>2. s \in Seq(S) /\ s # <<>> /\ s[1] = a /\ s[Len(s)] = d /\ e \in S
    BY <1>1
<1>3. Trim(s, e) = s
    BY <1>2, TrimFacts
<1> QED BY <1>1, <1>3

LEMMA FormFields ==
    ASSUME NEW c
    PROVE  /\ Form(c).method = IF c.op = "update" THEN "PUT" ELSE "GET"
           /\ Form(c).route = IF c.op = "list" THEN "/api/v1/change-packets" ELSE "/api/v1/change-packets/"
           /\ Form(c).segments = Path(c) /\ Form(c).escaped = Escaped(c)
           /\ Form(c).limits = IF c.limit = None THEN <<>> ELSE <<[number |-> TRUE, n |-> The(c.limit)]>>
           /\ Form(c).body = IF c.large THEN "large" ELSE "one"
BY DEF Form

\* A positive limit is read alike.
LEMMA LimitIsParsed ==
    ASSUME NEW c, c.limit \in {None} \cup {Some(n) : n \in Int}, NEW op, NEW about,
           c.limit # None => The(c.limit) > 0
    PROVE  LET limit == IF c.limit = None THEN DefaultListLimit ELSE Cap(The(c.limit))
           IN /\ Listed(Form(c), op, about) = Asked(op, about, limit)
              /\ ListLimit(IF c.limit = None THEN 0 ELSE The(c.limit)) = limit
<1>1. CASE c.limit = None
    <2>1. Form(c).limits = <<>>
        BY <1>1, FormFields
    <2>2. parseListLimit(Form(c)) = Some(DefaultListLimit)
        BY <2>1 DEF parseListLimit
    <2>3. Listed(Form(c), op, about) = Asked(op, about, DefaultListLimit)
        BY <2>2 DEF Listed, Some, None, The
    <2>4. ListLimit(0) = DefaultListLimit
        BY DEF ListLimit
    <2> QED BY <1>1, <2>3, <2>4
<1>2. CASE c.limit # None
    <2>1. PICK n \in Int : c.limit = Some(n)
        BY <1>2
    <2>2. The(c.limit) = n /\ n > 0
        BY <1>2, <2>1 DEF Some, The
    <2>3. Form(c).limits = <<[number |-> TRUE, n |-> n]>>
        BY <1>2, <2>2, FormFields
    <2>4. PICK r, q : r = Form(c) /\ q = [number |-> TRUE, n |-> n]
        OBVIOUS
    <2>5. q.number /\ q.n = n
        BY <2>4
    <2>6. r.limits = <<q>>
        BY <2>3, <2>4
    <2>7. Len(r.limits) = 1 /\ r.limits[1] = q /\ r.limits # <<>>
        BY <2>6
    <2>8. parseListLimit(r) = Some(Cap(n))
        BY <2>2, <2>5, <2>7 DEF parseListLimit
    <2>9. Listed(r, op, about) = Asked(op, about, Cap(n))
        BY <2>8 DEF Listed, Some, None, The
    <2>10. ListLimit(n) = Cap(n)
        BY <2>2 DEF ListLimit
    <2> QED BY <1>2, <2>2, <2>4, <2>9, <2>10
<1> QED BY <1>1, <1>2

\* The mux and the handlers understand the form of a call.
LEMMA FormIsRegistered ==
    ASSUME CallsAreTyped, NEW c \in AllCalls, NEW values, Comparable(c, values)
    PROVE  /\ Named(c) => Register(Form(c)) = Asked(c.op, About(c), FormLimit(c))
           /\ ~Named(c) => \E status : Register(Form(c)) = Refused(status)
           /\ c.op # "update" => ~isEvidenceUpdate(Form(c))
           /\ c.op = "update" /\ Named(c) => isEvidenceUpdate(Form(c))
<1>0. /\ c.op \in {"get", "list", "audit", "update"}
      /\ c.id \in Seq(STRING) /\ c.name \in Seq(STRING)
      /\ c.limit \in {None} \cup {Some(n) : n \in Int}
    BY CallType
<1>1. PICK r, id, name, e : r = Form(c) /\ id = c.id[1] /\ name = c.name[1] /\ e = ""
    BY Zenon
<1>10. /\ Len(c.id) = 1 /\ Len(c.name) = 1 /\ c.name # <<"audit">> /\ ~c.large
       /\ id \notin {".", ".."} /\ name \notin {".", ".."}
       /\ c.limit # None => The(c.limit) > 0
    BY <1>1, Zenon DEF Comparable, OneSegment
<1>11. c.id = <<id>> /\ c.name = <<name>>
    BY <1>0, <1>1, <1>10, Single, Zenon
<1>12. name # "audit"
    BY <1>10, <1>11
<1>13. /\ c.id = <<"">> <=> id = e
       /\ c.name = <<"">> <=> name = e
    <2>1. /\ <<id>> = <<e>> <=> id = e
          /\ <<name>> = <<e>> <=> name = e
        BY SMT
    <2> QED BY <1>1, <1>11, <2>1, Zenon
<1>2. e # "evidence" /\ e # "audit" /\ e \notin {"api", "v1", "change-packets"}
    BY <1>1, Zenon
<1>3. PathParts(r) = Trim(r.segments, e)
    BY <1>1, PathIsTrimmed, Zenon
<1>30. HandledAs(r, e, PathParts(r), Len(PathParts(r)), handleChangePacketByID(r))
    BY <1>1, Handled, Zenon
<1>4. /\ r.method = IF c.op = "update" THEN "PUT" ELSE "GET"
      /\ r.segments = Path(c) /\ r.escaped = Escaped(c) /\ r.body = "one"
      /\ c.op # "list" => r.route = "/api/v1/change-packets/"
      /\ c.op = "list" => r.route = "/api/v1/change-packets"
    BY <1>1, <1>10, FormFields, Zenon
<1>40. Unclean(r) <=> \E i \in DOMAIN r.segments :
            /\ i \notin r.escaped /\ i - 1 \notin r.escaped
            /\ r.segments[i] \in {".", ".."} \/ (r.segments[i] = e /\ i < Len(r.segments))
    BY <1>1, Zenon DEF Unclean
<1>5. c.op # "update" => ~isEvidenceUpdate(r)
    BY <1>4, Zenon DEF isEvidenceUpdate
<1>6. \A op, about : Listed(r, op, about) =
        Asked(op, about, IF c.limit = None THEN DefaultListLimit ELSE Cap(The(c.limit)))
    BY <1>0, <1>1, <1>10, LimitIsParsed, Zenon
<1>7. CASE c.op = "list"
    <2>1. r.segments = <<"api", "v1", "change-packets">>
        BY <1>4, <1>7, PathOf, Zenon
    <2>3. \A i \in DOMAIN r.segments : r.segments[i] \in {"api", "v1", "change-packets"}
        BY <2>1
    <2>4. ~Unclean(r)
        BY <1>2, <1>40, <2>3
    <2>5. Register(r) = Only(r, "GET", Listed(r, "list", <<>>))
        BY <1>4, <1>7, <2>4, Routed, Zenon
    <2>6. Only(r, "GET", Listed(r, "list", <<>>)) = Asked("list", About(c), FormLimit(c))
        BY <1>4, <1>6, <1>7, Zenon DEF Only, FormLimit, About
    <2> QED BY <1>1, <1>5, <1>7, <2>5, <2>6, Zenon DEF Named
<1>8. CASE c.op = "get"
    <2>1. r.segments = <<id>>
        BY <1>4, <1>8, <1>11, PathOf, Zenon
    <2>2. Len(r.segments) = 1 /\ DOMAIN r.segments = {1} /\ r.segments[1] = id
        BY <2>1
    <2>4. ~Unclean(r)
        BY <1>10, <1>40, <2>2
    <2>5. Register(r) = handleChangePacketByID(r)
        BY <1>4, <1>8, <2>4, Routed, Zenon
    <2>6. CASE id = e
        <3>1. r.segments = <<e>>
            BY <2>1, <2>6
        <3>2. Trim(<<e>>, e) = <<e>>
            <4>1. PICK s : s = <<e>>
                OBVIOUS
            <4>2. DOMAIN s = {1} /\ s[1] = e
                BY <4>1
            <4>3. {i \in DOMAIN s : s[i] # e} = {}
                BY <4>2
            <4>4. Trim(s, e) = <<e>>
                BY <4>3 DEF Trim
            <4> QED BY <4>1, <4>4
        <3>3. PathParts(r)[1] = e
            BY <1>3, <3>1, <3>2
        <3>4. handleChangePacketByID(r) = Refused(400)
            BY <1>30, <3>3 DEF HandledAs
        <3> QED BY <1>1, <1>5, <1>8, <1>13, <2>5, <2>6, <3>4, Zenon DEF Named
    <2>7. CASE id # e
        <3>1. PathParts(r) = <<id>>
            BY <1>2, <1>3, <2>1, <2>7, Trimmed
        <3>2. PathParts(r)[1] = id /\ Len(PathParts(r)) = 1
            BY <3>1
        <3>3. handleChangePacketByID(r) = Only(r, "GET", Asked("get", <<<<id>>>>, 0))
            BY <1>30, <2>7, <3>2 DEF HandledAs
        <3>4. Only(r, "GET", Asked("get", <<<<id>>>>, 0)) = Asked("get", About(c), FormLimit(c))
            BY <1>4, <1>8, <1>11, Zenon DEF Only, FormLimit, About
        <3>5. Named(c)
            BY <1>8, <1>13, <2>7, Zenon DEF Named
        <3> QED BY <1>1, <1>5, <1>8, <2>5, <3>3, <3>4, <3>5, Zenon
    <2> QED BY <2>6, <2>7
<1>9. CASE c.op \in {"audit", "update"}
    <2>1. PICK last : last = IF c.op = "audit" THEN "audit" ELSE name
        OBVIOUS
    <2>2. r.segments = <<id, "evidence", last>>
        <3>1. CASE c.op = "audit"
            <4>1. r.segments = <<id>> \o <<"evidence", "audit">>
                BY <1>4, <1>11, <3>1, PathOf, Zenon
            <4> QED BY <2>1, <3>1, <4>1, Joined, Zenon
        <3>2. CASE c.op = "update"
            <4>1. r.segments = <<id>> \o <<"evidence">> \o <<name>>
                BY <1>4, <1>11, <3>2, PathOf, Zenon
            <4>2. last = name
                BY <2>1, <3>2
            <4> QED BY <4>1, <4>2, Joined, Zenon
        <3> QED BY <1>9, <3>1, <3>2
    <2>3. /\ Len(r.segments) = 3 /\ DOMAIN r.segments = {1, 2, 3}
          /\ r.segments[1] = id /\ r.segments[2] = "evidence" /\ r.segments[3] = last
        BY <2>2
    <2>30. r.escaped = {}
        <3>1. \A i \in {1, 2, 3} : ~(i < 1 \/ (i > 1 + 1 /\ i < 3))
            OBVIOUS
        <3>2. Escaped(c) = {i \in {1, 2, 3} : c.op # "list" /\ (i < 1 \/ (i > 1 + 1 /\ i < 3))}
            BY <1>4, <1>10, <2>3, Zenon DEF Escaped
        <3> QED BY <1>4, <3>1, <3>2, Zenon
    <2>4. CASE id = e
        <3>2. Unclean(r)
            <4>1. 1 \in DOMAIN r.segments /\ 1 < Len(r.segments) /\ r.segments[1] = e
                BY <2>3, <2>4
            <4> QED BY <1>40, <2>30, <4>1, Zenon
        <3>3. Register(r) = Refused(301)
            BY <3>2, Routed, Zenon
        <3> QED BY <1>1, <1>5, <1>9, <1>13, <2>4, <3>3, Zenon DEF Named
    <2>5. CASE id # e
        <3>2. ~Unclean(r)
            <4>1. last \notin {".", ".."}
                BY <1>10, <2>1
            <4> QED BY <1>2, <1>10, <1>40, <2>3, <2>5, <4>1
        <3>3. Register(r) = handleChangePacketByID(r)
            BY <1>4, <1>9, <3>2, Routed, Zenon
        <3>4. CASE last = e
            <4>1. PathParts(r) = <<id, "evidence">>
                <5>1. PICK word : word = "evidence"
                    OBVIOUS
                <5>2. Trim(<<id, word, last>>, e) = <<id, word>>
                    BY <1>2, <2>5, <3>4, <5>1, Trimmed, Zenon
                <5> QED BY <1>3, <2>2, <5>1, <5>2, Zenon
            <4>2. /\ PathParts(r)[1] = id /\ Len(PathParts(r)) = 2 /\ PathParts(r)[2] = "evidence"
                  /\ Len(PathParts(r)) # 1 /\ Len(PathParts(r)) # 3
                BY <4>1
            <4>3. handleChangePacketByID(r) = Refused(404)
                BY <1>30, <2>5, <4>2 DEF HandledAs
            <4>4. c.op = "update" /\ name = e
                BY <1>2, <1>9, <2>1, <3>4, Zenon
            <4> QED BY <1>1, <1>13, <3>3, <4>3, <4>4, Zenon DEF Named
        <3>5. CASE last # e
            <4>1. PathParts(r) = <<id, "evidence", last>>
                <5>1. PICK word : word = "evidence"
                    OBVIOUS
                <5>2. Trim(<<id, word, last>>, e) = <<id, word, last>>
                    BY <2>5, <3>5, TrimmedThree
                <5> QED BY <1>3, <2>2, <5>1, <5>2, Zenon
            <4>2. /\ PathParts(r)[1] = id /\ Len(PathParts(r)) = 3 /\ PathParts(r)[2] = "evidence"
                  /\ PathParts(r)[3] = last
                BY <4>1
            <4>3. Named(c)
                BY <1>9, <1>13, <2>1, <2>5, <3>5, Zenon DEF Named
            <4>4. CASE c.op = "audit"
                <5>1. last = "audit"
                    BY <2>1, <4>4
                <5>2. handleChangePacketByID(r) = Only(r, "GET", Listed(r, "audit", <<<<id>>>>))
                    BY <1>30, <2>5, <4>2, <5>1 DEF HandledAs
                <5>3. Only(r, "GET", Listed(r, "audit", <<<<id>>>>)) = Asked("audit", About(c), FormLimit(c))
                    BY <1>4, <1>6, <1>11, <4>4, Zenon DEF Only, FormLimit, About
                <5> QED BY <1>1, <1>5, <3>3, <4>3, <4>4, <5>2, <5>3, Zenon
            <4>5. CASE c.op = "update"
                <5>1. last = name /\ last # "audit"
                    BY <1>12, <2>1, <4>5, Zenon
                <5>2. handleChangePacketByID(r) =
                        Only(r, "PUT", Posted(r, "update", <<<<id>>, <<name>>>>, {"one"}))
                    BY <1>30, <2>5, <4>2, <5>1 DEF HandledAs
                <5>3. Only(r, "PUT", Posted(r, "update", <<<<id>>, <<name>>>>, {"one"})) =
                        Asked("update", About(c), FormLimit(c))
                    BY <1>4, <1>11, <4>5, Zenon DEF Only, Posted, FormLimit, About
                <5>4. isEvidenceUpdate(r)
                    BY <1>1, <1>4, <2>5, <3>5, <4>2, <4>5, Zenon DEF isEvidenceUpdate
                <5> QED BY <1>1, <3>3, <4>3, <4>5, <5>2, <5>3, <5>4, Zenon
            <4> QED BY <1>9, <4>4, <4>5
        <3> QED BY <3>4, <3>5
    <2> QED BY <2>4, <2>5
<1> QED BY <1>0, <1>7, <1>8, <1>9, Zenon

-----------------------------------------------------------------------------
(* The transports agree. *)

LEMMA HTTPAgrees ==
    ASSUME CallsAreTyped, NEW c \in AllCalls, NEW values, Comparable(c, values), NEW p, result \in Outcomes(c.op)
    PROVE  LET answer == ServeHTTP(Form(c), p)
           IN /\ answer.did = Did(c, p) /\ answer.about = AboutOf(c, p) /\ answer.limit = LimitOf(c, p)
              /\ Named(c) => <<answer.status, StatusOf(c, p, result)>> \in Corresponding
<1>0. PICK r, answer, access :
        /\ r = Form(c) /\ answer = ServeHTTP(r, p) /\ access = AccessMiddleware(r, p)
    OBVIOUS
<1>1. /\ Named(c) => Register(r) = Asked(c.op, About(c), FormLimit(c))
      /\ ~Named(c) => \E status : Register(r) = Refused(status)
      /\ c.op # "update" => ~isEvidenceUpdate(r)
      /\ c.op = "update" /\ Named(c) => isEvidenceUpdate(r)
    BY <1>0, FormIsRegistered, Zenon
<1>2. r.route # "/healthz"
    BY <1>0, FormFields, Zenon
<1>3. \E role : access = Authorize(p, role)
    BY <1>0, <1>2, Zenon DEF AccessMiddleware
<1>4. Named(c) \/ c.op # "update" => access = Authorize(p, RoleOf(c.op))
    BY <1>0, <1>1, <1>2, Zenon DEF AccessMiddleware, RoleOf
<1>5. access \in {"ok", "unauthenticated", "forbidden"}
    BY <1>3, AuthorizeResults, Zenon
<1>6. /\ access = "ok" => answer = Register(r)
      /\ access = "unauthenticated" => answer = Refused(401)
      /\ access = "forbidden" => answer = Refused(403)
    BY <1>0, Served
<1>7. c.op # "nothing"
    BY CallType
<1>8. CASE ~Named(c)
    <2>1. Did(c, p) = "nothing" /\ AboutOf(c, p) = <<>> /\ LimitOf(c, p) = 0
        BY <1>8, Zenon DEF Did, AboutOf, LimitOf
    <2>2. \E status : answer = Refused(status)
        BY <1>1, <1>5, <1>6, <1>8, Zenon
    <2>3. answer.did = "nothing" /\ answer.about = <<>> /\ answer.limit = 0
        BY <2>2 DEF Refused
    <2> QED BY <1>0, <1>8, <2>1, <2>3
<1>9. CASE Named(c) /\ access = "ok"
    <2>1. Did(c, p) = c.op
        BY <1>4, <1>9, Zenon DEF Did
    <2>2. AboutOf(c, p) = About(c) /\ LimitOf(c, p) = FormLimit(c)
        BY <1>7, <2>1, Zenon DEF AboutOf, LimitOf
    <2>3. StatusOf(c, p, result) = grpcStatusForError(result)
        BY <1>4, <1>9, AuthorizeResults, Zenon DEF StatusOf
    <2>4. answer = Asked(c.op, About(c), FormLimit(c))
        BY <1>1, <1>6, <1>9
    <2>5. answer.did = c.op /\ answer.about = About(c) /\ answer.limit = FormLimit(c) /\ answer.status = statusForError(result)
        BY <2>4 DEF Asked
    <2>6. <<statusForError(result), grpcStatusForError(result)>> \in Corresponding
        BY OutcomesAreKnown, StatusesCorrespond, Zenon
    <2> QED BY <1>0, <2>1, <2>2, <2>3, <2>5, <2>6, Zenon
<1>10. CASE Named(c) /\ access = "unauthenticated"
    <2>1. Did(c, p) = "nothing" /\ AboutOf(c, p) = <<>> /\ LimitOf(c, p) = 0
        BY <1>4, <1>10, Zenon DEF Did, AboutOf, LimitOf
    <2>2. StatusOf(c, p, result) = "Unauthenticated"
        BY <1>4, <1>10, AuthorizeResults, Zenon DEF StatusOf
    <2>3. answer.did = "nothing" /\ answer.about = <<>> /\ answer.limit = 0 /\ answer.status = 401
        BY <1>6, <1>10 DEF Refused
    <2>4. <<401, "Unauthenticated">> \in Corresponding
        BY Zenon DEF Corresponding
    <2> QED BY <1>0, <2>1, <2>2, <2>3, <2>4
<1>11. CASE Named(c) /\ access = "forbidden"
    <2>1. Did(c, p) = "nothing" /\ AboutOf(c, p) = <<>> /\ LimitOf(c, p) = 0
        BY <1>4, <1>11, Zenon DEF Did, AboutOf, LimitOf
    <2>2. StatusOf(c, p, result) = "PermissionDenied"
        BY <1>4, <1>11, AuthorizeResults, Zenon DEF StatusOf
    <2>3. answer.did = "nothing" /\ answer.about = <<>> /\ answer.limit = 0 /\ answer.status = 403
        BY <1>6, <1>11 DEF Refused
    <2>4. <<403, "PermissionDenied">> \in Corresponding
        BY DEF Corresponding
    <2> QED BY <1>0, <2>1, <2>2, <2>3, <2>4
<1> QED BY <1>5, <1>8, <1>9, <1>10, <1>11, Zenon

LEMMA GRPCAgrees ==
    ASSUME CallsAreTyped, NEW c \in AllCalls, NEW values, Comparable(c, values), NEW p
    PROVE  LET answer == AccessUnaryServerInterceptor(c, p)
           IN /\ answer.did = Did(c, p) /\ answer.about = AboutOf(c, p) /\ answer.limit = LimitOf(c, p)
              /\ Named(c) => answer.status = StatusOf(c, p, result)
<1>0. PICK answer, access :
        answer = AccessUnaryServerInterceptor(c, p) /\ access = Authorize(p, RoleOf(c.op))
    OBVIOUS
<1>1. /\ c.op \in {"get", "list", "audit", "update"} /\ c.op # "nothing"
      /\ c.limit \in {None} \cup {Some(n) : n \in Int}
    BY CallType
<1>2. access \in {"ok", "unauthenticated", "forbidden"}
    BY <1>0, AuthorizeResults, Zenon
<1>3. /\ access = "ok" => answer = Server(c)
      /\ access = "unauthenticated" => answer = Refused("Unauthenticated")
      /\ access = "forbidden" => answer = Refused("PermissionDenied")
    BY <1>0, <1>1, Intercepted
<1>4. CASE access = "ok" /\ ~Named(c)
    <2>1. Did(c, p) = "nothing" /\ AboutOf(c, p) = <<>> /\ LimitOf(c, p) = 0
        BY <1>4, Zenon DEF Did, AboutOf, LimitOf
    <2>2. Server(c) = Refused("InvalidArgument")
        BY <1>4, Zenon DEF Server, Named
    <2>3. answer.did = "nothing" /\ answer.about = <<>> /\ answer.limit = 0
        BY <1>3, <1>4, <2>2 DEF Refused
    <2> QED BY <1>0, <1>4, <2>1, <2>3
<1>5. CASE access = "ok" /\ Named(c)
    <2>1. Did(c, p) = c.op
        BY <1>0, <1>5, Zenon DEF Did
    <2>2. AboutOf(c, p) = About(c) /\ LimitOf(c, p) = FormLimit(c)
        BY <1>1, <2>1, Zenon DEF AboutOf, LimitOf
    <2>3. StatusOf(c, p, result) = grpcStatusForError(result)
        BY <1>0, <1>5, AuthorizeResults, Zenon DEF StatusOf
    <2>4. FormLimit(c) = IF c.op \in {"list", "audit"}
                         THEN ListLimit(IF c.limit = None THEN 0 ELSE The(c.limit)) ELSE 0
        <3>1. c.limit # None => The(c.limit) > 0
            BY Zenon DEF Comparable
        <3> QED BY <1>1, <3>1, LimitIsParsed, Zenon DEF FormLimit
    <2>5. Server(c) = [did |-> c.op, about |-> About(c), status |-> grpcStatusForError(result), limit |-> FormLimit(c)]
        BY <1>1, <1>5, <2>4, Zenon DEF Server, Named
    <2>6. answer.did = c.op /\ answer.about = About(c) /\ answer.limit = FormLimit(c) /\ answer.status = grpcStatusForError(result)
        BY <1>3, <1>5, <2>5
    <2> QED BY <1>0, <2>1, <2>2, <2>3, <2>6, Zenon
<1>6. CASE access = "unauthenticated"
    <2>1. Did(c, p) = "nothing" /\ AboutOf(c, p) = <<>> /\ LimitOf(c, p) = 0
        BY <1>0, <1>6, Zenon DEF Did, AboutOf, LimitOf
    <2>2. StatusOf(c, p, result) = "Unauthenticated"
        BY <1>0, <1>6, AuthorizeResults, Zenon DEF StatusOf
    <2>3. answer.did = "nothing" /\ answer.about = <<>> /\ answer.limit = 0 /\ answer.status = "Unauthenticated"
        BY <1>3, <1>6 DEF Refused
    <2> QED BY <1>0, <2>1, <2>2, <2>3
<1>7. CASE access = "forbidden"
    <2>1. Did(c, p) = "nothing" /\ AboutOf(c, p) = <<>> /\ LimitOf(c, p) = 0
        BY <1>0, <1>7, Zenon DEF Did, AboutOf, LimitOf
    <2>2. StatusOf(c, p, result) = "PermissionDenied"
        BY <1>0, <1>7, AuthorizeResults, Zenon DEF StatusOf
    <2>3. answer.did = "nothing" /\ answer.about = <<>> /\ answer.limit = 0 /\ answer.status = "PermissionDenied"
        BY <1>3, <1>7 DEF Refused
    <2> QED BY <1>0, <2>1, <2>2, <2>3
<1> QED BY <1>2, <1>4, <1>5, <1>6, <1>7, Zenon

\* The request is the form of the call, and the values are the caller's.
CallInv ==
    /\ call # None => /\ The(call) \in AllCalls /\ request = Form(The(call))
                      /\ result \in Outcomes(The(call).op)
    /\ call = None => grpcAnswer = None
    /\ mode \in Modes /\ authorization \in Authorizations[mode]

\* A transport takes one of the caller's values, or none.
LEMMA ValuesArePresented ==
    ASSUME AuthorizationsAreTyped, NEW m \in Modes, NEW values \in Authorizations[m]
    PROVE  /\ HeaderGet(values) \in Presented(m)
           /\ authorizationFromMetadata(values) \in Presented(m)
           /\ Len(values) <= 1 => authorizationFromMetadata(values) = HeaderGet(values)
<1>1. PICK S : S = Presented(m)
    OBVIOUS
<1>2. values \in Seq(S)
    BY <1>1 DEF AuthorizationsAreTyped
<1>3. NoAuthorization \in S
    BY <1>1 DEF Presented
<1>4. Len(values) \in Nat /\ (values = <<>> <=> Len(values) = 0) /\ (values # <<>> => values[1] \in S)
    BY <1>2, Single, Zenon
<1>5. /\ values # <<>> => values[1] \in S
      /\ values = <<>> => Len(values) # 1
      /\ Len(values) = 1 => values # <<>>
      /\ (values # <<>> /\ Len(values) <= 1) => Len(values) = 1
    BY <1>4, AtMostOne, Zenon
<1> QED BY <1>1, <1>3, <1>5, Zenon DEF HeaderGet, authorizationFromMetadata

\* The answers that the transports are to give to the call.
HTTPAnswers(c, p, answer) ==
    /\ answer.did = Did(c, p) /\ answer.about = AboutOf(c, p) /\ answer.limit = LimitOf(c, p)
    /\ answer.principal = p
    /\ Named(c) => <<answer.status, StatusOf(c, p, result)>> \in Corresponding
GRPCAnswers(c, p, answer) ==
    /\ answer.did = Did(c, p) /\ answer.about = AboutOf(c, p) /\ answer.limit = LimitOf(c, p)
    /\ answer.principal = p
    /\ Named(c) => answer.status = StatusOf(c, p, result)
AgreeInv ==
    LET c == The(call)
        p == Authenticate(mode, HeaderGet(authorization))
    IN (call # None /\ Comparable(c, authorization)) =>
        /\ httpAnswer # None => HTTPAnswers(c, p, The(httpAnswer))
        /\ grpcAnswer # None => GRPCAnswers(c, p, The(grpcAnswer))

LEMMA Known ==
    ASSUME NEW p, NEW a
    PROVE  /\ Some(To(p, a)) # None
           /\ The(Some(To(p, a))).did = a.did /\ The(Some(To(p, a))).about = a.about
           /\ The(Some(To(p, a))).limit = a.limit
           /\ The(Some(To(p, a))).status = a.status /\ The(Some(To(p, a))).principal = p
BY DEF Some, None, The, To

LEMMA CallStep ==
    ASSUME CallInv, [CallNext]_callVars
    PROVE  CallInv'
<1>1. CASE AnswerHTTP
    BY <1>1 DEF CallInv, AnswerHTTP, None
<1>2. CASE AnswerGRPC
    BY <1>2 DEF CallInv, AnswerGRPC, None
<1>3. CASE UNCHANGED callVars
    BY <1>3 DEF CallInv, callVars, None
<1> QED BY <1>1, <1>2, <1>3 DEF CallNext

LEMMA CallStart == CallInit => CallInv /\ httpAnswer = None /\ grpcAnswer = None
BY DEF CallInit, CallInv, AllCalls, None, Some, The

LEMMA AgreeStep ==
    ASSUME AuthorizationsAreTyped, CallsAreTyped, CallInv, AgreeInv, [CallNext]_callVars
    PROVE  AgreeInv'
<1> DEFINE c == The(call)
           p == Authenticate(mode, HeaderGet(authorization))
<1>0. CASE UNCHANGED callVars
    BY <1>0 DEF AgreeInv, HTTPAnswers, GRPCAnswers, callVars
<1>1. CASE AnswerHTTP
    <2>0. /\ UNCHANGED <<mode, call, authorization, result, grpcAnswer>>
          /\ httpAnswer' = Some(To(p, ServeHTTP(request, p)))
        BY <1>1 DEF AnswerHTTP
    <2> SUFFICES ASSUME call # None, Comparable(c, authorization)
                 PROVE  HTTPAnswers(c, p, The(httpAnswer'))
        BY <2>0, Zenon DEF AgreeInv, HTTPAnswers, GRPCAnswers
    <2>1. c \in AllCalls /\ request = Form(c) /\ result \in Outcomes(c.op)
        BY DEF CallInv
    <2>2. PICK answer : answer = ServeHTTP(Form(c), p)
        OBVIOUS
    <2>3. /\ answer.did = Did(c, p) /\ answer.about = AboutOf(c, p) /\ answer.limit = LimitOf(c, p)
          /\ Named(c) => <<answer.status, StatusOf(c, p, result)>> \in Corresponding
        BY <2>1, <2>2, HTTPAgrees, Zenon
    <2>4. /\ The(httpAnswer').did = answer.did /\ The(httpAnswer').limit = answer.limit
          /\ The(httpAnswer').about = answer.about /\ The(httpAnswer').principal = p
          /\ The(httpAnswer').status = answer.status
        <3>1. httpAnswer' = Some(To(p, answer))
            BY <2>0, <2>1, <2>2
        <3> QED BY <3>1, Known
    <2> QED BY <2>3, <2>4, Zenon DEF HTTPAnswers
<1>2. CASE AnswerGRPC
    <2> DEFINE q == Authenticate(mode, authorizationFromMetadata(authorization))
    <2>0. /\ UNCHANGED <<mode, call, authorization, result, httpAnswer>>
          /\ grpcAnswer' = Some(To(q, AccessUnaryServerInterceptor(c, q)))
        BY <1>2 DEF AnswerGRPC
    <2> SUFFICES ASSUME call # None, Comparable(c, authorization)
                 PROVE  GRPCAnswers(c, p, The(grpcAnswer'))
        BY <2>0, Zenon DEF AgreeInv, HTTPAnswers, GRPCAnswers
    <2>1. c \in AllCalls
        BY DEF CallInv
    <2>10. q = p
        <3>1. Len(authorization) <= 1
            BY Zenon DEF Comparable
        <3> QED BY <3>1, ValuesArePresented, Zenon DEF CallInv
    <2>2. PICK answer : answer = AccessUnaryServerInterceptor(c, p)
        OBVIOUS
    <2>3. /\ answer.did = Did(c, p) /\ answer.about = AboutOf(c, p) /\ answer.limit = LimitOf(c, p)
          /\ Named(c) => answer.status = StatusOf(c, p, result)
        BY <2>1, <2>2, GRPCAgrees, Zenon
    <2>4. /\ The(grpcAnswer').did = answer.did /\ The(grpcAnswer').limit = answer.limit
          /\ The(grpcAnswer').about = answer.about /\ The(grpcAnswer').principal = p
          /\ The(grpcAnswer').status = answer.status
        <3>1. grpcAnswer' = Some(To(p, answer))
            BY <2>0, <2>2, <2>10, Zenon
        <3> QED BY <3>1, Known
    <2> QED BY <2>3, <2>4, Zenon DEF GRPCAnswers
<1> QED BY <1>0, <1>1, <1>2 DEF CallNext

(***************************************************************************)
(* For every configuration of access, caller and call of the four methods  *)
(* that a path and a body of 64 KiB can carry, HTTP and gRPC know the      *)
(* caller as the same principal and refuse the call, or hand it to the     *)
(* service, and answer it alike (AccessMiddleware, the mux and the         *)
(* handlers against AccessUnaryServerInterceptor and Server).              *)
(***************************************************************************)
THEOREM TransportsAgreeHolds ==
    ASSUME AuthorizationsAreTyped, CallsAreTyped
    PROVE  CallSpec => []TransportsAgree
<1>1. CallInit => CallInv /\ AgreeInv
    BY CallStart DEF AgreeInv
<1>2. CallInv /\ AgreeInv /\ [CallNext]_callVars => CallInv' /\ AgreeInv'
    BY CallStep, AgreeStep
<1>3. CallInv /\ AgreeInv => TransportsAgree
    <2> DEFINE c == The(call)
               http == The(httpAnswer)
               grpc == The(grpcAnswer)
    <2> SUFFICES ASSUME CallInv, AgreeInv, Answered, Comparable(c, authorization)
                 PROVE  /\ http.did = grpc.did /\ http.about = grpc.about /\ http.limit = grpc.limit
                        /\ http.principal = grpc.principal
                        /\ <<"">> \notin {c.id, c.name} => <<http.status, grpc.status>> \in Corresponding
        BY Zenon DEF TransportsAgree
    <2>1. call # None /\ httpAnswer # None /\ grpcAnswer # None
        BY Zenon DEF CallInv, Answered
    <2>2. <<"">> \notin {c.id, c.name} => Named(c)
        BY Zenon DEF Named
    <2> QED BY <2>1, <2>2, Zenon DEF AgreeInv, HTTPAnswers, GRPCAnswers
<1> QED BY <1>1, <1>2, <1>3, PTL DEF CallSpec

-----------------------------------------------------------------------------
(* The words of a roles claim. *)

\* p is what lies between the cuts a and b of the phrase, of which no other cut
\* lies between them.
Piece(phrase, separator, a, b, p) ==
    /\ a \in 0..Len(phrase) /\ b \in (a + 1)..(Len(phrase) + 1)
    /\ a = 0 \/ phrase[a] = separator
    /\ b = Len(phrase) + 1 \/ phrase[b] = separator
    /\ \A i \in (a + 1)..(b - 1) : phrase[i] # separator
    /\ p = SubSeq(phrase, a + 1, b - 1)

\* x is left when the blanks around what is inside the piece are trimmed.
LeftOf(p, blank, inner, x) ==
    /\ inner = {i \in DOMAIN p : p[i] # blank} /\ inner # {}
    /\ x = SubSeq(p, Min(inner), Max(inner))

\* Among what lies between a and b, only m is not blank.
Alone(phrase, blank, a, b, m) ==
    /\ a < m /\ m < b /\ phrase[m] # blank
    /\ \A i \in (a + 1)..(b - 1) : phrase[i] # blank => i = m

LEMMA PieceFacts ==
    ASSUME NEW S, NEW phrase \in Seq(S), NEW separator,
           NEW a, NEW b, NEW p, Piece(phrase, separator, a, b, p)
    PROVE  /\ a \in Nat /\ b \in Nat /\ a < b /\ p \in Seq(S) /\ Len(p) = b - a - 1
           /\ DOMAIN p = 1..(b - a - 1)
           /\ \A i \in 1..(b - a - 1) :
                /\ a + i \in DOMAIN phrase /\ a + i \in (a + 1)..(b - 1)
                /\ p[i] = phrase[a + i] /\ p[i] # separator
<1>1. /\ a \in Nat /\ b \in Nat /\ a < b /\ Len(phrase) \in Nat /\ b <= Len(phrase) + 1
      /\ DOMAIN phrase = 1..Len(phrase)
      /\ \A i \in (a + 1)..(b - 1) : phrase[i] # separator
      /\ p = SubSeq(phrase, a + 1, b - 1)
    BY DEF Piece
<1>2. p \in Seq(S) /\ Len(p) = b - a - 1
    BY <1>1
<1>3. DOMAIN p = 1..(b - a - 1)
    BY <1>2
<1>4. ASSUME NEW i \in 1..(b - a - 1)
      PROVE  /\ a + i \in DOMAIN phrase /\ a + i \in (a + 1)..(b - 1)
             /\ p[i] = phrase[a + i] /\ p[i] # separator
    <2>1. a + i \in DOMAIN phrase /\ a + i \in (a + 1)..(b - 1)
        BY <1>1
    <2>2. p[i] = phrase[(a + 1) + i - 1]
        BY <1>1
    <2>3. (a + 1) + i - 1 = a + i
        BY <1>1
    <2> QED BY <1>1, <2>1, <2>2, <2>3
<1> QED BY <1>1, <1>2, <1>3, <1>4

\* The first element of what is left of a piece when it is trimmed is in the
\* phrase, and neither the separator nor the blank.
LEMMA PartIsInPhrase ==
    ASSUME NEW S, NEW phrase \in Seq(S), NEW separator, NEW blank,
           NEW a, NEW b, NEW p, Piece(phrase, separator, a, b, p),
           NEW inner, NEW w, LeftOf(p, blank, inner, <<w>>)
    PROVE  w \in ToSet(phrase) /\ w # separator /\ w # blank
<1>0. inner = {i \in DOMAIN p : p[i] # blank} /\ inner # {} /\ <<w>> = SubSeq(p, Min(inner), Max(inner))
    BY DEF LeftOf
<1>1. PICK i, j : i = Min(inner) /\ j = Max(inner)
    OBVIOUS
<1>2. /\ p \in Seq(S) /\ Len(p) = b - a - 1 /\ Len(p) \in Nat
      /\ DOMAIN p = 1..(b - a - 1) /\ a \in Nat /\ b \in Nat
      /\ \A k \in 1..(b - a - 1) : /\ a + k \in DOMAIN phrase
                                    /\ p[k] = phrase[a + k] /\ p[k] # separator
    BY PieceFacts
<1>3. inner \subseteq 0..Len(p)
    BY <1>0, <1>2
<1>4. i \in inner /\ j \in inner /\ i <= j
    BY <1>0, <1>1, <1>2, <1>3, Extremes
<1>5. i \in 1..(b - a - 1) /\ p[i] # blank /\ j \in 1..(b - a - 1)
    BY <1>0, <1>2, <1>4
<1>6. PICK q : q = SubSeq(p, i, j)
    OBVIOUS
<1>7. q[1] = p[i]
    <2>1. i \in Nat /\ j \in Nat /\ i >= 1 /\ j <= Len(p) /\ i <= j
        <3>1. Len(p) = b - a - 1 /\ Len(p) \in Nat
            BY <1>2
        <3>2. i \in 1..Len(p) /\ j \in 1..Len(p)
            BY <1>5, <3>1
        <3> QED BY <1>4, <3>1, <3>2
    <2>2. q[1] = p[i + 1 - 1]
        BY <1>2, <1>6, <2>1
    <2> QED BY <2>1, <2>2
<1>8. q = <<w>>
    BY <1>0, <1>1, <1>6
<1>9. w = p[i]
    BY <1>7, <1>8
<1> QED BY <1>2, <1>5, <1>9 DEF ToSet

Cuts(phrase, separator) ==
    {0, Len(phrase) + 1} \cup {i \in DOMAIN phrase : phrase[i] = separator}
Pieces(phrase, separator) ==
    {SubSeq(phrase, a + 1, Min({b \in Cuts(phrase, separator) : b > a}) - 1) :
        a \in Cuts(phrase, separator) \ {Len(phrase) + 1}}

LEMMA CutFacts ==
    ASSUME NEW S, NEW phrase \in Seq(S), NEW separator
    PROVE  /\ Cuts(phrase, separator) \subseteq 0..(Len(phrase) + 1)
           /\ Len(phrase) \in Nat
           /\ \A x \in 1..Len(phrase) : x \in Cuts(phrase, separator) <=> phrase[x] = separator
           /\ 0 \in Cuts(phrase, separator) /\ Len(phrase) + 1 \in Cuts(phrase, separator)
BY DEF Cuts

LEMMA PieceOf ==
    ASSUME NEW S, NEW phrase \in Seq(S), NEW separator, NEW p \in Pieces(phrase, separator)
    PROVE  \E a, b : Piece(phrase, separator, a, b, p)
<1>0. PICK n, cuts : n = Len(phrase) /\ cuts = Cuts(phrase, separator)
    OBVIOUS
<1>1. /\ n \in Nat /\ cuts \subseteq 0..(n + 1) /\ 0 \in cuts /\ n + 1 \in cuts
      /\ \A x \in 1..n : x \in cuts <=> phrase[x] = separator
    BY <1>0, CutFacts
<1>2. PICK a \in cuts \ {n + 1} : p = SubSeq(phrase, a + 1, Min({b \in cuts : b > a}) - 1)
    BY <1>0 DEF Pieces
<1>3. PICK above, b : above = {x \in cuts : x > a} /\ b = Min(above)
    OBVIOUS
<1>4. a \in 0..n
    BY <1>1, <1>2
<1>5. above \subseteq 0..(n + 1) /\ n + 1 \in above /\ n + 1 \in Nat
    <2>1. n + 1 \in Nat /\ n + 1 > a
        BY <1>1, <1>4
    <2>2. above \subseteq 0..(n + 1)
        BY <1>1, <1>3
    <2>3. n + 1 \in above
        BY <1>1, <1>3, <2>1
    <2> QED BY <2>1, <2>2, <2>3
<1>6. b \in above /\ \A y \in above : b <= y
    BY <1>3, <1>5, Extremes
<1>7. b \in (a + 1)..(n + 1) /\ b \in cuts
    BY <1>1, <1>3, <1>4, <1>6
<1>8. ASSUME NEW i \in (a + 1)..(b - 1)
      PROVE  phrase[i] # separator
    <2>1. i \in 1..n /\ i > a /\ ~(b <= i)
        BY <1>1, <1>4, <1>7
    <2>2. i \notin above
        BY <1>6, <2>1
    <2> QED BY <1>1, <1>3, <2>1, <2>2
<1>9. a = 0 \/ phrase[a] = separator
    BY <1>1, <1>2, <1>4
<1>10. b = n + 1 \/ phrase[b] = separator
    BY <1>1, <1>4, <1>7
<1>11. p = SubSeq(phrase, a + 1, b - 1)
    BY <1>2, <1>3
<1>12. Piece(phrase, separator, a, b, p)
    BY <1>0, <1>4, <1>7, <1>8, <1>9, <1>10, <1>11 DEF Piece
<1> QED BY <1>12

LEMMA PieceIn ==
    ASSUME NEW S, NEW phrase \in Seq(S), NEW separator, NEW a, NEW b, NEW p,
           Piece(phrase, separator, a, b, p)
    PROVE  p \in Pieces(phrase, separator)
<1>0. PICK n, cuts : n = Len(phrase) /\ cuts = Cuts(phrase, separator)
    OBVIOUS
<1>1. /\ n \in Nat /\ cuts \subseteq 0..(n + 1) /\ 0 \in cuts /\ n + 1 \in cuts
      /\ \A x \in 1..n : x \in cuts <=> phrase[x] = separator
    BY <1>0, CutFacts
<1>2. /\ a \in 0..n /\ b \in (a + 1)..(n + 1)
      /\ a = 0 \/ phrase[a] = separator
      /\ b = n + 1 \/ phrase[b] = separator
      /\ \A i \in (a + 1)..(b - 1) : phrase[i] # separator
      /\ p = SubSeq(phrase, a + 1, b - 1)
    BY <1>0 DEF Piece
<1>3. a \in cuts \ {n + 1} /\ b \in cuts /\ a \in Nat /\ b \in Nat /\ b > a /\ b <= n + 1
    BY <1>1, <1>2
<1>4. PICK above, c : above = {x \in cuts : x > a} /\ c = Min(above)
    OBVIOUS
<1>5. above \subseteq 0..(n + 1) /\ b \in above /\ n + 1 \in Nat
    <2>1. above \subseteq 0..(n + 1)
        BY <1>1, <1>4
    <2>2. b \in above
        BY <1>3, <1>4
    <2>3. n + 1 \in Nat
        BY <1>1
    <2> QED BY <2>1, <2>2, <2>3
<1>6. c \in above /\ c <= b
    BY <1>4, <1>5, Extremes
<1>7. c \in cuts /\ c > a /\ c \in Nat
    BY <1>1, <1>4, <1>5, <1>6
<1>8. c = b
    <2> SUFFICES ASSUME c < b PROVE FALSE
        BY <1>3, <1>6, <1>7
    <2>1. c \in (a + 1)..(b - 1) /\ c \in 1..n
        BY <1>1, <1>3, <1>7
    <2> QED BY <1>1, <1>2, <1>7, <2>1
<1> QED BY <1>0, <1>2, <1>3, <1>4, <1>8 DEF Pieces

\* What is not a separator lies in a piece.
LEMMA PieceAround ==
    ASSUME NEW S, NEW phrase \in Seq(S), NEW separator, NEW m \in DOMAIN phrase,
           phrase[m] # separator
    PROVE  \E a, b, p : Piece(phrase, separator, a, b, p) /\ a < m /\ m < b
<1>0. PICK n, cuts : n = Len(phrase) /\ cuts = Cuts(phrase, separator)
    OBVIOUS
<1>1. /\ n \in Nat /\ cuts \subseteq 0..(n + 1) /\ 0 \in cuts /\ n + 1 \in cuts
      /\ \A x \in 1..n : x \in cuts <=> phrase[x] = separator
    BY <1>0, CutFacts
<1>2. m \in 1..n /\ m \notin cuts
    BY <1>0, <1>1
<1>3. PICK below, above, a, b : /\ below = {x \in cuts : x < m} /\ a = Max(below)
                                /\ above = {x \in cuts : x > m} /\ b = Min(above)
    OBVIOUS
<1>4. below \subseteq 0..(n + 1) /\ 0 \in below /\ above \subseteq 0..(n + 1) /\ n + 1 \in above /\ n + 1 \in Nat
    <2>1. n + 1 \in Nat /\ n + 1 > m /\ 0 < m
        BY <1>1, <1>2
    <2>2. below \subseteq 0..(n + 1) /\ above \subseteq 0..(n + 1)
        BY <1>1, <1>3
    <2>3. 0 \in below
        BY <1>1, <1>3, <2>1
    <2>4. n + 1 \in above
        BY <1>1, <1>3, <2>1
    <2> QED BY <2>1, <2>2, <2>3, <2>4
<1>5. a \in below /\ (\A y \in below : y <= a) /\ b \in above /\ (\A y \in above : b <= y)
    BY <1>3, <1>4, Extremes
<1>6. a \in cuts /\ a \in 0..n /\ a < m /\ b \in cuts /\ b \in 1..(n + 1) /\ m < b
    BY <1>1, <1>2, <1>3, <1>5
<1>7. ASSUME NEW i \in (a + 1)..(b - 1)
      PROVE  phrase[i] # separator
    <2>1. i \in 1..n /\ ~(i <= a) /\ ~(b <= i)
        BY <1>1, <1>6
    <2>2. i \notin below /\ i \notin above
        BY <1>5, <2>1
    <2>3. i < m \/ i > m \/ i = m
        BY <1>2, <2>1
    <2> QED BY <1>1, <1>2, <1>3, <2>1, <2>2, <2>3
<1>8. PICK p : p = SubSeq(phrase, a + 1, b - 1)
    OBVIOUS
<1>9. b \in (a + 1)..(n + 1) /\ (a = 0 \/ phrase[a] = separator) /\ (b = n + 1 \/ phrase[b] = separator)
    BY <1>1, <1>2, <1>6
<1>10. Piece(phrase, separator, a, b, p)
    BY <1>0, <1>6, <1>7, <1>8, <1>9 DEF Piece
<1> QED BY <1>6, <1>10

\* A word that is alone in its piece is what is left when that is trimmed.
LEMMA LonePart ==
    ASSUME NEW S, NEW phrase \in Seq(S), NEW separator, NEW blank, NEW m \in DOMAIN phrase,
           NEW a, NEW b, NEW p, Piece(phrase, separator, a, b, p), Alone(phrase, blank, a, b, m)
    PROVE  \E inner : LeftOf(p, blank, inner, <<phrase[m]>>)
<1>0. PICK inner : inner = {i \in DOMAIN p : p[i] # blank}
    OBVIOUS
<1>01. /\ a < m /\ m < b /\ phrase[m] # blank
      /\ \A i \in (a + 1)..(b - 1) : phrase[i] # blank => i = m
    BY DEF Alone
<1>1. /\ p \in Seq(S) /\ Len(p) = b - a - 1 /\ Len(p) \in Nat
      /\ DOMAIN p = 1..(b - a - 1) /\ a \in Nat /\ b \in Nat
      /\ \A k \in 1..(b - a - 1) : a + k \in (a + 1)..(b - 1) /\ p[k] = phrase[a + k]
    BY PieceFacts
<1>2. PICK k : k = m - a
    OBVIOUS
<1>3. m \in Nat /\ k \in 1..(b - a - 1) /\ a + k = m /\ k \in Nat
    BY <1>01, <1>1, <1>2
<1>4. p[k] = phrase[m]
    BY <1>1, <1>3
<1>5. inner = {k}
    <2>1. k \in inner
        BY <1>0, <1>01, <1>1, <1>3, <1>4
    <2>2. ASSUME NEW i \in inner
          PROVE  i = k
        <3>1. i \in 1..(b - a - 1) /\ p[i] # blank
            BY <1>0, <1>1
        <3>2. a + i \in (a + 1)..(b - 1) /\ phrase[a + i] # blank
            BY <1>1, <3>1
        <3>3. a + i = m
            BY <1>01, <3>2
        <3> QED BY <1>1, <1>3, <3>1, <3>3
    <2> QED BY <2>1, <2>2
<1>6. Min(inner) = k /\ Max(inner) = k
    <2>1. inner \subseteq 0..k
        BY <1>3, <1>5
    <2> QED BY <1>3, <1>5, <2>1, Extremes
<1>7. SubSeq(p, k, k) = <<phrase[m]>>
    <2>1. PICK q : q = SubSeq(p, k, k)
        OBVIOUS
    <2>2. q \in Seq(S) /\ Len(q) = 1 /\ q[1] = p[k]
        <3>1. k \in Nat /\ k >= 1 /\ k <= Len(p)
            BY <1>1, <1>3
        <3>2. q \in Seq(S) /\ Len(q) = 1
            BY <1>1, <2>1, <3>1
        <3>3. q[1] = p[k + 1 - 1]
            BY <1>1, <2>1, <3>1
        <3> QED BY <3>1, <3>2, <3>3
    <2>3. q = <<q[1]>>
        BY <2>2
    <2> QED BY <1>4, <2>1, <2>2, <2>3
<1>8. inner # {} /\ SubSeq(p, Min(inner), Max(inner)) = <<phrase[m]>>
    BY <1>5, <1>6, <1>7
<1> QED BY <1>0, <1>8 DEF LeftOf

LEMMA SplitIsPieces ==
    ASSUME NEW phrase, NEW x
    PROVE  x \in splitClaimString(phrase) <=>
             \E p \in Pieces(phrase, Separator(phrase)) : \E inner : LeftOf(p, " ", inner, x)
<1>1. splitClaimString(phrase) = Parts(phrase, Separator(phrase))
    BY Zenon DEF splitClaimString, Separator
<1>2. PICK separator, blank : separator = Separator(phrase) /\ blank = " "
    BY Zenon
<1>3. Parts(phrase, separator) =
        {SubSeq(p, Min({i \in DOMAIN p : p[i] # blank}), Max({i \in DOMAIN p : p[i] # blank})) :
            p \in {p \in Pieces(phrase, separator) : {i \in DOMAIN p : p[i] # blank} # {}}}
    BY <1>2, Zenon DEF Parts, Pieces, Cuts
<1>4. x \in Parts(phrase, separator) <=>
        \E p \in Pieces(phrase, separator) :
            /\ {i \in DOMAIN p : p[i] # blank} # {}
            /\ x = SubSeq(p, Min({i \in DOMAIN p : p[i] # blank}), Max({i \in DOMAIN p : p[i] # blank}))
    BY <1>3, Zenon
<1> QED BY <1>1, <1>2, <1>4, Zenon DEF LeftOf

LEMMA PartIsWord ==
    ASSUME NEW S, NEW phrase \in Seq(S), NEW w, <<w>> \in splitClaimString(phrase)
    PROVE  w \in Words(phrase)
<1>1. PICK separator, blank : separator = Separator(phrase) /\ blank = " "
    BY Zenon
<1>2. PICK p \in Pieces(phrase, separator) : \E inner : LeftOf(p, blank, inner, <<w>>)
    BY <1>1, SplitIsPieces, Zenon
<1>21. PICK inner : LeftOf(p, blank, inner, <<w>>)
    BY <1>2
<1>3. PICK a, b : Piece(phrase, separator, a, b, p)
    BY PieceOf
<1>4. w \in ToSet(phrase) /\ w # separator /\ w # blank
    BY <1>21, <1>3, PartIsInPhrase
<1> QED BY <1>1, <1>4, Zenon DEF Words, Separator

LEMMA WordIsPart ==
    ASSUME NEW S, NEW phrase \in Seq(S), Separated(phrase), NEW w \in Words(phrase)
    PROVE  <<w>> \in splitClaimString(phrase)
<1>1. PICK separator, blank : separator = Separator(phrase) /\ blank = " "
    BY Zenon
<1>2. \A x \in ToSet(phrase) : x # separator /\ x # blank <=> x \in Words(phrase)
    BY <1>1, Zenon DEF Words, Separator
<1>3. PICK m \in DOMAIN phrase : phrase[m] = w
    BY Zenon DEF Words, ToSet
<1>4. w \in ToSet(phrase) /\ w # separator /\ w # blank
    BY <1>1, <1>2, Zenon DEF Words
<1>5. PICK a, b, p : Piece(phrase, separator, a, b, p) /\ a < m /\ m < b
    BY <1>3, <1>4, PieceAround
<1>6. a \in Nat /\ b \in Nat /\ b <= Len(phrase) + 1 /\ Len(phrase) \in Nat /\ m \in Nat
      /\ DOMAIN phrase = 1..Len(phrase)
      /\ \A i \in (a + 1)..(b - 1) : phrase[i] # separator
    <2>1. DOMAIN phrase = 1..Len(phrase) /\ Len(phrase) \in Nat
        OBVIOUS
    <2>2. a \in 0..Len(phrase) /\ b \in (a + 1)..(Len(phrase) + 1)
          /\ \A i \in (a + 1)..(b - 1) : phrase[i] # separator
        BY <1>5 DEF Piece
    <2>3. a \in Nat /\ b \in Nat /\ b <= Len(phrase) + 1 /\ m \in Nat
        BY <2>1, <2>2
    <2> QED BY <2>1, <2>2, <2>3
<1>7. ASSUME NEW i \in (a + 1)..(b - 1), phrase[i] # blank
      PROVE  i = m
    <2>1. i \in DOMAIN phrase /\ i \in Nat /\ a < i /\ i < b
        BY <1>6
    <2>2. phrase[i] \in Words(phrase)
        BY <1>2, <1>6, <1>7, <2>1 DEF ToSet
    <2>3. \A k \in i..m : phrase[k] # separator
        BY <1>5, <1>6, <2>1
    <2>4. \A k \in m..i : phrase[k] # separator
        BY <1>5, <1>6, <2>1
    <2>5. ~(i < m) /\ ~(m < i)
        BY <1>1, <1>3, <2>1, <2>2, <2>3, <2>4 DEF Separated
    <2> QED BY <1>6, <2>1, <2>5
<1>8. Alone(phrase, blank, a, b, m)
    BY <1>3, <1>4, <1>5, <1>7 DEF Alone
<1>9. PICK inner : LeftOf(p, blank, inner, <<w>>)
    BY <1>3, <1>5, <1>8, LonePart
<1>10. p \in Pieces(phrase, separator)
    BY <1>5, PieceIn
<1> QED BY <1>1, <1>9, <1>10, SplitIsPieces, Zenon

-----------------------------------------------------------------------------
(* Whom the authenticators know as a writer. *)

\* One of the authenticators that buildAuthenticator makes.
AccessIsBuilt ==
    /\ Modes \subseteq {"disabled", "static_token", "jwt"}
    /\ "static_token" \in Modes =>
        \E tokens, env, n : /\ n \in Nat /\ DOMAIN tokens = 1..n
                            /\ NewStaticTokenAuthenticator(tokens, env) = Some(Credentials)

MayWrite(roles) == roles \cap {"evidence_writer", "admin"} # {}

LEMMA CredentialsAreDistinct ==
    ASSUME AccessIsBuilt, mode \in Modes, mode = "static_token"
    PROVE  /\ \E n \in Nat : DOMAIN Credentials = 1..n
           /\ \A i, j \in DOMAIN Credentials : Credentials[i].token = Credentials[j].token => i = j
<1>1. PICK tokens, env, n : /\ n \in Nat /\ DOMAIN tokens = 1..n
                            /\ NewStaticTokenAuthenticator(tokens, env) = Some(Credentials)
    BY DEF AccessIsBuilt
<1>2. NewStaticTokenAuthenticator(tokens, env) # None
    <2>1. Some(Credentials) # None
        BY DEF Some, None
    <2> QED BY <1>1, <2>1
<1>3. PICK f : f = [i \in DOMAIN tokens |->
                [token |-> env[TrimSpace(tokens[i].tokenEnv)].token,
                 principal |-> [subject |-> TrimSpace(tokens[i].subject),
                                roles |-> ToSet(tokens[i].roles)]]]
    OBVIOUS
<1>4. /\ Distinct(tokens, LAMBDA entry : env[TrimSpace(entry.tokenEnv)].token)
      /\ NewStaticTokenAuthenticator(tokens, env) = Some(f)
    BY <1>2, <1>3, Zenon DEF NewStaticTokenAuthenticator
<1>5. Credentials = f
    BY <1>1, <1>4 DEF Some
<1>6. \A i, j \in DOMAIN tokens : env[TrimSpace(tokens[i].tokenEnv)].token =
                                  env[TrimSpace(tokens[j].tokenEnv)].token => i = j
    BY <1>4 DEF Distinct
<1>7. /\ DOMAIN Credentials = DOMAIN tokens
      /\ \A i \in DOMAIN tokens : Credentials[i].token = env[TrimSpace(tokens[i].tokenEnv)].token
    BY <1>3, <1>5
<1> QED BY <1>1, <1>6, <1>7

LEMMA StaticWriter ==
    ASSUME AccessIsBuilt, mode \in Modes, mode = "static_token",
           NEW v, NEW p, p = Authenticate(mode, v), p # NoPrincipal
    PROVE  Entitled(mode, v) <=> MayWrite(p.roles)
<1>1. p = StaticAuthenticate(Credentials, v)
    BY Zenon DEF Authenticate
<1>2. PICK token, matches : /\ token = bearerToken(v)
                            /\ matches = {i \in DOMAIN Credentials : Some(Credentials[i].token) = token}
    OBVIOUS
<1>3. matches # {} /\ p = Credentials[Max(matches)].principal
    BY <1>1, <1>2, Zenon DEF StaticAuthenticate
<1>4. PICK n \in Nat : DOMAIN Credentials = 1..n
    BY CredentialsAreDistinct
<1>5. PICK i : i = Max(matches)
    OBVIOUS
<1>6. i \in matches
    <2>1. matches \subseteq 0..n
        BY <1>2, <1>4
    <2> QED BY <1>3, <1>5, <2>1, Extremes
<1>7. i \in DOMAIN Credentials /\ Some(Credentials[i].token) = token /\ p = Credentials[i].principal
    BY <1>2, <1>3, <1>5, <1>6
<1>8. token = v.token
    BY <1>2, <1>7 DEF bearerToken, Some, None
<1>9. \A j \in DOMAIN Credentials : Some(Credentials[j].token) = v.token => j = i
    BY <1>7, <1>8, CredentialsAreDistinct DEF Some
<1>10. Entitled(mode, v) <=> \E j \in DOMAIN Credentials : /\ Some(Credentials[j].token) = v.token
                                                     /\ MayWrite(Credentials[j].principal.roles)
    BY Zenon DEF Entitled, MayWrite
<1> QED BY <1>7, <1>8, <1>9, <1>10, Zenon

LEMMA DisabledWriter ==
    ASSUME mode = "disabled", NEW v
    PROVE  Entitled(mode, v) /\ MayWrite(Authenticate(mode, v).roles)
<1>1. Authenticate(mode, v) = DisabledAuthenticate
    BY Zenon DEF Authenticate
<1>2. Authenticate(mode, v).roles = {"admin"}
    BY <1>1 DEF DisabledAuthenticate
<1>3. Entitled(mode, v)
    BY Zenon DEF Entitled
<1> QED BY <1>2, <1>3 DEF MayWrite

\* The words of a claim, as Entitled reads them.
WordsOf(claim) ==
    CASE claim.json = "string" -> Words(claim.phrase)
      [] claim.json = "list" -> {claim.items[i].text.word : i \in DOMAIN claim.items}
      [] OTHER -> {}

LEMMA ValuesAreWords ==
    ASSUME NEW claim, claimValues(claim) # None, NEW w,
           claim.json = "string" => claim.phrase \in Seq(STRING) /\ Separated(claim.phrase)
    PROVE  <<w>> \in The(claimValues(claim)) <=> w \in WordsOf(claim)
<1>1. CASE claim.json = "string"
    <2>1. claimValues(claim) = Some(splitClaimString(claim.phrase)) /\ WordsOf(claim) = Words(claim.phrase)
        BY <1>1, Zenon DEF claimValues, WordsOf
    <2>2. The(claimValues(claim)) = splitClaimString(claim.phrase)
        BY <2>1 DEF Some, The
    <2>3. <<w>> \in splitClaimString(claim.phrase) => w \in Words(claim.phrase)
        BY <1>1, PartIsWord, Zenon
    <2>4. w \in Words(claim.phrase) => <<w>> \in splitClaimString(claim.phrase)
        BY <1>1, WordIsPart, Zenon
    <2> QED BY <2>1, <2>2, <2>3, <2>4
<1>2. CASE claim.json = "list"
    <2>1. PICK items : items = claim.items
        OBVIOUS
    <2>2. claimValues(claim) = Some({<<TrimSpace(items[i].text)>> : i \in DOMAIN items})
        BY <1>2, <2>1, Zenon DEF claimValues
    <2>3. The(claimValues(claim)) = {<<TrimSpace(items[i].text)>> : i \in DOMAIN items}
        BY <2>2 DEF Some, The
    <2>4. WordsOf(claim) = {items[i].text.word : i \in DOMAIN items}
        BY <1>2, <2>1, Zenon DEF WordsOf
    <2> QED BY <2>3, <2>4 DEF TrimSpace
<1>3. CASE claim.json = "absent"
    <2>1. claimValues(claim) = Some({}) /\ WordsOf(claim) = {}
        BY <1>3, Zenon DEF claimValues, WordsOf
    <2> QED BY <2>1 DEF Some, The
<1>4. CASE claim.json \notin {"string", "list", "absent"}
    BY <1>4, Zenon DEF claimValues
<1> QED BY <1>1, <1>2, <1>3, <1>4, Zenon

LEMMA TokenWriter ==
    ASSUME RolesAreWords, mode = "jwt", mode \in Modes, NEW v \in Presented(mode),
           NEW p, p = Authenticate(mode, v), p # NoPrincipal
    PROVE  Entitled(mode, v) <=> MayWrite(p.roles)
<1>1. p = JWTAuthenticate(JWT, v, Now)
    BY Zenon DEF Authenticate
<1>2. PICK token, claims :
        /\ token = bearerToken(v)
        /\ claims = IF token # None /\ The(token).parts = 3
                    THEN verifiedClaims(JWT, The(token)) ELSE None
    OBVIOUS
<1>3. /\ claims # None /\ Accepts(JWT, The(claims), Now)
      /\ p = [subject |-> subjectFromClaims(JWT, The(claims)),
              roles |-> rolesFromClaims(JWT, The(claims))]
    BY <1>1, <1>2, Zenon DEF JWTAuthenticate
<1>4. token # None /\ claims = verifiedClaims(JWT, The(token))
    BY <1>2, <1>3, Zenon
<1>5. token = v.token
    BY <1>2, <1>4, Zenon DEF bearerToken
<1>6. claims = The(token).claims /\ The(token).key = JWT.verifier
    BY <1>3, <1>4, Zenon DEF verifiedClaims
<1>7. PICK claim, values : claim = Claim(The(claims), JWT.rolesClaim) /\ values = claimValues(claim)
    OBVIOUS
<1>8. Now < Claim(The(claims), "exp").seconds /\ values # None
    BY <1>3, <1>7, Zenon DEF Accepts, validateClaims
<1>9. claim.json = "string" => claim.phrase \in Seq(STRING) /\ Separated(claim.phrase)
    BY <1>3, <1>4, <1>5, <1>6, <1>7, Zenon DEF RolesAreWords
<1>10. \A w : <<w>> \in The(values) <=> w \in WordsOf(claim)
    BY <1>7, <1>8, <1>9, ValuesAreWords, Zenon
<1>11. p.roles = UNION {JWT.bindings[w] : w \in {w \in DOMAIN JWT.bindings : <<w>> \in The(values)}}
    <2>1. p.roles = rolesFromClaims(JWT, The(claims))
        BY <1>3
    <2> QED BY <1>7, <2>1 DEF rolesFromClaims
<1>12. MayWrite(p.roles) <=>
        \E w \in DOMAIN JWT.bindings : <<w>> \in The(values) /\ MayWrite(JWT.bindings[w])
    BY <1>11 DEF MayWrite
<1>13. Entitled(mode, v) <=>
        /\ The(v.token).key = JWT.verifier /\ The(v.token).claims # None
        /\ Now < Claim(The(The(v.token).claims), "exp").seconds
        /\ \E w \in WordsOf(Claim(The(The(v.token).claims), JWT.rolesClaim)) \cap DOMAIN JWT.bindings :
                MayWrite(JWT.bindings[w])
    BY Zenon DEF Entitled, WordsOf, MayWrite
<1>14. Entitled(mode, v) <=> \E w \in WordsOf(claim) \cap DOMAIN JWT.bindings : MayWrite(JWT.bindings[w])
    BY <1>3, <1>5, <1>6, <1>7, <1>8, <1>13, Zenon
<1> QED BY <1>10, <1>12, <1>14, Zenon

\* Who is known may write if and only if the token says so.
LEMMA KnownWriter ==
    ASSUME AccessIsBuilt, RolesAreWords, mode \in Modes,
           NEW v \in Presented(mode), Authenticate(mode, v) # NoPrincipal
    PROVE  Entitled(mode, v) <=> MayWrite(Authenticate(mode, v).roles)
<1>1. CASE mode = "disabled"
    BY <1>1, DisabledWriter
<1>2. CASE mode = "static_token"
    BY <1>2, StaticWriter, Zenon
<1>3. CASE mode = "jwt"
    BY <1>3, TokenWriter, Zenon
<1> QED BY <1>1, <1>2, <1>3, Zenon DEF AccessIsBuilt

-----------------------------------------------------------------------------
(* Only writers update evidence. *)

LEMMA RefusedDid ==
    ASSUME NEW status
    PROVE  Refused(status).did = "nothing"
BY DEF Refused

LEMMA AskedDid ==
    ASSUME NEW op, NEW about, NEW limit
    PROVE  Asked(op, about, limit).did = op
BY DEF Asked

LEMMA ListedDid ==
    ASSUME NEW r, NEW op, NEW about
    PROVE  Listed(r, op, about).did \in {op, "nothing"}
BY RefusedDid, AskedDid DEF Listed

LEMMA PostedDid ==
    ASSUME NEW r, NEW op, NEW about, NEW accepted
    PROVE  Posted(r, op, about, accepted).did \in {op, "nothing"}
BY RefusedDid, AskedDid DEF Posted

LEMMA OnlyDid ==
    ASSUME NEW r, NEW method, NEW answer
    PROVE  /\ Only(r, method, answer).did \in {answer.did, "nothing"}
           /\ r.method # method => Only(r, method, answer).did = "nothing"
BY RefusedDid DEF Only

\* What the handler takes for an update, the middleware took for one.
LEMMA UpdatesAreClassified ==
    ASSUME NEW r, NEW S, r.segments \in Seq(S), Register(r).did = "update"
    PROVE  isEvidenceUpdate(r) /\ r.route # "/healthz"
<1>0. PICK parts, n, e : parts = PathParts(r) /\ n = Len(parts) /\ e = ""
    BY Zenon
<1>1. ~Unclean(r)
    BY Routed, RefusedDid
<1>2. r.route = "/api/v1/change-packets/"
    <2>1. Only(r, "GET", Listed(r, "list", <<>>)).did # "update"
        BY ListedDid, OnlyDid
    <2>2. Only(r, "GET", Asked("calibration", <<>>, 0)).did # "update"
        BY AskedDid, OnlyDid
    <2> QED BY <1>1, <2>1, <2>2, Routed, RefusedDid
<1>3. handleChangePacketByID(r).did = "update"
    BY <1>1, <1>2, Routed
<1>4. PICK answer : answer = handleChangePacketByID(r)
    OBVIOUS
<1>5. HandledAs(r, e, parts, n, answer)
    BY <1>0, <1>4, Handled, Zenon
<1>6. parts[1] # e
    BY <1>3, <1>4, <1>5, RefusedDid DEF HandledAs
<1>7. n = 3 /\ parts[2] = "evidence" /\ parts[3] # "audit"
    <2>1. Only(r, "GET", Asked("get", <<<<parts[1]>>>>, 0)).did # "update"
        BY AskedDid, OnlyDid
    <2>2. Only(r, "GET", Listed(r, "audit", <<<<parts[1]>>>>)).did # "update"
        BY ListedDid, OnlyDid
    <2>3. Only(r, "POST", Posted(r, "outcome", <<<<parts[1]>>>>, {"one", "two"})).did # "update"
        BY PostedDid, OnlyDid
    <2>4. Refused(404).did # "update"
        BY RefusedDid
    <2> QED BY <1>3, <1>4, <1>5, <1>6, <2>1, <2>2, <2>3, <2>4 DEF HandledAs
<1>8. r.method = "PUT"
    BY <1>3, <1>4, <1>5, <1>6, <1>7, OnlyDid DEF HandledAs
<1>9. parts[3] # e
    <2>1. PICK T : T = S \cup {e}
        OBVIOUS
    <2>2. r.segments \in Seq(T) /\ e \in T
        BY <2>1
    <2>3. parts = Trim(r.segments, e)
        BY <1>0, PathIsTrimmed, Zenon
    <2>4. PICK segments : segments = r.segments
        OBVIOUS
    <2>5. segments \in Seq(T) /\ parts = Trim(segments, e)
        BY <2>2, <2>3, <2>4
    <2>6. Len(parts) > 1 => parts[Len(parts)] # e
        BY <2>2, <2>5, TrimFacts
    <2>7. Len(parts) = 3
        BY <1>0, <1>7
    <2> QED BY <2>6, <2>7
<1>10. isEvidenceUpdate(r)
    BY <1>0, <1>6, <1>7, <1>8, <1>9, Zenon DEF isEvidenceUpdate
<1> QED BY <1>2, <1>10, Zenon

LEMMA FormIsTyped ==
    ASSUME CallsAreTyped, NEW c \in AllCalls
    PROVE  \E S : Form(c).segments \in Seq(S)
<1>1. c.op \in {"get", "list", "audit", "update"}
    BY CallType
<1>2. Form(c).segments = Path(c)
    BY FormFields
<1>0. c.id \in Seq(STRING) /\ c.name \in Seq(STRING)
    BY CallType
<1>3. PICK S, T : T = STRING /\ S = T \cup {"api", "v1", "change-packets", "evidence", "audit"}
    OBVIOUS
<1>4. c.id \in Seq(S) /\ c.name \in Seq(S)
    BY <1>0, <1>3, Wider
<1>5. Path(c) \in Seq(S)
    <2>1. CASE c.op = "list"
        <3>1. Path(c) = <<"api", "v1", "change-packets">>
            BY <2>1, PathOf
        <3> QED BY <1>3, <3>1
    <2>2. CASE c.op = "get"
        BY <1>4, <2>2, PathOf
    <2>3. CASE c.op = "audit"
        <3>1. Path(c) = c.id \o <<"evidence", "audit">>
            BY <2>3, PathOf
        <3>2. <<"evidence", "audit">> \in Seq(S)
            BY <1>3
        <3> QED BY <1>4, <3>1, <3>2
    <2>4. CASE c.op = "update"
        <3>1. Path(c) = c.id \o <<"evidence">> \o c.name
            BY <2>4, PathOf
        <3>2. <<"evidence">> \in Seq(S)
            BY <1>3
        <3> QED BY <1>4, <3>1, <3>2
    <2> QED BY <1>1, <2>1, <2>2, <2>3, <2>4
<1> QED BY <1>2, <1>5

LEMMA WriterNeeded ==
    ASSUME NEW p, NEW role, role = "evidence_writer"
    PROVE  /\ Authorize(p, role) = "ok" => p # NoPrincipal /\ MayWrite(p.roles)
           /\ Authorize(p, role) = "forbidden" => ~MayWrite(p.roles)
<1>1. NoPrincipal.subject = ""
    BY DEF NoPrincipal
<1>2. Authorize(p, role) = "ok" => p # NoPrincipal
    BY <1>1, AuthorizeResults, Zenon
<1> QED BY <1>2, Zenon DEF Authorize, MayWrite

LEMMA ServiceNeverForbids ==
    ASSUME NEW err \in {"ok", "packet not found", "invalid", "evidence not found", "transition", "error"}
    PROVE  grpcStatusForError(err) # "PermissionDenied"
<1>1. CASE err = "ok"
    BY <1>1, Zenon DEF grpcStatusForError
<1>2. CASE err \in {"packet not found", "evidence not found"}
    BY <1>2, Zenon DEF grpcStatusForError
<1>3. CASE err = "invalid"
    BY <1>3, Zenon DEF grpcStatusForError
<1>4. CASE err = "transition"
    BY <1>4, Zenon DEF grpcStatusForError
<1>5. CASE err = "error"
    BY <1>5, Zenon DEF grpcStatusForError
<1> QED BY <1>1, <1>2, <1>3, <1>4, <1>5, Zenon

\* An answer that updates was given to someone who is entitled.
LEMMA HTTPUpdater ==
    ASSUME AccessIsBuilt, RolesAreWords, mode \in Modes, NEW v \in Presented(mode), NEW r,
           NEW S, r.segments \in Seq(S), ServeHTTP(r, Authenticate(mode, v)).did = "update"
    PROVE  Entitled(mode, v)
<1>0. PICK p, access : p = Authenticate(mode, v) /\ access = AccessMiddleware(r, p)
    OBVIOUS
<1>1. AccessMiddleware(r, p) = "ok"
    <2>1. access = "ok" \/ \E role : access = Authorize(p, role)
        BY <1>0, Zenon DEF AccessMiddleware
    <2>2. access \in {"ok", "unauthenticated", "forbidden"}
        BY <2>1, AuthorizeResults, Zenon
    <2>3. access # "unauthenticated" /\ access # "forbidden"
        BY <1>0, Served, RefusedDid
    <2> QED BY <1>0, <2>2, <2>3
<1>2. Register(r).did = "update"
    BY <1>0, <1>1, Served
<1>3. isEvidenceUpdate(r) /\ r.route # "/healthz"
    BY <1>2, UpdatesAreClassified
<1>4. Authorize(p, "evidence_writer") = "ok"
    BY <1>1, <1>3, Zenon DEF AccessMiddleware
<1>5. p # NoPrincipal /\ MayWrite(p.roles)
    BY <1>4, WriterNeeded, Zenon
<1> QED BY <1>0, <1>5, KnownWriter, Zenon

LEMMA GRPCUpdater ==
    ASSUME AccessIsBuilt, RolesAreWords, CallsAreTyped, mode \in Modes,
           NEW v \in Presented(mode), NEW c \in AllCalls, result \in Outcomes(c.op)
    PROVE  LET answer == AccessUnaryServerInterceptor(c, Authenticate(mode, v))
           IN /\ answer.did = "update" => Entitled(mode, v)
              /\ (c.op = "update" /\ Authenticate(mode, v) # NoPrincipal /\ Entitled(mode, v)) =>
                    answer.status # "PermissionDenied"
<1>0. PICK p, access, answer : /\ p = Authenticate(mode, v) /\ access = Authorize(p, RoleOf(c.op))
                               /\ answer = AccessUnaryServerInterceptor(c, p)
    OBVIOUS
<1>1. c.op \in {"get", "list", "audit", "update"}
    BY CallType
<1>2. access \in {"ok", "unauthenticated", "forbidden"}
    BY <1>0, AuthorizeResults, Zenon
<1>3. /\ access = "ok" => answer = Server(c)
      /\ access = "unauthenticated" => answer = Refused("Unauthenticated")
      /\ access = "forbidden" => answer = Refused("PermissionDenied")
    BY <1>0, <1>1, Intercepted
<1>4. Server(c).did \in {c.op, "nothing"}
    <2>1. \/ Server(c) = Refused("InvalidArgument")
          \/ \E s, l : Server(c) = [did |-> c.op, about |-> About(c), status |-> s, limit |-> l]
        BY Zenon DEF Server
    <2> QED BY <2>1, RefusedDid
<1>5. ASSUME answer.did = "update"
      PROVE  Entitled(mode, v)
    <2>1. access = "ok" /\ c.op = "update"
        BY <1>1, <1>2, <1>3, <1>4, <1>5, RefusedDid
    <2>2. Authorize(p, "evidence_writer") = "ok"
        BY <1>0, <2>1 DEF RoleOf
    <2>3. p # NoPrincipal /\ MayWrite(p.roles)
        BY <2>2, WriterNeeded, Zenon
    <2> QED BY <1>0, <2>3, KnownWriter, Zenon
<1>6. ASSUME c.op = "update", p # NoPrincipal, Entitled(mode, v)
      PROVE  answer.status # "PermissionDenied"
    <2>1. MayWrite(p.roles)
        BY <1>0, <1>6, KnownWriter, Zenon
    <2>2. access = Authorize(p, "evidence_writer")
        BY <1>0, <1>6 DEF RoleOf
    <2>3. access # "forbidden"
        BY <2>1, <2>2, WriterNeeded, Zenon
    <2>4. CASE access = "unauthenticated"
        BY <1>3, <2>4 DEF Refused
    <2>5. CASE access = "ok"
        <3>1. grpcStatusForError(result) # "PermissionDenied"
            BY OutcomesAreKnown, ServiceNeverForbids, Zenon
        <3>2. \/ Server(c) = Refused("InvalidArgument")
              \/ \E l : Server(c) = [did |-> c.op, about |-> About(c), status |-> grpcStatusForError(result), limit |-> l]
            BY Zenon DEF Server
        <3>3. Refused("InvalidArgument").status # "PermissionDenied"
            BY DEF Refused
        <3> QED BY <1>3, <2>5, <3>1, <3>2, <3>3
    <2> QED BY <1>2, <2>3, <2>4, <2>5
<1> QED BY <1>0, <1>5, <1>6, Zenon

\* Who calls, and what is asked.
AskInv ==
    /\ mode \in Modes
    /\ HeaderGet(authorization) \in Presented(mode)
    /\ authorizationFromMetadata(authorization) \in Presented(mode)
    /\ call = None => request \in OtherRequests[mode]

LEMMA AskStep ==
    ASSUME AskInv, [CallNext]_callVars
    PROVE  AskInv' /\ mode' = mode /\ authorization' = authorization
<1>1. CASE AnswerHTTP
    BY <1>1 DEF AskInv, AnswerHTTP
<1>2. CASE AnswerGRPC
    BY <1>2 DEF AskInv, AnswerGRPC
<1>3. CASE UNCHANGED callVars
    BY <1>3 DEF AskInv, callVars
<1> QED BY <1>1, <1>2, <1>3 DEF CallNext

\* The parts of UpdateNeedsWriter, and as whom the caller of the gRPC method is
\* known.
HTTPInv ==
    (httpAnswer # None /\ The(httpAnswer).did = "update") => Entitled(mode, HeaderGet(authorization))
GRPCInv ==
    LET v == authorizationFromMetadata(authorization)
    IN grpcAnswer # None =>
        /\ The(grpcAnswer).principal = Authenticate(mode, v)
        /\ The(grpcAnswer).did = "update" => Entitled(mode, v)
        /\ (/\ The(call).op = "update" /\ Entitled(mode, v) /\ Authenticate(mode, v) # NoPrincipal) =>
                The(grpcAnswer).status # "PermissionDenied"

LEMMA HTTPStep ==
    ASSUME AccessIsBuilt, RolesAreWords, CallsAreTyped, RequestsAreTyped,
           CallInv, AskInv, HTTPInv, [CallNext]_callVars
    PROVE  HTTPInv'
<1>1. CASE AnswerHTTP
    <2>1. PICK p, answer : p = Authenticate(mode, HeaderGet(authorization)) /\ answer = ServeHTTP(request, p)
        OBVIOUS
    <2>2. httpAnswer' = Some(To(p, answer)) /\ mode' = mode /\ authorization' = authorization
        BY <1>1, <2>1 DEF AnswerHTTP
    <2>3. The(httpAnswer').did = answer.did
        BY <2>2, Known
    <2>4. \E S : request.segments \in Seq(S)
        <3>1. CASE call = None
            BY <3>1, Zenon DEF AskInv, RequestsAreTyped
        <3>2. CASE call # None
            BY <3>2, FormIsTyped, Zenon DEF CallInv
        <3> QED BY <3>1, <3>2
    <2>5. answer.did = "update" => Entitled(mode, HeaderGet(authorization))
        BY <2>1, <2>4, HTTPUpdater, Zenon DEF AskInv
    <2> QED BY <2>2, <2>3, <2>5, Zenon DEF HTTPInv
<1>2. CASE AnswerGRPC
    BY <1>2, Zenon DEF HTTPInv, AnswerGRPC
<1>3. CASE UNCHANGED callVars
    BY <1>3 DEF HTTPInv, callVars
<1> QED BY <1>1, <1>2, <1>3 DEF CallNext

LEMMA GRPCStep ==
    ASSUME AccessIsBuilt, RolesAreWords, CallsAreTyped, CallInv, AskInv, GRPCInv, [CallNext]_callVars
    PROVE  GRPCInv'
<1>1. CASE AnswerGRPC
    <2>1. PICK c, p, answer : /\ c = The(call) /\ p = Authenticate(mode, authorizationFromMetadata(authorization))
                              /\ answer = AccessUnaryServerInterceptor(c, p)
        OBVIOUS
    <2>2. grpcAnswer' = Some(To(p, answer)) /\ mode' = mode /\ authorization' = authorization /\ call' = call /\ call # None
        BY <1>1, <2>1 DEF AnswerGRPC
    <2>3. /\ The(grpcAnswer').did = answer.did /\ The(grpcAnswer').status = answer.status
          /\ The(grpcAnswer').principal = p
        BY <2>2, Known
    <2>4. c \in AllCalls /\ result \in Outcomes(c.op)
        BY <2>1, <2>2 DEF CallInv
    <2>5. /\ answer.did = "update" => Entitled(mode, authorizationFromMetadata(authorization))
          /\ (c.op = "update" /\ p # NoPrincipal /\ Entitled(mode, authorizationFromMetadata(authorization))) =>
                answer.status # "PermissionDenied"
        BY <2>1, <2>4, GRPCUpdater, Zenon DEF AskInv
    <2> QED BY <2>1, <2>2, <2>3, <2>5, Zenon DEF GRPCInv
<1>2. CASE AnswerHTTP
    BY <1>2, Zenon DEF GRPCInv, AnswerHTTP
<1>3. CASE UNCHANGED callVars
    BY <1>3 DEF GRPCInv, callVars
<1> QED BY <1>1, <1>2, <1>3 DEF CallNext

(***************************************************************************)
(* For every configuration of access that buildAuthenticator accepts and   *)
(* every request, a caller updates evidence over HTTP or gRPC only if the  *)
(* caller's own token entitles to it, and whoever is entitled and known is *)
(* not refused as forbidden (isEvidenceUpdate against                      *)
(* handleChangePacketByID, roleForMethod, Authorize, claimValues).         *)
(***************************************************************************)
THEOREM UpdateNeedsWriterHolds ==
    ASSUME AccessIsBuilt, AuthorizationsAreTyped, RolesAreWords, CallsAreTyped, RequestsAreTyped
    PROVE  CallSpec => []UpdateNeedsWriter
<1> DEFINE Inv == CallInv /\ AskInv /\ HTTPInv /\ GRPCInv
<1>1. CallInit => Inv
    <2>1. CallInit => AskInv
        BY ValuesArePresented DEF CallInit, AskInv, None, Some
    <2> QED BY <2>1, CallStart DEF HTTPInv, GRPCInv
<1>2. Inv /\ [CallNext]_callVars => Inv'
    BY CallStep, AskStep, HTTPStep, GRPCStep
<1>3. Inv => UpdateNeedsWriter
    BY Zenon DEF HTTPInv, GRPCInv, UpdateNeedsWriter
<1> QED BY <1>1, <1>2, <1>3, PTL DEF CallSpec

=============================================================================
