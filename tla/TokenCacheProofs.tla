-------------------------- MODULE TokenCacheProofs --------------------------
(* Proofs about TokenCache, for any callers, offsets, lifetimes and margins
   that TokenConstants allows. *)
EXTENDS TokenCache, TLAPS

\* No request or answer is under way for longer than MaxDelay.
Prompt ==
    \A c \in Callers : pc[c] \in UnderWay => since[c] <= now /\ now <= since[c] + MaxDelay

\* A JWT is sent when it is made, and a new token lives from its issue on.
Dated ==
    \A c \in Callers :
        /\ pc[c] = "post" => jwt[c] = since[c]
        /\ pc[c] = "answer" => token[c] = GitHub(since[c]) + Lifetime

\* A token that is being used outlives the request that carries it.
Outlives == \A c \in Callers : pc[c] = "call" => GitHub(since[c]) + MaxDelay < token[c]

TokenInv == TypeOK /\ OneRequest /\ Prompt /\ Dated /\ Outlives /\ NoExpiredCall

(***************************************************************************)
(* TokenConstants, one fact at a time.                                     *)
(***************************************************************************)
LEMMA ConstantFacts ==
    /\ "free" \notin Callers
    /\ LocalOffset \in Nat /\ GitHubOffset \in Nat /\ Lifetime \in Nat /\ Margin \in Nat
    /\ Backdate \in Nat /\ JWTLifetime \in Nat /\ MaxDelay \in Nat
    /\ LocalOffset <= GitHubOffset + Backdate
    /\ GitHubOffset + MaxDelay < LocalOffset + JWTLifetime
    /\ GitHubOffset + MaxDelay <= LocalOffset + Margin
    /\ MaxDelay + MaxDelay < Lifetime
  BY TokenConstants

(***************************************************************************)
(* For every instance, Token keeps its invariant: one request for a token  *)
(* at a time, and every token in use is good for as long as its request    *)
(* takes, whether it came from the cache or from GitHub.                   *)
(***************************************************************************)
THEOREM TokenCorrect == Spec => []TokenInv
  <1> USE ConstantFacts DEF UnderWay, GitHub, Local
  <1>1. Init => TokenInv
    <2>1. Init => TypeOK /\ NoExpiredCall
      <3>1. Init => rejected \in BOOLEAN /\ NoExpiredCall
        BY Zenon DEF Init, NoExpiredCall
      <3>2. 0 \in Nat
        OBVIOUS
      <3>3. Init => TypeOK
        BY <3>1, <3>2, Zenon DEF Init, TypeOK
      <3>4. QED
        BY <3>1, <3>3
    <2>2. Init => OneRequest /\ Prompt /\ Dated /\ Outlives
      BY DEF Init, OneRequest, Prompt, Dated, Outlives
    <2>3. QED
      BY <2>1, <2>2 DEF TokenInv
  <1>2. TokenInv /\ [Next]_vars => TokenInv'
    <2> SUFFICES ASSUME TokenInv, [Next]_vars PROVE TokenInv'
      OBVIOUS
    <2> USE DEF TokenInv
    <2>1. CASE Tick
      BY <2>1 DEF Tick, TypeOK, OneRequest, Prompt, Dated, Outlives, NoExpiredCall
    <2>2. ASSUME NEW c \in Callers, Ask(c) PROVE TokenInv'
      BY <2>2 DEF Ask, TypeOK, OneRequest, Prompt, Dated, Outlives, NoExpiredCall
    <2>3. ASSUME NEW c \in Callers, TokenCached(c) PROVE TokenInv'
      <3>1. TypeOK' /\ NoExpiredCall'
        BY <2>3 DEF TokenCached, Use, TypeOK, NoExpiredCall
      <3>2. OneRequest' /\ Prompt' /\ Dated'
        BY <2>3 DEF TokenCached, Use, TypeOK, OneRequest, Prompt, Dated
      <3>3. now + GitHubOffset + MaxDelay < cached
        BY <2>3 DEF TokenCached, Usable, TypeOK
      <3>4. Outlives'
        BY <2>3, <3>3 DEF TokenCached, Use, TypeOK, Outlives
      <3>5. QED
        BY <3>1, <3>2, <3>4
    <2>4. ASSUME NEW c \in Callers, TokenExpired(c) PROVE TokenInv'
      <3>1. TypeOK' /\ Prompt' /\ Dated' /\ Outlives' /\ NoExpiredCall'
        BY <2>4 DEF TokenExpired, TypeOK, Prompt, Dated, Outlives, NoExpiredCall
      <3>2. OneRequest'
        BY <2>4 DEF TokenExpired, TypeOK, OneRequest
      <3>3. QED
        BY <3>1, <3>2
    <2>5. ASSUME NEW c \in Callers, Issue(c) PROVE TokenInv'
      BY <2>5 DEF Issue, TypeOK, OneRequest, Prompt, Dated, Outlives, NoExpiredCall
    <2>6. ASSUME NEW c \in Callers, TokenReceived(c) PROVE TokenInv'
      <3>1. TypeOK' /\ NoExpiredCall'
        BY <2>6 DEF TokenReceived, Use, TypeOK, NoExpiredCall
      <3>2. Prompt' /\ Dated'
        BY <2>6 DEF TokenReceived, Use, TypeOK, Prompt, Dated
      <3>3. OneRequest'
        BY <2>6 DEF TokenReceived, Use, TypeOK, OneRequest
      <3>4. now + GitHubOffset + MaxDelay < token[c]
        BY <2>6 DEF TokenReceived, TypeOK, Prompt, Dated
      <3>5. Outlives'
        BY <2>6, <3>4 DEF TokenReceived, Use, TypeOK, Outlives
      <3>6. QED
        BY <3>1, <3>2, <3>3, <3>5
    <2>7. ASSUME NEW c \in Callers, TokenFails(c) PROVE TokenInv'
      BY <2>7 DEF TokenFails, TypeOK, OneRequest, Prompt, Dated, Outlives, NoExpiredCall
    <2>8. ASSUME NEW c \in Callers, Call(c) PROVE TokenInv'
      <3>1. now + GitHubOffset < token[c]
        BY <2>8 DEF Call, TypeOK, Prompt, Outlives
      <3>2. rejected' = FALSE
        BY <2>8, <3>1 DEF Call, NoExpiredCall, TypeOK
      <3>3. QED
        BY <2>8, <3>2 DEF Call, TypeOK, OneRequest, Prompt, Dated, Outlives, NoExpiredCall
    <2>9. CASE UNCHANGED vars
      BY <2>9 DEF vars, TypeOK, OneRequest, Prompt, Dated, Outlives, NoExpiredCall
    <2>10. QED
      BY <2>1, <2>2, <2>3, <2>4, <2>5, <2>6, <2>7, <2>8, <2>9 DEF Next, Token
  <1>3. QED
    BY <1>1, <1>2, PTL DEF Spec

(***************************************************************************)
(* For every instance, no call carries an expired token, as long as the    *)
(* margin covers the clocks' difference and the duration of a request.     *)
(***************************************************************************)
THEOREM NoExpiredCallHolds == Spec => []NoExpiredCall
  BY TokenCorrect, PTL DEF TokenInv

(***************************************************************************)
(* For every instance, at most one request for a token is under way.       *)
(***************************************************************************)
THEOREM OneRequestHolds == Spec => []OneRequest
  BY TokenCorrect, PTL DEF TokenInv

(***************************************************************************)
(* For every instance, GitHub gets a JWT within its lifetime, if the local *)
(* clock is ahead of GitHub's by no more than the backdating of iat.       *)
(***************************************************************************)
THEOREM JWTIsTimelyHolds == Spec => []JWTIsTimely
  <1>1. TokenInv => JWTIsTimely
    BY ConstantFacts
       DEF TokenInv, TypeOK, Prompt, Dated, JWTIsTimely, Accepts, UnderWay, Local, GitHub
  <1>2. QED
    BY <1>1, TokenCorrect, PTL

=============================================================================
