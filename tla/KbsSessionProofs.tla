-------------------------- MODULE KbsSessionProofs --------------------------
(***************************************************************************)
(* Proofs about KbsSession for any number of requests, workers, buckets    *)
(* and nonces, any assignment of ids to buckets and any timeout.           *)
(***************************************************************************)
EXTENDS KbsSession, TLAPS

-----------------------------------------------------------------------------
(* The inductive invariant *)

\* What an /auth has filled in by the time it reaches a program point.
AuthProgress ==
    \A r \in AuthReqs :
        /\ auth[r].pc \in {"challenge", "insert", "done"} => auth[r].tee \in Tees
        /\ auth[r].pc \in {"insert", "done"} => auth[r].nonce \in Nonces

\* No two challenges share a nonce.
NoncesDiffer ==
    \A q, r \in AuthReqs :
        (q # r /\ auth[q].nonce \in Nonces) => auth[q].nonce # auth[r].nonce

\* A session in the map was put there by its /auth, which has ended, and keeps
\* the TEE and the nonce of it.
SessionFromAuth ==
    \A s \in AuthReqs :
        /\ sessions[s].status # "absent" => auth[s].pc = "done"
        /\ sessions[s].status = "Authed" =>
              sessions[s].tee = auth[s].tee /\ sessions[s].nonce = auth[s].nonce

\* A running /attest has the cookie of an opened session, and past the first
\* lookup the TEE and the nonce of that session's challenge.
AttestProgress ==
    \A r \in AttReqs :
        /\ att[r].pc \in {"lookup", "lock", "verify", "token"} =>
              att[r].cookie \in AuthReqs /\ auth[att[r].cookie].pc = "done"
        /\ att[r].pc \in {"lock", "verify"} =>
              /\ att[r].tee = auth[att[r].cookie].tee
              /\ att[r].nonce = auth[att[r].cookie].nonce

GetProgress ==
    \A r \in GetReqs :
        get[r].pc \in {"lookup", "token"} =>
            get[r].cookie \in AuthReqs /\ auth[get[r].cookie].pc = "done"

\* Token k was obtained for session s by the request it names, which was
\* answered with it and whose evidence was bound to the challenge of s.
Issued(s, k) ==
    /\ att[k.req].pc = "token"
    /\ att[k.req].cookie = s
    /\ att[k.req].token = k
    /\ att[k.req].evNonce = auth[s].nonce
    /\ k.nonce = auth[s].nonce
    /\ k.tee = auth[s].tee

\* The token of an attested session is the one its verification returned.
SessionTokenIssued ==
    \A s \in AuthReqs : sessions[s].status = "Attested" =>
        Issued(s, sessions[s].token)

\* The token of an answer is one that a verification for that cookie returned.
AnswerTokenIssued ==
    /\ \A r \in AttReqs : att[r].pc = "token" =>
          att[r].token \in Token /\ Issued(att[r].cookie, att[r].token)
    /\ \A r \in GetReqs : get[r].pc = "token" =>
          get[r].token \in Token /\ Issued(get[r].cookie, get[r].token)

\* A session with an issued token is attested with it or has left the map, so
\* no second token is issued.
IssuedIsKept ==
    \A r \in AttReqs : (att[r].pc = "token" /\ att[r].token.req = r) =>
        \/ sessions[att[r].cookie].status = "absent"
        \/ /\ sessions[att[r].cookie].status = "Attested"
           /\ sessions[att[r].cookie].token = att[r].token

\* At most one verification succeeds for a session.
OneIssuer ==
    \A q, r \in AttReqs :
        (/\ att[q].pc = "token" /\ att[q].token.req = q
         /\ att[r].pc = "token" /\ att[r].token.req = r
         /\ att[q].cookie = att[r].cookie) => q = r

IndInv ==
    /\ TypeOK
    /\ AuthProgress
    /\ NoncesDiffer
    /\ SessionFromAuth
    /\ AttestProgress
    /\ GetProgress
    /\ GuardOwnedByVerifier
    /\ VerifyingSessionIsAuthed
    /\ SessionTokenIssued
    /\ AnswerTokenIssued
    /\ IssuedIsKept
    /\ OneIssuer


-----------------------------------------------------------------------------
(* Facts about the types *)

\* What a session in the map holds.
LEMMA SessionFields ==
  ASSUME TypeOK, NEW s \in AuthReqs
  PROVE  /\ sessions[s].status \in {"Authed", "Attested", "absent"}
         /\ sessions[s].status = "Authed" =>
               /\ sessions[s].tee \in Tees
               /\ sessions[s].nonce \in Nonces
               /\ sessions[s].timeout \in Int
         /\ sessions[s].status = "Attested" =>
               sessions[s].token \in Token /\ sessions[s].timeout \in Int
  BY DEF TypeOK, Authed, Attested, Absent

\* The updates __attest makes to its own state.
LEMMA AttestFields ==
  ASSUME NEW a \in AttState
  PROVE  /\ \A p \in AttPc : [a EXCEPT !.pc = p] \in AttState
         /\ \A k \in Token :
               [a EXCEPT !.pc = "token", !.token = k] \in AttState
         /\ \A n \in Nonces, t \in Tees :
               [a EXCEPT !.pc = "lock", !.tee = t, !.nonce = n] \in AttState
         /\ \A c \in AuthReqs, rt, ev \in Nonces, ok \in BOOLEAN :
               [a EXCEPT !.pc = "lookup", !.cookie = c, !.rtNonce = rt,
                         !.evNonce = ev, !.extraOk = ok] \in AttState
<1>1. \A p \in AttPc : [a EXCEPT !.pc = p] \in AttState
  BY DEF AttState
<1>2. \A k \in Token : [a EXCEPT !.pc = "token", !.token = k] \in AttState
  BY DEF AttState, AttPc
<1>3. \A n \in Nonces, t \in Tees :
        [a EXCEPT !.pc = "lock", !.tee = t, !.nonce = n] \in AttState
  BY DEF AttState, AttPc
<1>4. \A c \in AuthReqs, rt, ev \in Nonces, ok \in BOOLEAN :
        [a EXCEPT !.pc = "lookup", !.cookie = c, !.rtNonce = rt,
                  !.evNonce = ev, !.extraOk = ok] \in AttState
  BY DEF AttState, AttPc
<1> QED BY <1>1, <1>2, <1>3, <1>4

\* Incrementing counters keeps them natural numbers.
LEMMA IncTyped ==
  ASSUME TypeOK, NEW C, Inc(C)
  PROVE  metrics' \in [Counter -> Nat]
  BY DEF TypeOK, Inc

-----------------------------------------------------------------------------
(* One lemma per kind of step *)

\* An /auth that has not succeeded ends without a session.
LEMMA AuthEndsStep ==
  ASSUME IndInv, NEW r \in AuthReqs, NEW p \in {"error", "dropped"},
         auth[r].pc \in {"idle", "challenge"}, auth' = [auth EXCEPT ![r].pc =
         p], metrics' \in [Counter -> Nat], UNCHANGED <<clock, sessions,
         guard, sweep, att, get>>
  PROVE  IndInv'
<1>1. /\ auth'[r] = [auth[r] EXCEPT !.pc = p]
      /\ \A q \in AuthReqs \ {r} : auth'[q] = auth[q]
  BY DEF IndInv, TypeOK
<1>2. TypeOK'
  BY DEF IndInv, TypeOK, AuthState, AuthPc
<1>3. /\ GuardOwnedByVerifier'
      /\ VerifyingSessionIsAuthed'
      /\ IssuedIsKept'
      /\ OneIssuer'
  BY DEF IndInv, GuardOwnedByVerifier, VerifyingSessionIsAuthed,
      IssuedIsKept, OneIssuer
<1>4. AuthProgress'
  BY <1>1 DEF IndInv, AuthProgress, TypeOK, AuthState
<1>5. NoncesDiffer'
  BY <1>1, NoneAssumption DEF IndInv, NoncesDiffer, TypeOK, AuthState,
      AuthProgress
<1>6. SessionFromAuth'
  BY <1>1 DEF IndInv, SessionFromAuth, TypeOK
<1>7. AttestProgress'
  BY <1>1 DEF IndInv, AttestProgress, TypeOK
<1>8. GetProgress'
  BY <1>1 DEF IndInv, GetProgress, TypeOK
<1>9. SessionTokenIssued'
  BY <1>1 DEF IndInv, SessionTokenIssued, TypeOK, SessionFromAuth, Issued
<1>10. AnswerTokenIssued'
  BY <1>1 DEF IndInv, AnswerTokenIssued, TypeOK, AttestProgress, GetProgress,
      Issued
<1> QED BY <1>2, <1>3, <1>4, <1>5, <1>6, <1>7, <1>8, <1>9, <1>10 DEF IndInv

\* Answers stay issued when the answers that there are stay as they are.
LEMMA AnswersStay ==
  ASSUME AnswerTokenIssued, UNCHANGED <<auth, get>>,
         \A q \in AttReqs : att[q].pc = "token" => att'[q] = att[q],
         \A q \in AttReqs : att'[q].pc = "token" /\ att[q].pc # "token" =>
            att'[q].token \in Token /\ Issued(att[q].cookie, att[q].token)'
  PROVE  AnswerTokenIssued'
<1>1. \A s, k : k \in Token /\ Issued(s, k) => Issued(s, k)'
  BY DEF Issued, Token
<1>2. ASSUME NEW q \in AttReqs, att'[q].pc = "token"
      PROVE  att'[q].token \in Token /\ Issued(att[q].cookie, att[q].token)'
  <2>1. CASE att[q].pc # "token"
    BY <1>2, <2>1
  <2>2. CASE att[q].pc = "token"
    <3>1. att'[q] = att[q] /\ att[q].token \in Token /\ Issued(att[q].cookie, att[q].token)
      BY <2>2 DEF AnswerTokenIssued
    <3>2. PICK s, k : s = att[q].cookie /\ k = att[q].token
      OBVIOUS
    <3>3. k \in Token /\ Issued(s, k)'
      BY <1>1, <3>1, <3>2
    <3> QED BY <3>1, <3>2, <3>3 DEF Issued
  <2> QED BY <2>1, <2>2
<1>3. ASSUME NEW q \in GetReqs, get'[q].pc = "token"
      PROVE  get'[q].token \in Token /\ Issued(get[q].cookie, get[q].token)'
  <2>1. get'[q] = get[q] /\ get[q].token \in Token /\ Issued(get[q].cookie, get[q].token)
    BY <1>3 DEF AnswerTokenIssued
  <2>2. PICK s, k : s = get[q].cookie /\ k = get[q].token
    OBVIOUS
  <2>3. k \in Token /\ Issued(s, k)'
    BY <1>1, <2>1, <2>2
  <2> QED BY <2>1, <2>2, <2>3 DEF Issued
<1> QED BY <1>2, <1>3 DEF AnswerTokenIssued

\* An /auth is accepted.
LEMMA AuthStartStep ==
  ASSUME IndInv, NEW r \in AuthReqs, NEW tee \in Tees, AuthStart(r, tee)
  PROVE  IndInv'
<1>1. /\ auth'[r] = [auth[r] EXCEPT !.pc = "challenge", !.tee = tee]
      /\ \A q \in AuthReqs \ {r} : auth'[q] = auth[q]
  BY DEF IndInv, TypeOK, AuthStart
<1>2. TypeOK'
  <2>1. auth' \in [AuthReqs -> AuthState]
    BY ZenonT(60) DEF IndInv, TypeOK, AuthState, AuthPc, AuthStart
  <2> QED BY <2>1, IncTyped DEF IndInv, TypeOK, AuthStart
<1>3. /\ GuardOwnedByVerifier'
      /\ VerifyingSessionIsAuthed'
      /\ IssuedIsKept'
      /\ OneIssuer'
  BY DEF IndInv, GuardOwnedByVerifier, VerifyingSessionIsAuthed,
      IssuedIsKept, OneIssuer, AuthStart
<1>4. AuthProgress'
  BY <1>1 DEF IndInv, AuthProgress, TypeOK, AuthState, AuthStart
<1>5. NoncesDiffer'
  BY <1>1, NoneAssumption DEF IndInv, NoncesDiffer, TypeOK, AuthState,
      AuthProgress, AuthStart
<1>6. SessionFromAuth'
  BY <1>1 DEF IndInv, SessionFromAuth, TypeOK, AuthStart
<1>7. AttestProgress'
  BY <1>1 DEF IndInv, AttestProgress, TypeOK, AuthStart
<1>8. GetProgress'
  BY <1>1 DEF IndInv, GetProgress, TypeOK, AuthStart
<1>9. SessionTokenIssued'
  BY <1>1 DEF IndInv, SessionTokenIssued, TypeOK, SessionFromAuth, Issued,
      AuthStart
<1>10. AnswerTokenIssued'
  BY <1>1 DEF IndInv, AnswerTokenIssued, TypeOK, AttestProgress, GetProgress,
      Issued, AuthStart
<1> QED BY <1>2, <1>3, <1>4, <1>5, <1>6, <1>7, <1>8, <1>9, <1>10 DEF IndInv

\* An /auth gets its challenge.
LEMMA AuthChallengeStep ==
  ASSUME IndInv, NEW r \in AuthReqs, NEW n \in Nonces, AuthChallenge(r, n)
  PROVE  IndInv'
<1>1. /\ auth'[r] = [auth[r] EXCEPT !.pc = "insert", !.nonce = n,
                                !.timeout = clock + Timeout]
      /\ \A q \in AuthReqs \ {r} : auth'[q] = auth[q]
  BY DEF IndInv, TypeOK, AuthChallenge
<1>2. TypeOK'
  <2>1. auth' \in [AuthReqs -> AuthState]
    BY TimeAssumption DEF IndInv, TypeOK, AuthState, AuthPc, AuthChallenge
  <2> QED BY <2>1, IncTyped DEF IndInv, TypeOK, AuthChallenge
<1>3. /\ GuardOwnedByVerifier'
      /\ VerifyingSessionIsAuthed'
      /\ IssuedIsKept'
      /\ OneIssuer'
  BY DEF IndInv, GuardOwnedByVerifier, VerifyingSessionIsAuthed,
      IssuedIsKept, OneIssuer, AuthChallenge
<1>4. AuthProgress'
  BY <1>1 DEF IndInv, AuthProgress, TypeOK, AuthState, AuthChallenge
<1>5. NoncesDiffer'
  BY <1>1, NoneAssumption DEF IndInv, NoncesDiffer, TypeOK, AuthState,
      AuthProgress, AuthChallenge
<1>6. SessionFromAuth'
  BY <1>1 DEF IndInv, SessionFromAuth, TypeOK, AuthChallenge
<1>7. AttestProgress'
  BY <1>1 DEF IndInv, AttestProgress, TypeOK, AuthChallenge
<1>8. GetProgress'
  BY <1>1 DEF IndInv, GetProgress, TypeOK, AuthChallenge
<1>9. SessionTokenIssued'
  BY <1>1 DEF IndInv, SessionTokenIssued, TypeOK, SessionFromAuth, Issued,
      AuthChallenge
<1>10. AnswerTokenIssued'
  BY <1>1 DEF IndInv, AnswerTokenIssued, TypeOK, AttestProgress, GetProgress,
      Issued, AuthChallenge
<1> QED BY <1>2, <1>3, <1>4, <1>5, <1>6, <1>7, <1>8, <1>9, <1>10 DEF IndInv

\* A session enters the map.
LEMMA AuthInsertStep ==
  ASSUME IndInv, NEW r \in AuthReqs, AuthInsert(r)
  PROVE  IndInv'
<1>1. /\ auth'[r] = [auth[r] EXCEPT !.pc = "done"]
      /\ \A q \in AuthReqs \ {r} : auth'[q] = auth[q]
  BY DEF IndInv, TypeOK, AuthInsert
<1>2. /\ sessions'[r] = [status |-> "Authed", tee |-> auth[r].tee,
                         nonce |-> auth[r].nonce, timeout |-> auth[r].timeout]
      /\ \A q \in AuthReqs \ {r} : sessions'[q] = sessions[q]
  BY DEF IndInv, TypeOK, AuthInsert
<1>3. sessions'[r] \in Authed
  BY <1>2 DEF IndInv, TypeOK, AuthProgress, AuthState, AuthInsert, Authed
<1>4. TypeOK'
  BY <1>1, <1>2, <1>3 DEF IndInv, TypeOK, AuthState, AuthPc, AuthInsert
<1>5. /\ GuardOwnedByVerifier'
      /\ OneIssuer'
  BY DEF IndInv, GuardOwnedByVerifier, OneIssuer, AuthInsert
<1>6. AuthProgress'
  BY <1>1, <1>2, <1>3 DEF IndInv, AuthProgress, TypeOK, AuthState, AuthInsert
<1>7. NoncesDiffer'
  BY <1>1, <1>2, <1>3, NoneAssumption DEF IndInv, NoncesDiffer, TypeOK,
      AuthState, AuthProgress, AuthInsert
<1>8. SessionFromAuth'
  BY <1>1, <1>2, <1>3 DEF IndInv, SessionFromAuth, TypeOK, AuthInsert
<1>9. AttestProgress'
  BY <1>1, <1>2, <1>3 DEF IndInv, AttestProgress, TypeOK, AuthInsert
<1>10. GetProgress'
  BY <1>1, <1>2, <1>3 DEF IndInv, GetProgress, TypeOK, AuthInsert
<1>11. VerifyingSessionIsAuthed'
  BY <1>1, <1>2, <1>3 DEF IndInv, VerifyingSessionIsAuthed, TypeOK,
      AttestProgress, AuthInsert
<1>12. SessionTokenIssued'
  BY <1>1, <1>2, <1>3 DEF IndInv, SessionTokenIssued, TypeOK,
      SessionFromAuth, Issued, AuthInsert
<1>13. AnswerTokenIssued'
  BY <1>1, <1>2, <1>3 DEF IndInv, AnswerTokenIssued, TypeOK, AttestProgress,
      GetProgress, Issued, AuthInsert
<1>14. IssuedIsKept'
  BY <1>1, <1>2, <1>3 DEF IndInv, IssuedIsKept, TypeOK, AttestProgress,
      SessionFromAuth, AuthInsert
<1> QED BY <1>4, <1>5, <1>6, <1>7, <1>8, <1>9, <1>10, <1>11, <1>12, <1>13, <1>14 DEF
    IndInv

\* An /attest ends without a token, and its entry, if it holds one, is dropped.
LEMMA AttestEndsStep ==
  ASSUME IndInv, NEW r \in AttReqs, NEW p \in {"error", "panicked",
         "dropped"}, att[r].pc # "token", att' = [att EXCEPT ![r].pc = p],
         ReleaseOf(r), metrics' \in [Counter -> Nat], UNCHANGED <<clock,
         sessions, sweep, auth, get>>
  PROVE  IndInv'
<1>1. /\ att'[r].pc = p /\ att'[r].cookie = att[r].cookie
      /\ \A q \in AttReqs \ {r} : att'[q] = att[q]
  BY DEF IndInv, TypeOK, AttState
<1>2. \A q \in AttReqs : att[q].pc = "token" => att'[q] = att[q]
  BY <1>1
<1>3. TypeOK'
  <2>1. att' \in [AttReqs -> AttState]
    BY AttestFields DEF IndInv, TypeOK, AttPc
  <2>2. guard' \in [Buckets -> AttReqs \cup {None}]
    BY DEF IndInv, TypeOK, ReleaseOf
  <2> QED BY <2>1, <2>2 DEF IndInv, TypeOK
<1>4. /\ AuthProgress'
      /\ NoncesDiffer'
      /\ SessionFromAuth'
      /\ GetProgress'
  BY DEF IndInv, AuthProgress, NoncesDiffer, SessionFromAuth, GetProgress,
      ReleaseOf
<1>5. AttestProgress'
  BY <1>1, <1>2 DEF IndInv, AttestProgress, ReleaseOf
<1>6. GuardOwnedByVerifier'
  BY <1>1, <1>2, NoneAssumption, RequestAssumption DEF IndInv,
      GuardOwnedByVerifier, TypeOK, AttestProgress, Reqs, ReleaseOf
<1>7. VerifyingSessionIsAuthed'
  BY <1>1, <1>2 DEF IndInv, VerifyingSessionIsAuthed, ReleaseOf
<1>8. SessionTokenIssued'
  BY <1>1, <1>2, SessionFields DEF IndInv, SessionTokenIssued, Token, Issued,
      ReleaseOf
<1>9. AnswerTokenIssued'
  BY <1>1, <1>2 DEF IndInv, AnswerTokenIssued, Token, Issued, ReleaseOf
<1>10. IssuedIsKept'
  BY <1>1, <1>2 DEF IndInv, IssuedIsKept, ReleaseOf
<1>11. OneIssuer'
  BY <1>1, <1>2 DEF IndInv, OneIssuer, ReleaseOf
<1> QED BY <1>3, <1>4, <1>5, <1>6, <1>7, <1>8, <1>9, <1>10, <1>11 DEF IndInv

\* An /attest is received.
LEMMA AttestStartStep ==
  ASSUME IndInv, NEW r \in AttReqs, NEW s \in KnownIds, NEW rt \in
         KnownNonces, NEW ev \in KnownNonces, NEW ok \in BOOLEAN,
         AttestStart(r, s, rt, ev, ok)
  PROVE  IndInv'
<1>1. s \in AuthReqs /\ rt \in Nonces /\ ev \in Nonces
  BY DEF IndInv, AuthProgress, KnownIds, KnownNonces
<1>2. /\ att'[r].pc = "lookup" /\ att'[r].cookie = s
      /\ \A q \in AttReqs \ {r} : att'[q] = att[q]
  BY DEF IndInv, TypeOK, AttState, AttestStart
<1>3. \A q \in AttReqs : att[q].pc = "token" => att'[q] = att[q]
  BY <1>2 DEF AttestStart
<1>4. /\ att[r].pc = "idle" /\ auth[s].pc = "done"
      /\ UNCHANGED <<clock, sessions, guard, sweep, auth, get>>
  BY DEF IndInv, AttestStart, KnownIds
<1>5. TypeOK'
  <2>1. att' \in [AttReqs -> AttState]
    BY AttestFields, <1>1 DEF IndInv, TypeOK, AttestStart
  <2> QED BY <2>1, IncTyped DEF IndInv, TypeOK, AttestStart
<1>6. /\ AuthProgress'
      /\ NoncesDiffer'
      /\ SessionFromAuth'
      /\ GetProgress'
  BY DEF IndInv, AuthProgress, NoncesDiffer, SessionFromAuth, GetProgress,
      AttestStart
<1>7. AttestProgress'
  BY <1>1, <1>2, <1>3, <1>4 DEF IndInv, AttestProgress
<1>8. GuardOwnedByVerifier'
  BY <1>1, <1>2, <1>3, <1>4, NoneAssumption, RequestAssumption DEF IndInv,
      GuardOwnedByVerifier, TypeOK, AttestProgress, Reqs
<1>9. VerifyingSessionIsAuthed'
  BY <1>1, <1>2, <1>3, <1>4 DEF IndInv, VerifyingSessionIsAuthed
<1>10. SessionTokenIssued'
  BY <1>1, <1>2, <1>3, <1>4, SessionFields DEF IndInv, SessionTokenIssued,
      Token, Issued
<1>11. AnswerTokenIssued'
  BY <1>1, <1>2, <1>3, <1>4 DEF IndInv, AnswerTokenIssued, Token, Issued
<1>12. IssuedIsKept'
  BY <1>1, <1>2, <1>3, <1>4 DEF IndInv, IssuedIsKept
<1>13. OneIssuer'
  BY <1>1, <1>2, <1>3, <1>4 DEF IndInv, OneIssuer
<1> QED BY <1>5, <1>6, <1>7, <1>8, <1>9, <1>10, <1>11, <1>12, <1>13 DEF IndInv

\* An /attest on an attested session is answered with the token of the session.
LEMMA AttestAgainStep ==
  ASSUME IndInv, NEW r \in AttReqs, AttestAgain(r)
  PROVE  IndInv'
<1>1. /\ att[r].cookie \in AuthReqs
      /\ sessions[att[r].cookie].token \in Token
  BY SessionFields DEF IndInv, AttestProgress, AttestAgain, AtLookup
<1>2. /\ att'[r].pc = "token" /\ att'[r].cookie = att[r].cookie
      /\ att'[r].token = sessions[att[r].cookie].token
      /\ \A q \in AttReqs \ {r} : att'[q] = att[q]
  BY DEF IndInv, TypeOK, AttState, AttestAgain
<1>3. \A q \in AttReqs : att[q].pc = "token" => att'[q] = att[q]
  BY <1>2 DEF AttestAgain, AtLookup
<1>4. /\ att[r].pc = "lookup" /\ sessions[att[r].cookie].status = "Attested"
      /\ UNCHANGED <<clock, sessions, guard, sweep, auth, get>>
  BY DEF IndInv, AttestAgain, AtLookup
<1>5. TypeOK'
  <2>1. att' \in [AttReqs -> AttState]
    BY AttestFields, <1>1 DEF IndInv, TypeOK, AttestAgain
  <2> QED BY <2>1, IncTyped DEF IndInv, TypeOK, AttestAgain
<1>6. /\ AuthProgress'
      /\ NoncesDiffer'
      /\ SessionFromAuth'
      /\ GetProgress'
  BY DEF IndInv, AuthProgress, NoncesDiffer, SessionFromAuth, GetProgress,
      AttestAgain
<1>7. AttestProgress'
  BY <1>1, <1>2, <1>3, <1>4 DEF IndInv, AttestProgress
<1>8. GuardOwnedByVerifier'
  BY <1>1, <1>2, <1>3, <1>4 DEF IndInv, GuardOwnedByVerifier, TypeOK
<1>9. VerifyingSessionIsAuthed'
  BY <1>1, <1>2, <1>3, <1>4 DEF IndInv, VerifyingSessionIsAuthed
<1>10. SessionTokenIssued'
  BY <1>1, <1>2, <1>3, <1>4, SessionFields DEF IndInv, SessionTokenIssued,
      Token, Issued
<1>11. AnswerTokenIssued'
  <2>1. PICK s, k : s = att[r].cookie /\ k = sessions[s].token
    OBVIOUS
  <2>2. k \in Token /\ Issued(s, k)
    BY <1>1, <1>4, <2>1 DEF IndInv, SessionTokenIssued
  <2>3. att[k.req].pc = "token" /\ k.req \in AttReqs /\ att'[k.req] = att[k.req]
    BY <1>3, <2>2 DEF Issued, Token
  <2>4. Issued(s, k)'
    BY <1>4, <2>2, <2>3 DEF Issued
  <2>5. att'[r].token \in Token /\ Issued(att[r].cookie, att[r].token)'
    BY <1>2, <2>1, <2>2, <2>4 DEF Issued
  <2> QED BY <1>2, <1>3, <1>4, <2>5, AnswersStay DEF IndInv
<1>12. IssuedIsKept'
  BY <1>1, <1>2, <1>3, <1>4 DEF IndInv, IssuedIsKept, SessionTokenIssued,
      Issued
<1>13. OneIssuer'
  BY <1>1, <1>2, <1>3, <1>4 DEF IndInv, OneIssuer, SessionTokenIssued, Issued
<1> QED BY <1>5, <1>6, <1>7, <1>8, <1>9, <1>10, <1>11, <1>12, <1>13 DEF IndInv

\* An /attest has read the challenge of its session.
LEMMA AttestCheckedStep ==
  ASSUME IndInv, NEW r \in AttReqs, AttestChecked(r)
  PROVE  IndInv'
<1>1. /\ att[r].cookie \in AuthReqs
      /\ sessions[att[r].cookie].tee \in Tees
      /\ sessions[att[r].cookie].nonce \in Nonces
  BY SessionFields DEF IndInv, AttestProgress, AttestChecked, AtAuthed,
      AtLookup
<1>2. /\ att'[r].pc = "lock" /\ att'[r].cookie = att[r].cookie
      /\ att'[r].tee = sessions[att[r].cookie].tee
      /\ att'[r].nonce = sessions[att[r].cookie].nonce
      /\ \A q \in AttReqs \ {r} : att'[q] = att[q]
  BY DEF IndInv, TypeOK, AttState, AttestChecked
<1>3. \A q \in AttReqs : att[q].pc = "token" => att'[q] = att[q]
  BY <1>2 DEF AttestChecked, AtAuthed, AtLookup
<1>4. /\ att[r].pc = "lookup" /\ sessions[att[r].cookie].status = "Authed"
      /\ UNCHANGED <<clock, sessions, guard, sweep, auth, get>>
  BY DEF IndInv, AttestChecked, AtAuthed, AtLookup
<1>5. TypeOK'
  <2>1. att' \in [AttReqs -> AttState]
    BY AttestFields, <1>1 DEF IndInv, TypeOK, AttestChecked
  <2> QED BY <2>1, IncTyped DEF IndInv, TypeOK, AttestChecked
<1>6. /\ AuthProgress'
      /\ NoncesDiffer'
      /\ SessionFromAuth'
      /\ GetProgress'
  BY DEF IndInv, AuthProgress, NoncesDiffer, SessionFromAuth, GetProgress,
      AttestChecked
<1>7. AttestProgress'
  BY <1>1, <1>2, <1>3, <1>4 DEF IndInv, AttestProgress, SessionFromAuth
<1>8. GuardOwnedByVerifier'
  BY <1>1, <1>2, <1>3, <1>4 DEF IndInv, GuardOwnedByVerifier, TypeOK
<1>9. VerifyingSessionIsAuthed'
  BY <1>1, <1>2, <1>3, <1>4 DEF IndInv, VerifyingSessionIsAuthed
<1>10. SessionTokenIssued'
  BY <1>1, <1>2, <1>3, <1>4, SessionFields DEF IndInv, SessionTokenIssued,
      Token, Issued
<1>11. AnswerTokenIssued'
  BY <1>2, <1>3, <1>4, AnswersStay DEF IndInv
<1>12. IssuedIsKept'
  BY <1>1, <1>2, <1>3, <1>4 DEF IndInv, IssuedIsKept
<1>13. OneIssuer'
  BY <1>1, <1>2, <1>3, <1>4 DEF IndInv, OneIssuer
<1> QED BY <1>5, <1>6, <1>7, <1>8, <1>9, <1>10, <1>11, <1>12, <1>13 DEF IndInv

\* An /attest locks the bucket of its session for the verification.
LEMMA AttestLockStep ==
  ASSUME IndInv, NEW r \in AttReqs, AttestLock(r)
  PROVE  IndInv'
<1>1. att[r].cookie \in AuthReqs /\ BucketOf[att[r].cookie] \in Buckets
  BY RequestAssumption DEF IndInv, AttestProgress, AttestLock, AtLock
<1>2. /\ att'[r].pc = "verify" /\ att'[r].cookie = att[r].cookie
      /\ att'[r].tee = att[r].tee /\ att'[r].nonce = att[r].nonce
      /\ \A q \in AttReqs \ {r} : att'[q] = att[q]
  BY DEF IndInv, TypeOK, AttState, AttestLock
<1>3. \A q \in AttReqs : att[q].pc = "token" => att'[q] = att[q]
  BY <1>2 DEF AttestLock, AtLock
<1>4. /\ att[r].pc = "lock" /\ sessions[att[r].cookie].status = "Authed"
      /\ UNCHANGED <<clock, sessions, sweep, auth, get>>
  BY DEF IndInv, AttestLock, AtLock, has_request
<1>5. /\ guard[BucketOf[att[r].cookie]] = None
      /\ guard'[BucketOf[att[r].cookie]] = r
      /\ \A b \in Buckets \ {BucketOf[att[r].cookie]} : guard'[b] = guard[b]
  BY <1>1 DEF IndInv, TypeOK, AttestLock, AtLock, Unlocked
<1>6. TypeOK'
  <2>1. att' \in [AttReqs -> AttState]
    BY AttestFields DEF IndInv, TypeOK, AttPc, AttestLock
  <2>2. guard' \in [Buckets -> AttReqs \cup {None}]
    BY <1>1 DEF IndInv, TypeOK, AttestLock
  <2> QED BY <2>1, <2>2 DEF IndInv, TypeOK, AttestLock
<1>7. /\ AuthProgress'
      /\ NoncesDiffer'
      /\ SessionFromAuth'
      /\ GetProgress'
  BY DEF IndInv, AuthProgress, NoncesDiffer, SessionFromAuth, GetProgress,
      AttestLock
<1>8. AttestProgress'
  BY <1>1, <1>2, <1>3, <1>4, <1>5 DEF IndInv, AttestProgress
<1>9. GuardOwnedByVerifier'
  BY <1>1, <1>2, <1>3, <1>4, <1>5, NoneAssumption, RequestAssumption DEF
      IndInv, GuardOwnedByVerifier, TypeOK, AttestProgress, Reqs
<1>10. VerifyingSessionIsAuthed'
  BY <1>1, <1>2, <1>3, <1>4, <1>5 DEF IndInv, VerifyingSessionIsAuthed,
      AttestProgress, SessionFromAuth
<1>11. SessionTokenIssued'
  BY <1>1, <1>2, <1>3, <1>4, <1>5, SessionFields DEF IndInv,
      SessionTokenIssued, Token, Issued
<1>12. AnswerTokenIssued'
  BY <1>1, <1>2, <1>3, <1>4, <1>5 DEF IndInv, AnswerTokenIssued, Token,
      Issued
<1>13. IssuedIsKept'
  BY <1>1, <1>2, <1>3, <1>4, <1>5 DEF IndInv, IssuedIsKept
<1>14. OneIssuer'
  BY <1>1, <1>2, <1>3, <1>4, <1>5 DEF IndInv, OneIssuer
<1> QED BY <1>6, <1>7, <1>8, <1>9, <1>10, <1>11, <1>12, <1>13, <1>14 DEF IndInv

\* A verification succeeds.
LEMMA VerifyOkStep ==
  ASSUME IndInv, NEW r \in AttReqs, VerifyOk(r)
  PROVE  IndInv'
<1>1. /\ att[r].pc = "verify" /\ att[r].cookie \in AuthReqs
      /\ att[r].evNonce = att[r].nonce
      /\ att[r].nonce = auth[att[r].cookie].nonce
      /\ att[r].tee = auth[att[r].cookie].tee
      /\ att[r].nonce \in Nonces /\ att[r].tee \in Tees
      /\ sessions[att[r].cookie].status = "Authed"
  BY DEF IndInv, AuthProgress, AttestProgress, VerifyingSessionIsAuthed,
      VerifyOk
<1>2. [req |-> r, nonce |-> att[r].nonce, tee |-> att[r].tee] \in Token
  BY <1>1 DEF Token
<1> SUFFICES ASSUME NEW s \in AuthReqs, s = att[r].cookie, NEW k \in Token,
                    k = [req |-> r, nonce |-> att[r].nonce, tee |-> att[r].tee]
             PROVE  IndInv'
  BY <1>1, <1>2
<1>3. \A q \in AttReqs \ {r} : att'[q] = att[q]
  BY DEF IndInv, TypeOK, VerifyOk
<1>4. /\ att'[r].pc = "token" /\ att'[r].token = k /\ att'[r].cookie = s
      /\ att'[r].evNonce = att[r].evNonce
  BY DEF IndInv, TypeOK, AttState, VerifyOk
<1>5. /\ sessions'[s] = [status |-> "Attested", token |-> k,
                         timeout |-> sessions[s].timeout]
      /\ \A q \in AuthReqs \ {s} : sessions'[q] = sessions[q]
  BY <1>1 DEF IndInv, TypeOK, VerifyOk, AttestStatus
<1>6. /\ auth' = auth /\ get' = get
      /\ \A b \in Buckets : guard'[b] = IF guard[b] = r THEN None ELSE guard[b]
  BY DEF VerifyOk, ReleaseOf
\* No other verification runs on this session: its bucket is locked by r.
<1>7. \A q \in AttReqs \ {r} : att[q].pc = "verify" => att[q].cookie # s
  BY <1>1 DEF IndInv, GuardOwnedByVerifier
<1>8. \A q \in AttReqs : att[q].pc = "token" => att'[q] = att[q]
  BY <1>1, <1>3
<1>9. Issued(s, k)'
  BY <1>1, <1>4, <1>6 DEF Issued
<1>10. TypeOK'
  <2>1. att' \in [AttReqs -> AttState]
    BY AttestFields DEF IndInv, TypeOK, VerifyOk
  <2>2. guard' \in [Buckets -> AttReqs \cup {None}]
    BY DEF IndInv, TypeOK, ReleaseOf, VerifyOk
  <2>3. sessions'[s] \in Attested
    BY <1>1, <1>5, SessionFields DEF IndInv, Attested
  <2>4. sessions' \in [AuthReqs -> Authed \cup Attested \cup {Absent}]
    BY <1>5, <2>3 DEF IndInv, TypeOK, VerifyOk
  <2> QED BY <2>1, <2>2, <2>4, IncTyped DEF IndInv, TypeOK, VerifyOk
<1>11. /\ AuthProgress'
       /\ NoncesDiffer'
       /\ GetProgress'
  BY <1>6 DEF IndInv, AuthProgress, NoncesDiffer, GetProgress
<1>12. SessionFromAuth'
  BY <1>1, <1>5, <1>6 DEF IndInv, SessionFromAuth
<1>13. AttestProgress'
  BY <1>1, <1>3, <1>4, <1>6 DEF IndInv, AttestProgress
<1>14. GuardOwnedByVerifier'
  <2>1. \A b \in Buckets : guard'[b] # None =>
          guard'[b] \in AttReqs \ {r} /\ guard'[b] = guard[b]
    BY <1>6 DEF IndInv, TypeOK
  <2>2. ASSUME NEW b \in Buckets, guard'[b] # None
        PROVE  att'[guard'[b]].pc = "verify" /\ BucketOf[att'[guard'[b]].cookie] = b
    BY <1>3, <2>1, <2>2 DEF IndInv, GuardOwnedByVerifier
  <2>3. ASSUME NEW q \in AttReqs, att'[q].pc = "verify"
        PROVE  guard'[BucketOf[att'[q].cookie]] = q
    <3>1. q # r /\ att'[q] = att[q]
      BY <1>3, <1>4, <2>3
    <3>2. BucketOf[att[q].cookie] \in Buckets
      BY <2>3, <3>1, RequestAssumption DEF IndInv, AttestProgress
    <3> QED BY <1>6, <2>3, <3>1, <3>2 DEF IndInv, GuardOwnedByVerifier
  <2> QED BY <2>2, <2>3 DEF GuardOwnedByVerifier
<1>15. VerifyingSessionIsAuthed'
  BY <1>3, <1>4, <1>5, <1>7 DEF IndInv, VerifyingSessionIsAuthed, AttestProgress
<1>16. SessionTokenIssued'
  BY <1>1, <1>4, <1>5, <1>6, <1>8, SessionFields, SMTT(30)
      DEF IndInv, SessionTokenIssued, Issued, Token
<1>17. AnswerTokenIssued'
  <2>1. att'[r].token \in Token /\ Issued(att[r].cookie, att[r].token)'
    BY <1>4, <1>9 DEF Issued
  <2> QED BY <1>3, <1>6, <1>8, <2>1, AnswersStay DEF IndInv
<1>18. IssuedIsKept'
  BY <1>1, <1>3, <1>4, <1>5 DEF IndInv, IssuedIsKept, AttestProgress
<1>19. OneIssuer'
  BY <1>1, <1>3, <1>4 DEF IndInv, OneIssuer, IssuedIsKept
<1> QED BY <1>10, <1>11, <1>12, <1>13, <1>14, <1>15, <1>16, <1>17, <1>18, <1>19
    DEF IndInv

\* A token lookup is received.
LEMMA GetStartStep ==
  ASSUME IndInv, NEW r \in GetReqs, NEW s \in KnownIds, GetStart(r, s)
  PROVE  IndInv'
<1>1. /\ get'[r] = [get[r] EXCEPT !.pc = "lookup", !.cookie = s]
      /\ \A q \in GetReqs \ {r} : get'[q] = get[q]
  BY DEF IndInv, TypeOK, GetStart
<1>2. TypeOK'
  BY DEF IndInv, TypeOK, GetState, GetPc, KnownIds, GetStart
<1>3. /\ AuthProgress'
      /\ NoncesDiffer'
      /\ SessionFromAuth'
      /\ AttestProgress'
      /\ GuardOwnedByVerifier'
      /\ VerifyingSessionIsAuthed'
      /\ SessionTokenIssued'
      /\ IssuedIsKept'
      /\ OneIssuer'
  BY DEF IndInv, AuthProgress, NoncesDiffer, SessionFromAuth, AttestProgress,
      GuardOwnedByVerifier, VerifyingSessionIsAuthed, SessionTokenIssued,
      IssuedIsKept, OneIssuer, GetStart, Issued
<1>4. GetProgress'
  BY <1>1 DEF IndInv, GetProgress, TypeOK, GetState, KnownIds, GetStart
<1>5. AnswerTokenIssued'
  <2>1. get'[r].pc = "lookup"
    BY <1>1 DEF IndInv, TypeOK, GetState
  <2>2. \A q \in GetReqs : get'[q].pc = "token" => get'[q] = get[q]
    BY <1>1, <2>1
  <2>3. UNCHANGED <<att, auth>>
    BY DEF GetStart
  <2> QED BY <2>2, <2>3 DEF IndInv, AnswerTokenIssued, Issued
<1> QED BY <1>2, <1>3, <1>4, <1>5 DEF IndInv

\* A token lookup finds an attested session.
LEMMA GetTokenStep ==
  ASSUME IndInv, NEW r \in GetReqs, GetToken(r)
  PROVE  IndInv'
<1>1. /\ get[r].cookie \in AuthReqs
      /\ sessions[get[r].cookie].token \in Token
  BY SessionFields DEF IndInv, GetProgress, GetToken
<1>2. /\ get'[r].pc = "token" /\ get'[r].cookie = get[r].cookie
      /\ get'[r].token = sessions[get[r].cookie].token
      /\ \A q \in GetReqs \ {r} : get'[q] = get[q]
  BY DEF IndInv, TypeOK, GetState, GetToken
<1>3. /\ get[r].pc = "lookup" /\ sessions[get[r].cookie].status = "Attested"
      /\ UNCHANGED <<clock, sessions, guard, sweep, auth, att>>
  BY DEF IndInv, GetToken
<1>4. TypeOK'
  BY <1>1 DEF IndInv, TypeOK, GetState, GetPc, GetToken
<1>5. /\ AuthProgress'
      /\ NoncesDiffer'
      /\ SessionFromAuth'
      /\ AttestProgress'
      /\ GuardOwnedByVerifier'
      /\ VerifyingSessionIsAuthed'
      /\ SessionTokenIssued'
      /\ IssuedIsKept'
      /\ OneIssuer'
  BY DEF IndInv, AuthProgress, NoncesDiffer, SessionFromAuth, AttestProgress,
      GuardOwnedByVerifier, VerifyingSessionIsAuthed, SessionTokenIssued,
      IssuedIsKept, OneIssuer, GetToken, Issued
<1>6. GetProgress'
  BY <1>1, <1>2, <1>3 DEF IndInv, GetProgress
<1>7. AnswerTokenIssued'
  BY <1>1, <1>2, <1>3 DEF IndInv, AnswerTokenIssued, SessionTokenIssued,
      Issued
<1> QED BY <1>4, <1>5, <1>6, <1>7 DEF IndInv

\* A token lookup finds no attested session.
LEMMA GetDeniedStep ==
  ASSUME IndInv, NEW r \in GetReqs, GetDenied(r)
  PROVE  IndInv'
<1>1. /\ get'[r] = [get[r] EXCEPT !.pc = "denied"]
      /\ \A q \in GetReqs \ {r} : get'[q] = get[q]
  BY DEF IndInv, TypeOK, GetDenied
<1>2. TypeOK'
  BY DEF IndInv, TypeOK, GetState, GetPc, GetDenied
<1>3. /\ AuthProgress'
      /\ NoncesDiffer'
      /\ SessionFromAuth'
      /\ AttestProgress'
      /\ GuardOwnedByVerifier'
      /\ VerifyingSessionIsAuthed'
      /\ SessionTokenIssued'
      /\ IssuedIsKept'
      /\ OneIssuer'
  BY DEF IndInv, AuthProgress, NoncesDiffer, SessionFromAuth, AttestProgress,
      GuardOwnedByVerifier, VerifyingSessionIsAuthed, SessionTokenIssued,
      IssuedIsKept, OneIssuer, GetDenied, Issued
<1>4. GetProgress'
  BY <1>1 DEF IndInv, GetProgress, TypeOK, GetState, GetDenied
<1>5. AnswerTokenIssued'
  BY <1>1 DEF IndInv, AnswerTokenIssued, TypeOK, GetState, Issued, GetDenied
<1> QED BY <1>2, <1>3, <1>4, <1>5 DEF IndInv

\* The purge task visits a bucket.
LEMMA PurgeBucketStep ==
  ASSUME IndInv, NEW b \in Buckets, PurgeBucket(b)
  PROVE  IndInv'
<1>1. \A s \in AuthReqs :
        /\ sessions'[s] \in {sessions[s], Absent}
        /\ guard[BucketOf[s]] # None => sessions'[s] = sessions[s]
  BY DEF PurgeBucket, Unlocked
<1>2. TypeOK'
  BY DEF IndInv, TypeOK, PurgeBucket
<1>3. /\ AuthProgress'
      /\ NoncesDiffer'
      /\ AttestProgress'
      /\ GetProgress'
      /\ GuardOwnedByVerifier'
      /\ AnswerTokenIssued'
      /\ OneIssuer'
  BY DEF IndInv, AuthProgress, NoncesDiffer, AttestProgress, GetProgress,
      GuardOwnedByVerifier, AnswerTokenIssued, OneIssuer, PurgeBucket, Issued
<1>4. SessionFromAuth'
  BY <1>1 DEF IndInv, SessionFromAuth, Absent, PurgeBucket
<1>5. VerifyingSessionIsAuthed'
  BY <1>1, NoneAssumption DEF IndInv, VerifyingSessionIsAuthed,
      AttestProgress, GuardOwnedByVerifier, Reqs, PurgeBucket
<1>6. SessionTokenIssued'
  BY <1>1 DEF IndInv, SessionTokenIssued, Absent, Issued, PurgeBucket
<1>7. IssuedIsKept'
  BY <1>1 DEF IndInv, IssuedIsKept, AttestProgress, Absent, PurgeBucket
<1> QED BY <1>2, <1>3, <1>4, <1>5, <1>6, <1>7 DEF IndInv

\* Time passes, or a purge pass starts.
LEMMA ClockStep ==
  ASSUME IndInv, PurgeWake \/ Tick \/ UNCHANGED vars
  PROVE  IndInv'
<1>1. TypeOK'
  BY DEF IndInv, TypeOK, PurgeWake, Tick, vars
<1>2. UNCHANGED <<sessions, guard, auth, att, get>>
  BY DEF PurgeWake, Tick, vars
<1> QED
  BY <1>1, <1>2 DEF IndInv, AuthProgress, NoncesDiffer, SessionFromAuth,
      AttestProgress, GetProgress, GuardOwnedByVerifier,
      VerifyingSessionIsAuthed, SessionTokenIssued, AnswerTokenIssued, Issued,
      IssuedIsKept, OneIssuer

-----------------------------------------------------------------------------
(* The invariant is inductive *)

\* It holds before any request.
LEMMA InitInv == Init => IndInv
<1> SUFFICES ASSUME Init PROVE IndInv
  OBVIOUS
<1>1. TypeOK
  BY DEF Init, TypeOK, Absent, AuthState, AuthPc, AttState, AttPc, GetState,
      GetPc
<1> QED
  BY <1>1, NoneAssumption DEF Init, IndInv, Absent, AuthProgress, NoncesDiffer,
      SessionFromAuth, AttestProgress, GetProgress, GuardOwnedByVerifier,
      VerifyingSessionIsAuthed, SessionTokenIssued, AnswerTokenIssued,
      IssuedIsKept, OneIssuer

\* Only a request in verify holds an entry: for the others dropping the entry
\* changes nothing.
LEMMA NothingToRelease ==
  ASSUME IndInv, NEW r \in AttReqs, att[r].pc # "verify", UNCHANGED guard
  PROVE  ReleaseOf(r)
<1>1. \A b \in Buckets : guard[b] # r
  BY NoneAssumption DEF IndInv, GuardOwnedByVerifier, Reqs
<1> QED BY <1>1 DEF IndInv, TypeOK, ReleaseOf

\* Every step of an /auth preserves it.
LEMMA AuthInv ==
  ASSUME IndInv, NEW r \in AuthReqs, AuthStep(r)
  PROVE  IndInv'
<1>1. CASE AuthReject(r)
  BY <1>1, AuthEndsStep, IncTyped DEF IndInv, AuthReject
<1>2. CASE \E tee \in Tees : AuthStart(r, tee)
  BY <1>2, AuthStartStep
<1>3. CASE AuthChallengeFails(r)
  BY <1>3, AuthEndsStep, IncTyped DEF IndInv, AuthChallengeFails
<1>4. CASE \E n \in Nonces : AuthChallenge(r, n)
  BY <1>4, AuthChallengeStep
<1>5. CASE AuthInsert(r)
  BY <1>5, AuthInsertStep
<1>6. CASE AuthDrop(r)
  BY <1>6, AuthEndsStep DEF IndInv, TypeOK, AuthDrop
<1> QED BY <1>1, <1>2, <1>3, <1>4, <1>5, <1>6 DEF AuthStep

\* An /attest that fails without having locked its session.
LEMMA FailsInv ==
  ASSUME IndInv, NEW r \in AttReqs, NEW C, Fails(r, C),
         att[r].pc \in {"lookup", "lock"}
  PROVE  IndInv'
<1>1. ReleaseOf(r)
  BY NothingToRelease DEF Fails
<1>2. metrics' \in [Counter -> Nat]
  BY IncTyped DEF IndInv, Fails
<1> QED BY <1>1, <1>2, AttestEndsStep DEF Fails

\* Every step of an /attest preserves it.
LEMMA AttestInv ==
  ASSUME IndInv, NEW r \in AttReqs, AttestStep(r)
  PROVE  IndInv'
<1>1. CASE AttestReject(r)
  <2>1. ReleaseOf(r)
    BY <1>1, NothingToRelease DEF AttestReject
  <2>2. metrics' \in [Counter -> Nat]
    BY <1>1, IncTyped DEF IndInv, AttestReject
  <2> QED BY <1>1, <2>1, <2>2, AttestEndsStep DEF AttestReject
<1>2. CASE \E s \in KnownIds, rt, ev \in KnownNonces, ok \in BOOLEAN :
             AttestStart(r, s, rt, ev, ok)
  BY <1>2, AttestStartStep
<1>3. CASE LookupStep(r)
  <2>1. CASE AttestNoSession(r)
    BY <2>1, FailsInv DEF AttestNoSession, AtLookup
  <2>2. CASE AttestExpired(r)
    BY <2>2, FailsInv DEF AttestExpired, AtLookup
  <2>3. CASE AttestAgain(r)
    BY <2>3, AttestAgainStep
  <2>4. CASE AttestWrongNonce(r)
    BY <2>4, FailsInv DEF AttestWrongNonce, AtAuthed, AtLookup
  <2>5. CASE AttestBadExtra(r)
    BY <2>5, FailsInv DEF AttestBadExtra, AtAuthed, AtLookup
  <2>6. CASE AttestChecked(r)
    BY <2>6, AttestCheckedStep
  <2> QED BY <1>3, <2>1, <2>2, <2>3, <2>4, <2>5, <2>6 DEF LookupStep
<1>4. CASE LockStep(r)
  <2>1. CASE AttestGone(r)
    BY <2>1, FailsInv DEF AttestGone, AtLock
  <2>2. CASE AttestPanic(r)
    <3>1. ReleaseOf(r)
      BY <2>2, NothingToRelease DEF AttestPanic, AtLock
    <3> QED BY <2>2, <3>1, AttestEndsStep DEF IndInv, TypeOK, AttestPanic, AtLock
  <2>3. CASE AttestLock(r)
    BY <2>3, AttestLockStep
  <2> QED BY <1>4, <2>1, <2>2, <2>3 DEF LockStep
<1>5. CASE VerifyFails(r)
  BY <1>5, AttestEndsStep, IncTyped DEF IndInv, VerifyFails
<1>6. CASE VerifyOk(r)
  BY <1>6, VerifyOkStep
<1>7. CASE AttestDrop(r)
  BY <1>7, AttestEndsStep DEF IndInv, TypeOK, AttestDrop
<1> QED BY <1>1, <1>2, <1>3, <1>4, <1>5, <1>6, <1>7 DEF AttestStep, VerifyStep

\* Every step preserves it.
LEMMA NextInv == IndInv /\ [Next]_vars => IndInv'
<1> SUFFICES ASSUME IndInv, [Next]_vars PROVE IndInv'
  OBVIOUS
<1>1. CASE \E r \in AuthReqs : AuthStep(r)
  BY <1>1, AuthInv
<1>2. CASE \E r \in AttReqs : AttestStep(r)
  BY <1>2, AttestInv
<1>3. ASSUME NEW r \in GetReqs, GetStep(r) PROVE IndInv'
  <2>1. CASE \E s \in KnownIds : GetStart(r, s)
    BY <2>1, GetStartStep
  <2> QED BY <1>3, <2>1, GetTokenStep, GetDeniedStep DEF GetStep
<1>4. CASE PurgeStep
  BY <1>4, PurgeBucketStep, ClockStep DEF PurgeStep
<1>5. CASE Tick \/ UNCHANGED vars
  BY <1>5, ClockStep
<1> QED BY <1>1, <1>2, <1>3, <1>4, <1>5 DEF Next

\* The invariant holds in every reachable state.
THEOREM Invariance == Spec => []IndInv
  BY InitInv, NextInv, PTL DEF Spec

-----------------------------------------------------------------------------
(* What follows from it *)

\* Every reachable state is well typed, for every instance.
THEOREM TypeCorrect == Spec => []TypeOK
<1>1. IndInv => TypeOK
  BY DEF IndInv
<1> QED BY <1>1, Invariance, PTL

\* The entry lock of __attest is never leaked and never shared.
THEOREM GuardsAreOwned == Spec => []GuardOwnedByVerifier
<1>1. IndInv => GuardOwnedByVerifier
  BY DEF IndInv
<1> QED BY <1>1, Invariance, PTL

\* verify always runs on a session that is still Authed with the TEE and the
\* nonce that were read before the await.
THEOREM VerifyingIsAuthed == Spec => []VerifyingSessionIsAuthed
<1>1. IndInv => VerifyingSessionIsAuthed
  BY DEF IndInv
<1> QED BY <1>1, Invariance, PTL

\* The token of a session is bound to the challenge of that session.
THEOREM TokensAreBound == Spec => []TokenBoundToSession
<1>1. IndInv => TokenBoundToSession
  BY DEF IndInv, SessionTokenIssued, Issued, TokenBoundToSession
<1> QED BY <1>1, Invariance, PTL

\* All answers given under one cookie carry the same token.
THEOREM OneToken == Spec => []OneTokenPerSession
<1>1. IndInv => OneTokenPerSession
  <2> SUFFICES ASSUME IndInv PROVE OneTokenPerSession
    OBVIOUS
  <2>1. ASSUME NEW c \in AuthReqs, NEW k \in Token, NEW l \in Token,
               Issued(c, k), Issued(c, l)
        PROVE  k = l
    BY <2>1 DEF IndInv, OneIssuer, Issued, Token
  <2>2. \A r \in AttReqs : att[r].pc = "token" =>
          /\ att[r].cookie \in AuthReqs /\ att[r].token \in Token
          /\ Issued(att[r].cookie, att[r].token)
    BY DEF IndInv, AttestProgress, AnswerTokenIssued
  <2>3. \A r \in GetReqs : get[r].pc = "token" =>
          /\ get[r].cookie \in AuthReqs /\ get[r].token \in Token
          /\ Issued(get[r].cookie, get[r].token)
    BY DEF IndInv, GetProgress, AnswerTokenIssued
  <2> QED BY <2>1, <2>2, <2>3 DEF OneTokenPerSession
<1> QED BY <1>1, Invariance, PTL

-----------------------------------------------------------------------------
(* What a step may do to a session *)

\* Everything but insert, a successful verify and the purge leaves the map.
LEMMA MapChanges ==
    ASSUME [Next]_vars
    PROVE  \/ UNCHANGED sessions
           \/ \E r \in AuthReqs : AuthInsert(r)
           \/ \E r \in AttReqs : VerifyOk(r)
           \/ \E b \in Buckets : PurgeBucket(b)
<1>1. ASSUME NEW r \in AuthReqs, AuthStep(r)
      PROVE  UNCHANGED sessions \/ AuthInsert(r)
  BY <1>1 DEF AuthStep, AuthReject, AuthStart, AuthChallengeFails,
              AuthChallenge, AuthDrop
<1>2. ASSUME NEW r \in AttReqs, AttestStep(r)
      PROVE  UNCHANGED sessions \/ VerifyOk(r)
  <2>1. CASE LookupStep(r)
    BY <2>1 DEF LookupStep, AttestNoSession, AttestExpired, AttestAgain,
                AttestWrongNonce, AttestBadExtra, AttestChecked, Fails
  <2>2. CASE LockStep(r)
    BY <2>2 DEF LockStep, AttestGone, AttestPanic, AttestLock, Fails
  <2>3. CASE VerifyStep(r)
    BY <2>3 DEF VerifyStep, VerifyFails
  <2> QED BY <1>2, <2>1, <2>2, <2>3
          DEF AttestStep, AttestReject, AttestStart, AttestDrop
<1>3. ASSUME NEW r \in GetReqs, GetStep(r) PROVE UNCHANGED sessions
  BY <1>3 DEF GetStep, GetStart, GetToken, GetDenied
<1> QED BY <1>1, <1>2, <1>3 DEF Next, PurgeStep, PurgeWake, Tick, vars

\* A session in the map never returns to Authed, never changes its token or
\* its deadline, and leaves the map only after its deadline.
THEOREM SessionsAdvance == Spec => SessionsOnlyAdvance
<1>1. ASSUME IndInv, [Next]_vars, NEW s \in AuthReqs PROVE SessionStep(s)
  <2>0. sessions \in [AuthReqs -> Authed \cup Attested \cup {Absent}]
    BY <1>1 DEF IndInv, TypeOK
  <2>1. CASE UNCHANGED sessions
    BY <2>1 DEF SessionStep
  <2>2. ASSUME NEW r \in AuthReqs, AuthInsert(r) PROVE SessionStep(s)
    <3>1. CASE s = r
      \* No session is there yet: one that is was put there by an ended /auth.
      BY <1>1, <2>2, <3>1 DEF IndInv, SessionFromAuth, AuthInsert, SessionStep
    <3>2. CASE s # r
      BY <2>0, <2>2, <3>2 DEF AuthInsert, SessionStep
    <3> QED BY <3>1, <3>2
  <2>3. ASSUME NEW r \in AttReqs, VerifyOk(r) PROVE SessionStep(s)
    <3>1. CASE s = att[r].cookie
      <4>1. sessions'[s] = AttestStatus(sessions[s],
                [req |-> r, nonce |-> att[r].nonce, tee |-> att[r].tee])
        BY <2>0, <2>3, <3>1 DEF VerifyOk
      <4> QED BY <4>1 DEF AttestStatus, SessionStep
    <3>2. CASE s # att[r].cookie
      BY <2>0, <2>3, <3>2 DEF VerifyOk, SessionStep
    <3> QED BY <3>1, <3>2
  <2>4. ASSUME NEW b \in Buckets, PurgeBucket(b) PROVE SessionStep(s)
    BY <2>4 DEF PurgeBucket, is_expired, Absent, SessionStep
  <2> QED BY <1>1, <2>1, <2>2, <2>3, <2>4, MapChanges
<1>2. IndInv /\ [Next]_vars => [\A s \in AuthReqs : SessionStep(s)]_vars
  BY <1>1
<1> QED BY <1>2, Invariance, PTL DEF Spec, SessionsOnlyAdvance


-----------------------------------------------------------------------------
(* The broker implements the abstract handshake *)

\* Token k was issued for session s.
IssuedFor(s, k) ==
    att[k.req].pc = "token" /\ att[k.req].cookie = s /\ att[k.req].token = k

\* What was answered under a cookie is what was issued for it: an answer with
\* the token of an attested session repeats that of its issuer.
LEMMA AnswersAreIssued ==
    IndInv => AbsAnswers = [s \in AuthReqs |-> {k \in Token : IssuedFor(s, k)}]
<1> SUFFICES ASSUME IndInv, NEW s \in AuthReqs, NEW k \in Token
             PROVE  (k \in AbsAnswers[s]) <=> IssuedFor(s, k)
  BY DEF AbsAnswers
<1>1. k.req \in AttReqs
  BY DEF Token
<1>2. ASSUME NEW r \in AttReqs, att[r].pc = "token", att[r].cookie = s,
             att[r].token = k
      PROVE  IssuedFor(s, k)
  BY <1>2 DEF IndInv, AnswerTokenIssued, Issued, IssuedFor
<1>3. ASSUME NEW r \in GetReqs, get[r].pc = "token", get[r].cookie = s,
             get[r].token = k
      PROVE  IssuedFor(s, k)
  BY <1>3 DEF IndInv, AnswerTokenIssued, Issued, IssuedFor
<1> QED BY <1>1, <1>2, <1>3 DEF AbsAnswers, IssuedFor

\* The same in the next state.
LEMMA AnswersAreIssuedNext ==
    IndInv' => (AbsAnswers = [s \in AuthReqs |-> {k \in Token : IssuedFor(s, k)}])'
BY AnswersAreIssued, PTL

\* A request that gets a token from no verification of its own issues nothing.
LEMMA AnswersSame ==
  ASSUME IndInv, IndInv',
         \A r \in AttReqs :
            \/ att'[r] = att[r]
            \/ att[r].pc # "token" /\ (att'[r].pc # "token" \/ att'[r].token.req # r)
  PROVE  UNCHANGED AbsAnswers
<1>1. ASSUME NEW s \in AuthReqs, NEW k \in Token
      PROVE  IssuedFor(s, k)' <=> IssuedFor(s, k)
  <2>1. k.req \in AttReqs
    BY DEF Token
  <2> QED BY <2>1 DEF IssuedFor
<1> QED BY <1>1, AnswersAreIssued, AnswersAreIssuedNext

\* The phase of a session.
LEMMA PhaseIs ==
    IndInv => \A s \in AuthReqs :
        /\ auth[s].pc # "done" => AbsPhase[s] = "none"
        /\ auth[s].pc = "done" /\ sessions[s].status = "Authed" =>
              AbsPhase[s] = "challenged"
        /\ auth[s].pc = "done" /\ sessions[s].status = "Attested" =>
              AbsPhase[s] = "attested"
        /\ auth[s].pc = "done" /\ sessions[s].status = "absent" =>
              AbsPhase[s] = "closed"
BY DEF AbsPhase, PhaseOf

\* The same in the next state.
LEMMA PhaseIsNext ==
    IndInv' => \A s \in AuthReqs :
        /\ auth'[s].pc # "done" => AbsPhase'[s] = "none"
        /\ auth'[s].pc = "done" /\ sessions'[s].status = "Authed" =>
              AbsPhase'[s] = "challenged"
        /\ auth'[s].pc = "done" /\ sessions'[s].status = "Attested" =>
              AbsPhase'[s] = "attested"
        /\ auth'[s].pc = "done" /\ sessions'[s].status = "absent" =>
              AbsPhase'[s] = "closed"
BY DEF AbsPhase, PhaseOf

\* Neither phases nor challenges change where no session does.
LEMMA PhasesSame ==
  ASSUME IndInv, IndInv', NEW s \in AuthReqs, sessions'[s] = sessions[s],
         \/ auth'[s] = auth[s]
         \/ auth[s].pc # "done" /\ auth'[s].pc # "done"
  PROVE  AbsPhase'[s] = AbsPhase[s] /\ AbsChallenge'[s] = AbsChallenge[s]
<1>1. sessions[s].status \in {"Authed", "Attested", "absent"}
  BY SessionFields DEF IndInv
<1>2. AbsPhase'[s] = AbsPhase[s]
  BY <1>1, PhaseIs, PhaseIsNext
<1> QED BY <1>2 DEF AbsChallenge

\* The phases are a function of the sessions.
LEMMA PhasesAreMap ==
  /\ AbsPhase = [s \in AuthReqs |-> AbsPhase[s]]
  /\ AbsPhase' = [s \in AuthReqs |-> AbsPhase'[s]]
<1>1. AbsPhase = [s \in AuthReqs |-> AbsPhase[s]]
  BY DEF AbsPhase
<1>2. AbsPhase' = [s \in AuthReqs |-> AbsPhase'[s]]
  BY DEF AbsPhase
<1> QED BY <1>1, <1>2

\* SessionMap::insert opens a session with a challenge of its own.
LEMMA InsertOpens ==
  ASSUME IndInv, IndInv', NEW r \in AuthReqs, AuthInsert(r)
  PROVE  Rcar!Open(r)
<1>1. /\ sessions \in [AuthReqs -> Authed \cup Attested \cup {Absent}]
      /\ auth \in [AuthReqs -> AuthState]
  BY DEF IndInv, TypeOK
<1>2. /\ auth[r].pc = "insert" /\ auth'[r].pc = "done"
      /\ auth'[r].nonce = auth[r].nonce /\ sessions'[r].status = "Authed"
      /\ \A s \in AuthReqs \ {r} : auth'[s] = auth[s] /\ sessions'[s] = sessions[s]
  BY <1>1 DEF AuthInsert, AuthState
<1>3. AbsPhase[r] = "none" /\ AbsPhase'[r] = "challenged"
  BY <1>2, PhaseIs, PhaseIsNext
<1>4. \A s \in AuthReqs \ {r} :
         AbsPhase'[s] = AbsPhase[s] /\ AbsChallenge'[s] = AbsChallenge[s]
  BY <1>2, PhasesSame
<1>5. AbsPhase' = [AbsPhase EXCEPT ![r] = "challenged"]
  BY <1>3, <1>4, PhasesAreMap
<1>6. auth[r].nonce \in Nonces /\ AbsChallenge'[r] = auth[r].nonce
  BY <1>2 DEF IndInv, AuthProgress, AbsChallenge
<1>7. AbsChallenge' = [AbsChallenge EXCEPT ![r] = auth[r].nonce]
  BY <1>4, <1>6 DEF AbsChallenge
<1>8. ASSUME NEW q \in AuthReqs PROVE AbsChallenge[q] # auth[r].nonce
  <2>1. auth[q].pc = "done" => auth[q].nonce # auth[r].nonce
    BY <1>2, <1>6 DEF IndInv, NoncesDiffer
  <2> QED BY <1>6, <2>1, NoneAssumption DEF AbsChallenge
<1>9. UNCHANGED AbsAnswers
  BY AnswersSame DEF AuthInsert
<1> QED BY <1>3, <1>5, <1>6, <1>7, <1>8, <1>9 DEF Rcar!Open

\* A successful verify attests the session, and its token is the first one.
LEMMA VerifyAttests ==
  ASSUME IndInv, IndInv', NEW r \in AttReqs, VerifyOk(r)
  PROVE  Rcar!Attest(att[r].cookie)
<1>1. /\ sessions \in [AuthReqs -> Authed \cup Attested \cup {Absent}]
      /\ att \in [AttReqs -> AttState] /\ UNCHANGED auth
  BY DEF IndInv, TypeOK, VerifyOk
<1>2. PICK s \in AuthReqs : s = att[r].cookie /\ auth[s].pc = "done"
  BY DEF IndInv, AttestProgress, VerifyOk
<1>3. /\ sessions[s].status = "Authed" /\ att[r].pc = "verify"
      /\ sessions[s].tee = att[r].tee /\ sessions[s].nonce = att[r].nonce
      /\ att[r].nonce = auth[s].nonce
  BY <1>2 DEF IndInv, VerifyingSessionIsAuthed, VerifyOk, AttestProgress
<1>4. att[r].tee \in Tees /\ att[r].nonce \in Nonces
  BY <1>2, <1>3, SessionFields DEF IndInv
<1>5. PICK k \in Token :
         k = [req |-> r, nonce |-> att[r].nonce, tee |-> att[r].tee]
  BY <1>4 DEF Token
<1>6. k.req = r /\ k.nonce = auth[s].nonce
  BY <1>3, <1>5
<1>7. /\ sessions' = [sessions EXCEPT ![s] = AttestStatus(@, k)]
      /\ att' = [att EXCEPT ![r].pc = "token", ![r].token = k]
  BY <1>2, <1>5 DEF VerifyOk
<1>8. /\ sessions'[s].status = "Attested"
      /\ \A q \in AuthReqs \ {s} : sessions'[q] = sessions[q]
  <2>1. sessions'[s] = AttestStatus(sessions[s], k)
    BY <1>1, <1>7
  <2> QED BY <1>1, <1>3, <1>7, <2>1 DEF AttestStatus
<1>9. /\ att'[r].pc = "token" /\ att'[r].token = k /\ att'[r].cookie = s
      /\ \A q \in AttReqs \ {r} : att'[q] = att[q]
  BY <1>1, <1>2, <1>7 DEF AttState
<1>10. AbsPhase[s] = "challenged" /\ AbsPhase'[s] = "attested"
  BY <1>1, <1>2, <1>3, <1>8, PhaseIs, PhaseIsNext
<1>11. AbsPhase' = [AbsPhase EXCEPT ![s] = "attested"]
  <2>1. \A q \in AuthReqs \ {s} : AbsPhase'[q] = AbsPhase[q]
    BY <1>1, <1>8, PhasesSame
  <2> QED BY <1>10, <2>1, PhasesAreMap
<1>12. UNCHANGED AbsChallenge /\ AbsChallenge[s] = auth[s].nonce
  BY <1>1, <1>2 DEF AbsChallenge
<1>13. ASSUME NEW q \in AuthReqs, NEW j \in Token
       PROVE  IssuedFor(q, j)' <=> IF q = s THEN j = k ELSE IssuedFor(q, j)
  <2>1. j.req \in AttReqs
    BY DEF Token
  <2>2. CASE j.req = r
    <3>1. ~IssuedFor(q, j)
      BY <1>3, <2>2 DEF IssuedFor
    <3> QED BY <1>9, <2>2, <3>1 DEF IssuedFor
  <2>3. CASE j.req # r
    <3>1. IssuedFor(q, j)' <=> IssuedFor(q, j)
      BY <1>9, <2>1, <2>3 DEF IssuedFor
    <3>2. q = s => ~IssuedFor(q, j)'
      \* At most one verification succeeds for a session.
      <4>1. OneIssuer'
        BY DEF IndInv
      <4> QED BY <1>6, <1>9, <2>1, <2>3, <4>1 DEF OneIssuer, IssuedFor
    <3> QED BY <1>6, <2>3, <3>1, <3>2
  <2> QED BY <2>2, <2>3
<1>14. AbsAnswers' = [AbsAnswers EXCEPT ![s] = {k}]
  <2>1. AbsAnswers = [q \in AuthReqs |-> {j \in Token : IssuedFor(q, j)}]
    BY AnswersAreIssued
  <2>2. AbsAnswers' = [q \in AuthReqs |-> {j \in Token : IssuedFor(q, j)'}]
    BY AnswersAreIssuedNext
  <2>3. AbsAnswers'[s] = {k}
    BY <1>13, <2>2
  <2>4. \A q \in AuthReqs \ {s} : AbsAnswers'[q] = AbsAnswers[q]
    BY <1>13, <2>1, <2>2
  <2> QED BY <2>1, <2>2, <2>3, <2>4
<1> QED BY <1>2, <1>6, <1>10, <1>11, <1>12, <1>14 DEF Rcar!Attest

\* The purge of a bucket closes the sessions it drops.
LEMMA PurgeCloses ==
  ASSUME IndInv, IndInv', NEW b \in Buckets, PurgeBucket(b)
  PROVE  \E S \in SUBSET AuthReqs : Rcar!Close(S)
<1>1. PICK S \in SUBSET AuthReqs :
         S = {s \in AuthReqs : BucketOf[s] = b /\ sessions[s].status # "absent"
                                               /\ is_expired(s)}
  OBVIOUS
<1>2. /\ UNCHANGED <<auth, att, get>>
      /\ \A s \in AuthReqs : sessions'[s] = IF s \in S THEN Absent ELSE sessions[s]
  BY <1>1 DEF PurgeBucket
<1>3. ASSUME NEW s \in S
      PROVE  AbsPhase[s] \in {"challenged", "attested"} /\ AbsPhase'[s] = "closed"
  <2>1. /\ s \in AuthReqs /\ auth[s].pc = "done" /\ auth'[s].pc = "done"
        /\ sessions[s].status \in {"Authed", "Attested"}
    BY <1>1, <1>2, SessionFields DEF IndInv, SessionFromAuth
  <2>2. sessions'[s].status = "absent"
    BY <1>2, <2>1 DEF Absent
  <2> QED BY <2>1, <2>2, PhaseIs, PhaseIsNext
<1>4. ASSUME NEW s \in AuthReqs \ S PROVE AbsPhase'[s] = AbsPhase[s]
  BY <1>2, PhasesSame
<1>5. AbsPhase' = [s \in AuthReqs |-> IF s \in S THEN "closed" ELSE AbsPhase[s]]
  BY <1>3, <1>4, PhasesAreMap
<1>6. UNCHANGED AbsChallenge
  BY <1>2 DEF AbsChallenge
<1>7. UNCHANGED AbsAnswers
  BY <1>2, AnswersSame
<1> QED BY <1>3, <1>5, <1>6, <1>7 DEF Rcar!Close

\* Every other step of a handler, of the purge task and of time changes nothing
\* that the handshake is about.
LEMMA OthersStutter ==
  ASSUME IndInv, IndInv', [Next]_vars, UNCHANGED sessions,
         \A r \in AuthReqs : ~AuthInsert(r),
         \A r \in AttReqs : ~VerifyOk(r)
  PROVE  UNCHANGED Rcar!rvars
<1>1. /\ auth \in [AuthReqs -> AuthState] /\ att \in [AttReqs -> AttState]
      /\ sessions \in [AuthReqs -> Authed \cup Attested \cup {Absent}]
  BY DEF IndInv, TypeOK
<1>2. \A s \in AuthReqs : \/ auth'[s] = auth[s]
                          \/ auth[s].pc # "done" /\ auth'[s].pc # "done"
  <2>1. ASSUME NEW r \in AuthReqs, AuthStep(r)
        PROVE  /\ auth[r].pc # "done" /\ auth'[r].pc # "done"
               /\ \A s \in AuthReqs \ {r} : auth'[s] = auth[s]
    <3>1. CASE AuthReject(r) \/ AuthChallengeFails(r) \/ AuthDrop(r)
      BY <1>1, <3>1 DEF AuthReject, AuthChallengeFails, AuthDrop, AuthState
    <3>2. ASSUME NEW tee \in Tees, AuthStart(r, tee)
          PROVE  /\ auth[r].pc # "done" /\ auth'[r].pc # "done"
                 /\ \A s \in AuthReqs \ {r} : auth'[s] = auth[s]
      BY <1>1, <3>2 DEF AuthStart, AuthState
    <3>3. ASSUME NEW n \in Nonces, AuthChallenge(r, n)
          PROVE  /\ auth[r].pc # "done" /\ auth'[r].pc # "done"
                 /\ \A s \in AuthReqs \ {r} : auth'[s] = auth[s]
      BY <1>1, <3>3 DEF AuthChallenge, AuthState
    <3> QED BY <2>1, <3>1, <3>2, <3>3 DEF AuthStep
  <2>2. UNCHANGED auth \/ \E r \in AuthReqs : AuthStep(r)
    <3>1. ASSUME NEW r \in AttReqs, AttestStep(r) PROVE UNCHANGED auth
      <4>1. CASE LookupStep(r)
        BY <4>1 DEF LookupStep, AttestNoSession, AttestExpired, AttestAgain,
                    AttestWrongNonce, AttestBadExtra, AttestChecked, Fails
      <4>2. CASE LockStep(r)
        BY <4>2 DEF LockStep, AttestGone, AttestPanic, AttestLock, Fails
      <4> QED BY <3>1, <4>1, <4>2 DEF AttestStep, AttestReject, AttestStart,
                                      AttestDrop, VerifyStep, VerifyFails
    <3>2. ASSUME NEW r \in GetReqs, GetStep(r) PROVE UNCHANGED auth
      BY <3>2 DEF GetStep, GetStart, GetToken, GetDenied
    <3> QED BY <3>1, <3>2 DEF Next, PurgeStep, PurgeWake, PurgeBucket, Tick, vars
  <2> QED BY <2>1, <2>2
<1>3. \A r \in AttReqs :
         \/ att'[r] = att[r]
         \/ att[r].pc # "token" /\ (att'[r].pc # "token" \/ att'[r].token.req # r)
  <2>1. ASSUME NEW r \in AttReqs, AttestStep(r)
        PROVE  /\ att[r].pc # "token"
               /\ att'[r].pc # "token" \/ att'[r].token.req # r
               /\ \A q \in AttReqs \ {r} : att'[q] = att[q]
    <3>1. CASE AttestAgain(r)
      <4>1. PICK s \in AuthReqs : s = att[r].cookie /\ sessions[s].status = "Attested"
        BY <3>1 DEF AttestAgain, AtLookup, IndInv, AttestProgress
      <4>2. att[sessions[s].token.req].pc = "token" /\ att[r].pc = "lookup"
        BY <3>1, <4>1 DEF IndInv, SessionTokenIssued, Issued, AttestAgain, AtLookup
      <4>3. /\ att'[r].token = sessions[s].token
            /\ \A q \in AttReqs \ {r} : att'[q] = att[q]
        BY <1>1, <3>1, <4>1 DEF AttestAgain, AttState
      <4> QED BY <4>2, <4>3
    <3>2. CASE LookupStep(r) /\ ~AttestAgain(r)
      BY <1>1, <3>2 DEF LookupStep, AttestNoSession, AttestExpired,
                  AttestWrongNonce, AttestBadExtra, AttestChecked, Fails,
                  AtLookup, AtAuthed, AttState
    <3>3. CASE LockStep(r)
      BY <1>1, <3>3 DEF LockStep, AttestGone, AttestPanic, AttestLock, Fails,
                        AtLock, AttState
    <3>4. CASE AttestReject(r) \/ VerifyStep(r) \/ AttestDrop(r)
      BY <1>1, <3>4 DEF AttestReject, VerifyStep, VerifyFails, AttestDrop, AttState
    <3>5. CASE \E s \in KnownIds, rt, ev \in KnownNonces, ok \in BOOLEAN :
                  AttestStart(r, s, rt, ev, ok)
      BY <1>1, <3>5 DEF AttestStart, AttState
    <3> QED BY <2>1, <3>1, <3>2, <3>3, <3>4, <3>5 DEF AttestStep, LookupStep
  <2>2. UNCHANGED att \/ \E r \in AttReqs : AttestStep(r)
    <3>1. ASSUME NEW r \in AuthReqs, AuthStep(r) PROVE UNCHANGED att
      BY <3>1 DEF AuthStep, AuthReject, AuthStart, AuthChallengeFails,
                  AuthChallenge, AuthDrop
    <3>2. ASSUME NEW r \in GetReqs, GetStep(r) PROVE UNCHANGED att
      BY <3>2 DEF GetStep, GetStart, GetToken, GetDenied
    <3> QED BY <3>1, <3>2 DEF Next, PurgeStep, PurgeWake, PurgeBucket, Tick, vars
  <2> QED BY <2>1, <2>2
<1>4. \A s \in AuthReqs :
         AbsPhase'[s] = AbsPhase[s] /\ AbsChallenge'[s] = AbsChallenge[s]
  BY <1>1, <1>2, PhasesSame
<1>5. UNCHANGED <<AbsPhase, AbsChallenge>>
  <2>1. UNCHANGED AbsPhase
    BY <1>4, PhasesAreMap
  <2> QED BY <1>4, <2>1 DEF AbsChallenge
<1>6. UNCHANGED AbsAnswers
  BY <1>3, AnswersSame
<1> QED BY <1>5, <1>6 DEF Rcar!rvars

\* The broker implements the handshake: a session has a challenge of its own,
\* yields one token bound to that challenge, and stays closed once it has left
\* the map, for any number of requests, workers and buckets.
THEOREM BrokerIsRcar == Spec => ImplementsRcar
<1>1. Init => Rcar!RInit
  <2> SUFFICES ASSUME Init PROVE Rcar!RInit
    OBVIOUS
  <2>1. \A s \in AuthReqs : auth[s].pc = "idle"
    BY DEF Init
  <2>2. AbsPhase = [s \in AuthReqs |-> "none"]
    BY <2>1 DEF AbsPhase, PhaseOf
  <2>3. AbsChallenge = [s \in AuthReqs |-> None]
    BY <2>1 DEF AbsChallenge
  <2>4. AbsAnswers = [s \in AuthReqs |-> {}]
    BY DEF Init, AbsAnswers
  <2> QED BY <2>2, <2>3, <2>4 DEF Rcar!RInit
<1>2. IndInv /\ IndInv' /\ [Next]_vars => [Rcar!RNext]_(Rcar!rvars)
  <2> SUFFICES ASSUME IndInv, IndInv', [Next]_vars PROVE [Rcar!RNext]_(Rcar!rvars)
    OBVIOUS
  <2>1. ASSUME NEW r \in AuthReqs, AuthInsert(r) PROVE Rcar!RNext
    BY <2>1, InsertOpens DEF Rcar!RNext
  <2>2. ASSUME NEW r \in AttReqs, VerifyOk(r) PROVE Rcar!RNext
    <3>1. att[r].cookie \in AuthReqs
      BY <2>2 DEF VerifyOk, IndInv, AttestProgress
    <3> QED BY <2>2, <3>1, VerifyAttests DEF Rcar!RNext
  <2>3. ASSUME NEW b \in Buckets, PurgeBucket(b) PROVE Rcar!RNext
    BY <2>3, PurgeCloses DEF Rcar!RNext
  <2> QED BY <2>1, <2>2, <2>3, MapChanges, OthersStutter
<1> QED BY <1>1, <1>2, Invariance, PTL DEF Spec, ImplementsRcar, Rcar!RSpec
=============================================================================
