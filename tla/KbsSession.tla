----------------------------- MODULE KbsSession -----------------------------
(***************************************************************************)
(* The RCAR (Request, Challenge, Attestation, Response) sessions of the    *)
(* Key Broker Service: kbs/src/attestation/backend.rs and session.rs.      *)
(*                                                                         *)
(* Requests are served by actix workers, one thread each.  The handlers of *)
(* one worker interleave at their awaits, and those of different workers   *)
(* at any point, so one action is what a handler does from one access of   *)
(* the shared session map (or one await) to the next.  The map is an       *)
(* scc::HashMap: get_async returns an entry that keeps the whole bucket    *)
(* locked until it is dropped, insert blocks the calling thread while the  *)
(* bucket is locked.                                                       *)
(***************************************************************************)
EXTENDS Integers, FiniteSets

CONSTANTS
    AuthReqs,   \* POST /auth requests; each names the session id it creates
    AttReqs,    \* POST /attest requests
    GetReqs,    \* plugin requests, which look a token up by session cookie
    Workers,    \* actix worker threads
    WorkerOf,   \* the worker that serves a request
    Buckets,    \* buckets of the session map
    BucketOf,   \* the bucket a session id hashes to
    Nonces,     \* challenge nonces
    Tees,       \* TEE types
    Timeout,    \* config.timeout, the life of a session
    MaxTime,    \* bound on the clock
    None        \* no value

Reqs == AuthReqs \cup AttReqs \cup GetReqs

\* Requests of different kinds are different requests, each served by one
\* worker; a session id hashes to one bucket.
ASSUME RequestAssumption ==
    /\ AuthReqs \cap AttReqs = {}
    /\ AuthReqs \cap GetReqs = {}
    /\ AttReqs \cap GetReqs = {}
    /\ WorkerOf \in [Reqs -> Workers]
    /\ BucketOf \in [AuthReqs -> Buckets]

\* None is not a request, a nonce or a TEE.
ASSUME NoneAssumption == None \notin Reqs \cup Nonces \cup Tees

\* config.timeout is a signed number of minutes.
ASSUME TimeAssumption == Timeout \in Int /\ MaxTime \in Nat

VARIABLES
    clock,      \* OffsetDateTime::now_utc()
    sessions,   \* SessionMap.sessions, total over the ids
    guard,      \* the /attest request that keeps a bucket locked, or None
    sweep,      \* buckets the running retain_async pass has still to visit
    auth,       \* the state of each POST /auth
    att,        \* the state of each POST /attest
    get,        \* the state of each token lookup
    metrics     \* the auth and attestation counters of prometheus/mod.rs

vars == <<clock, sessions, guard, sweep, auth, att, get, metrics>>

-----------------------------------------------------------------------------
(* State *)

\* What the attestation service signs: the nonce and the TEE of the evidence
\* it verified, for the request that brought the evidence.
Token == [req : AttReqs, nonce : Nonces, tee : Tees]

\* SessionStatus; an id that is not in the map is Absent.
Authed == [status : {"Authed"}, tee : Tees, nonce : Nonces, timeout : Int]
Attested == [status : {"Attested"}, token : Token, timeout : Int]
Absent == [status |-> "absent"]

AuthPc == {"idle", "challenge", "insert", "done", "error", "dropped"}
AttPc == {"idle", "lookup", "lock", "verify",
          "token", "error", "panicked", "dropped"}
AttFinal == {"token", "error", "panicked", "dropped"}
GetPc == {"idle", "lookup", "token", "denied"}

AuthState == [pc : AuthPc, tee : Tees \cup {None}, nonce : Nonces \cup {None},
              timeout : Int]

\* rtNonce is the nonce in the plain runtime data, evNonce the one bound into
\* the hardware evidence; tee and nonce are what the first lookup read.
AttState == [pc : AttPc, cookie : AuthReqs \cup {None},
             rtNonce : Nonces \cup {None}, evNonce : Nonces \cup {None},
             extraOk : BOOLEAN,
             tee : Tees \cup {None}, nonce : Nonces \cup {None},
             token : Token \cup {None}]

GetState == [pc : GetPc, cookie : AuthReqs \cup {None},
             token : Token \cup {None}]

Counter == {"authRequests", "authErrors", "authSuccesses", "attRequests",
            "attErrors", "attFailures", "attSuccesses"}

Init ==
    /\ clock = 0
    /\ sessions = [s \in AuthReqs |-> Absent]
    /\ guard = [b \in Buckets |-> None]
    /\ sweep = {}
    /\ auth = [r \in AuthReqs |->
                 [pc |-> "idle", tee |-> None, nonce |-> None, timeout |-> 0]]
    /\ att = [r \in AttReqs |->
                [pc |-> "idle", cookie |-> None, rtNonce |-> None,
                 evNonce |-> None, extraOk |-> TRUE, tee |-> None,
                 nonce |-> None, token |-> None]]
    /\ get = [r \in GetReqs |->
                [pc |-> "idle", cookie |-> None, token |-> None]]
    /\ metrics = [c \in Counter |-> 0]

-----------------------------------------------------------------------------
(* Helpers *)

\* Mutant: an attested session does not expire.
is_expired_authed(s) ==
    sessions[s].status = "Authed" /\ sessions[s].timeout < clock

\* SessionStatus::is_expired, of a session that is in the map.
is_expired(s) == sessions[s].timeout < clock

\* Mutant: any session that is in the map passes.
has_any_status(s) == sessions[s].status # "absent"

\* SessionStatus::request and challenge do not panic.
has_request(s) == sessions[s].status = "Authed"

\* insert is synchronous: while an /auth waits in it, its worker runs nothing
\* else.
Runnable(r) ==
    \A q \in AuthReqs \ {r} :
        WorkerOf[q] = WorkerOf[r] => auth[q].pc # "insert"

\* get_async, insert and retain_async go on once the bucket is unlocked.
Unlocked(b) == guard[b] = None

Inc(C) == metrics' = [c \in Counter |->
                        IF c \in C THEN metrics[c] + 1 ELSE metrics[c]]

\* The ids and nonces a client can have received in a challenge.
KnownIds == {s \in AuthReqs : auth[s].pc = "done"}
KnownNonces == {auth[s].nonce : s \in KnownIds}

\* Mutant: the entry outlives the handler.
ReleaseNothing(r) == UNCHANGED guard

\* Dropping the entry unlocks its bucket.
ReleaseOf(r) == guard' = [b \in Buckets |-> IF guard[b] = r THEN None
                                                            ELSE guard[b]]

-----------------------------------------------------------------------------
(* POST /auth: AttestationService::__auth *)

\* The body or its version is refused.
AuthReject(r) ==
    /\ auth[r].pc = "idle" /\ Runnable(r)
    /\ auth' = [auth EXCEPT ![r].pc = "error"]
    /\ Inc({"authRequests", "authErrors"})
    /\ UNCHANGED <<clock, sessions, guard, sweep, att, get>>

\* A request for a TEE is accepted and awaits generate_challenge.
AuthStart(r, tee) ==
    /\ auth[r].pc = "idle" /\ Runnable(r)
    /\ auth' = [auth EXCEPT ![r].pc = "challenge", ![r].tee = tee]
    /\ Inc({"authRequests"})
    /\ UNCHANGED <<clock, sessions, guard, sweep, att, get>>

AuthChallengeFails(r) ==
    /\ auth[r].pc = "challenge" /\ Runnable(r)
    /\ auth' = [auth EXCEPT ![r].pc = "error"]
    /\ Inc({"authErrors"})
    /\ UNCHANGED <<clock, sessions, guard, sweep, att, get>>

\* Mutant: a challenge may repeat the nonce of another session.
AuthChallengeRepeats(r, n) ==
    /\ auth[r].pc = "challenge" /\ Runnable(r)
    /\ auth' = [auth EXCEPT ![r].pc = "insert", ![r].nonce = n,
                            ![r].timeout = clock + Timeout]
    /\ Inc({"authSuccesses"})
    /\ UNCHANGED <<clock, sessions, guard, sweep, att, get>>

\* make_nonce returns 32 random bytes: a nonce no other challenge has.
AuthChallenge(r, n) ==
    /\ auth[r].pc = "challenge" /\ Runnable(r)
    /\ \A q \in AuthReqs : auth[q].nonce # n
    /\ auth' = [auth EXCEPT ![r].pc = "insert", ![r].nonce = n,
                            ![r].timeout = clock + Timeout]
    /\ Inc({"authSuccesses"})
    /\ UNCHANGED <<clock, sessions, guard, sweep, att, get>>

\* Mutant: the session is put together before its challenge is there.
AuthInsertEarly(r) ==
    /\ auth[r].pc = "challenge" /\ Runnable(r)
    /\ Unlocked(BucketOf[r])
    /\ sessions' = [sessions EXCEPT ![r] =
          [status |-> "Authed", tee |-> auth[r].tee, nonce |-> auth[r].nonce,
           timeout |-> auth[r].timeout]]
    /\ UNCHANGED <<clock, guard, sweep, auth, att, get, metrics>>

\* SessionMap::insert, and the response with the challenge and the cookie.
AuthInsert(r) ==
    /\ auth[r].pc = "insert" /\ Runnable(r)
    /\ Unlocked(BucketOf[r])
    /\ sessions' = [sessions EXCEPT ![r] =
          [status |-> "Authed", tee |-> auth[r].tee, nonce |-> auth[r].nonce,
           timeout |-> auth[r].timeout]]
    /\ auth' = [auth EXCEPT ![r].pc = "done"]
    /\ UNCHANGED <<clock, guard, sweep, att, get, metrics>>

\* The connection fails while the handler awaits the challenge.
AuthDrop(r) ==
    /\ auth[r].pc = "challenge" /\ Runnable(r)
    /\ auth' = [auth EXCEPT ![r].pc = "dropped"]
    /\ UNCHANGED <<clock, sessions, guard, sweep, att, get, metrics>>

-----------------------------------------------------------------------------
(* POST /attest: AttestationService::__attest *)

\* No cookie, or a body that is not an Attestation.
AttestReject(r) ==
    /\ att[r].pc = "idle" /\ Runnable(r)
    /\ att' = [att EXCEPT ![r].pc = "error"]
    /\ Inc({"attRequests", "attErrors"})
    /\ UNCHANGED <<clock, sessions, guard, sweep, auth, get>>

AttestStart(r, s, rt, ev, ok) ==
    /\ att[r].pc = "idle" /\ Runnable(r)
    /\ att' = [att EXCEPT ![r].pc = "lookup", ![r].cookie = s,
                          ![r].rtNonce = rt, ![r].evNonce = ev,
                          ![r].extraOk = ok]
    /\ Inc({"attRequests"})
    /\ UNCHANGED <<clock, sessions, guard, sweep, auth, get>>

\* The first get_async, whose entry is dropped before the next await.
AtLookup(r) ==
    /\ att[r].pc = "lookup" /\ Runnable(r)
    /\ Unlocked(BucketOf[att[r].cookie])

Fails(r, C) ==
    /\ att' = [att EXCEPT ![r].pc = "error"]
    /\ Inc(C)
    /\ UNCHANGED <<clock, sessions, guard, sweep, auth, get>>

AttestNoSession(r) ==
    /\ AtLookup(r)
    /\ sessions[att[r].cookie].status = "absent"
    /\ Fails(r, {"attErrors"})

AttestExpired(r) ==
    /\ AtLookup(r)
    /\ sessions[att[r].cookie].status # "absent"
    /\ is_expired(att[r].cookie)
    /\ Fails(r, {})

\* The session is attested already: answer with its token.
AttestAgain(r) ==
    /\ AtLookup(r)
    /\ sessions[att[r].cookie].status = "Attested"
    /\ ~is_expired(att[r].cookie)
    /\ att' = [att EXCEPT ![r].pc = "token",
                          ![r].token = sessions[att[r].cookie].token]
    /\ UNCHANGED <<clock, sessions, guard, sweep, auth, get, metrics>>

AtAuthed(r) ==
    /\ AtLookup(r)
    /\ sessions[att[r].cookie].status = "Authed"
    /\ ~is_expired(att[r].cookie)

AttestWrongNonce(r) ==
    /\ AtAuthed(r)
    /\ sessions[att[r].cookie].nonce # att[r].rtNonce
    /\ Fails(r, {})

\* The additional evidence does not parse.
AttestBadExtra(r) ==
    /\ AtAuthed(r)
    /\ sessions[att[r].cookie].nonce = att[r].rtNonce
    /\ ~att[r].extraOk
    /\ Fails(r, {"attErrors"})

\* Mutant: the nonce of the message is trusted.
AttestCheckedTrustsClient(r) ==
    /\ AtAuthed(r)
    /\ att[r].extraOk
    /\ att' = [att EXCEPT ![r].pc = "lock",
                          ![r].tee = sessions[att[r].cookie].tee,
                          ![r].nonce = att[r].rtNonce]
    /\ UNCHANGED <<clock, sessions, guard, sweep, auth, get, metrics>>

\* The evidence to verify is put together from the session's TEE and nonce.
AttestChecked(r) ==
    /\ AtAuthed(r)
    /\ sessions[att[r].cookie].nonce = att[r].rtNonce
    /\ att[r].extraOk
    /\ att' = [att EXCEPT ![r].pc = "lock",
                          ![r].tee = sessions[att[r].cookie].tee,
                          ![r].nonce = sessions[att[r].cookie].nonce]
    /\ UNCHANGED <<clock, sessions, guard, sweep, auth, get, metrics>>

\* The second get_async, whose entry is held until the handler ends.
AtLock(r) ==
    /\ att[r].pc = "lock" /\ Runnable(r)
    /\ Unlocked(BucketOf[att[r].cookie])

AttestGone(r) ==
    /\ AtLock(r)
    /\ sessions[att[r].cookie].status = "absent"
    /\ Fails(r, {"attErrors"})

\* session.request() panics on an Attested session; unwinding drops the entry.
AttestPanic(r) ==
    /\ AtLock(r)
    /\ sessions[att[r].cookie].status # "absent"
    /\ ~has_request(att[r].cookie)
    /\ att' = [att EXCEPT ![r].pc = "panicked"]
    /\ UNCHANGED <<clock, sessions, guard, sweep, auth, get, metrics>>

\* Mutant: the entry is dropped before verify is awaited.
AttestLockDropsEntry(r) ==
    /\ AtLock(r)
    /\ has_request(att[r].cookie)
    /\ att' = [att EXCEPT ![r].pc = "verify"]
    /\ UNCHANGED <<clock, sessions, guard, sweep, auth, get, metrics>>

\* The bucket stays locked while verify is awaited.
AttestLock(r) ==
    /\ AtLock(r)
    /\ has_request(att[r].cookie)
    /\ guard' = [guard EXCEPT ![BucketOf[att[r].cookie]] = r]
    /\ att' = [att EXCEPT ![r].pc = "verify"]
    /\ UNCHANGED <<clock, sessions, sweep, auth, get, metrics>>

VerifyFails(r) ==
    /\ att[r].pc = "verify" /\ Runnable(r)
    /\ att' = [att EXCEPT ![r].pc = "error"]
    /\ Inc({"attFailures"})
    /\ ReleaseOf(r)
    /\ UNCHANGED <<clock, sessions, sweep, auth, get>>

\* Mutant: attesting renews the deadline of the session.
AttestStatusOverwrites(session, token) ==
    [status |-> "Attested", token |-> token, timeout |-> clock + Timeout]

\* SessionStatus::attest: an Attested session only logs a warning.
AttestStatus(session, token) ==
    IF session.status = "Authed"
    THEN [status |-> "Attested", token |-> token, timeout |-> session.timeout]
    ELSE session

\* The attestation service accepts evidence only for the nonce and the TEE it
\* is given, and returns a token for them.
VerifyOk(r) ==
    LET s == att[r].cookie
        token == [req |-> r, nonce |-> att[r].nonce, tee |-> att[r].tee]
    IN  /\ att[r].pc = "verify" /\ Runnable(r)
        /\ att[r].evNonce = att[r].nonce
        /\ sessions' = [sessions EXCEPT ![s] = AttestStatus(@, token)]
        /\ att' = [att EXCEPT ![r].pc = "token", ![r].token = token]
        /\ Inc({"attSuccesses"})
        /\ ReleaseOf(r)
        /\ UNCHANGED <<clock, sweep, auth, get>>

\* The connection fails while the handler is suspended: its future is dropped,
\* and the entry with it.
AttestDrop(r) ==
    /\ att[r].pc \in {"lookup", "lock", "verify"} /\ Runnable(r)
    /\ att' = [att EXCEPT ![r].pc = "dropped"]
    /\ ReleaseOf(r)
    /\ UNCHANGED <<clock, sessions, sweep, auth, get, metrics>>

-----------------------------------------------------------------------------
(* AttestationService::get_attest_token_from_session *)

GetStart(r, s) ==
    /\ get[r].pc = "idle" /\ Runnable(r)
    /\ get' = [get EXCEPT ![r].pc = "lookup", ![r].cookie = s]
    /\ UNCHANGED <<clock, sessions, guard, sweep, auth, att, metrics>>

GetToken(r) ==
    LET s == get[r].cookie IN
    /\ get[r].pc = "lookup" /\ Runnable(r)
    /\ Unlocked(BucketOf[s])
    /\ sessions[s].status = "Attested" /\ ~is_expired(s)
    /\ get' = [get EXCEPT ![r].pc = "token", ![r].token = sessions[s].token]
    /\ UNCHANGED <<clock, sessions, guard, sweep, auth, att, metrics>>

GetDenied(r) ==
    LET s == get[r].cookie IN
    /\ get[r].pc = "lookup" /\ Runnable(r)
    /\ Unlocked(BucketOf[s])
    /\ sessions[s].status = "Attested" => is_expired(s)
    /\ get' = [get EXCEPT ![r].pc = "denied"]
    /\ UNCHANGED <<clock, sessions, guard, sweep, auth, att, metrics>>

-----------------------------------------------------------------------------
(* The purge task of AttestationService::new, and time *)

\* The 60 s sleep ends and retain_async starts a pass over the buckets.
PurgeWake ==
    /\ sweep = {}
    /\ sweep' = Buckets
    /\ UNCHANGED <<clock, sessions, guard, auth, att, get, metrics>>

\* retain_async locks one bucket at a time and drops what has expired in it.
PurgeBucket(b) ==
    /\ b \in sweep
    /\ Unlocked(b)
    /\ sweep' = sweep \ {b}
    /\ sessions' = [s \in AuthReqs |->
          IF BucketOf[s] = b /\ sessions[s].status # "absent" /\ is_expired(s)
          THEN Absent ELSE sessions[s]]
    /\ UNCHANGED <<clock, guard, auth, att, get, metrics>>

Tick ==
    /\ clock < MaxTime
    /\ clock' = clock + 1
    /\ UNCHANGED <<sessions, guard, sweep, auth, att, get, metrics>>

-----------------------------------------------------------------------------
AuthStep(r) ==
    \/ AuthReject(r)
    \/ \E tee \in Tees : AuthStart(r, tee)
    \/ AuthChallengeFails(r)
    \/ \E n \in Nonces : AuthChallenge(r, n)
    \/ AuthInsert(r)
    \/ AuthDrop(r)

LookupStep(r) ==
    \/ AttestNoSession(r)
    \/ AttestExpired(r)
    \/ AttestAgain(r)
    \/ AttestWrongNonce(r)
    \/ AttestBadExtra(r)
    \/ AttestChecked(r)

LockStep(r) == AttestGone(r) \/ AttestPanic(r) \/ AttestLock(r)

VerifyStep(r) == VerifyFails(r) \/ VerifyOk(r)

AttestStep(r) ==
    \/ AttestReject(r)
    \/ \E s \in KnownIds, rt, ev \in KnownNonces, ok \in BOOLEAN :
          AttestStart(r, s, rt, ev, ok)
    \/ LookupStep(r)
    \/ LockStep(r)
    \/ VerifyStep(r)
    \/ AttestDrop(r)

GetStep(r) ==
    \/ \E s \in KnownIds : GetStart(r, s)
    \/ GetToken(r)
    \/ GetDenied(r)

PurgeStep == PurgeWake \/ \E b \in Buckets : PurgeBucket(b)

Next ==
    \/ \E r \in AuthReqs : AuthStep(r)
    \/ \E r \in AttReqs : AttestStep(r)
    \/ \E r \in GetReqs : GetStep(r)
    \/ PurgeStep
    \/ Tick

Spec == Init /\ [][Next]_vars

\* The executor polls every handler that can go on; generate_challenge and
\* verify return; the purge task is woken; time passes.  Nothing makes a
\* client send a request or a connection fail.
Fairness ==
    /\ \A r \in AuthReqs :
          /\ WF_vars(AuthChallengeFails(r)
                       \/ \E n \in Nonces : AuthChallenge(r, n))
          /\ WF_vars(AuthInsert(r))
    /\ \A r \in AttReqs :
          /\ WF_vars(LookupStep(r))
          /\ WF_vars(LockStep(r))
          /\ WF_vars(VerifyStep(r))
    /\ \A r \in GetReqs : WF_vars(GetToken(r) \/ GetDenied(r))
    /\ WF_vars(PurgeWake)
    /\ \A b \in Buckets : WF_vars(PurgeBucket(b))
    /\ WF_vars(Tick)

FairSpec == Spec /\ Fairness

-----------------------------------------------------------------------------
(* Properties *)

\* Every variable stays in its type.
TypeOK ==
    /\ clock \in Nat
    /\ sessions \in [AuthReqs -> Authed \cup Attested \cup {Absent}]
    /\ guard \in [Buckets -> AttReqs \cup {None}]
    /\ sweep \subseteq Buckets
    /\ auth \in [AuthReqs -> AuthState]
    /\ att \in [AttReqs -> AttState]
    /\ get \in [GetReqs -> GetState]
    /\ metrics \in [Counter -> Nat]

\* __attest verifies with an entry locked across an await.  A bucket is locked
\* only by a request that is in verify on a session of that bucket, and such a
\* request is the one that locks it: no path out of the handler (error, drop,
\* panic) leaves a bucket locked, and no two verifications share a bucket.
GuardOwnedByVerifier ==
    /\ \A b \in Buckets : guard[b] # None =>
          /\ att[guard[b]].pc = "verify"
          /\ BucketOf[att[guard[b]].cookie] = b
    /\ \A r \in AttReqs : att[r].pc = "verify" =>
          guard[BucketOf[att[r].cookie]] = r

\* What __attest read before its second get_async still describes the session
\* while verify runs: the session is in the map, not attested, with the TEE and
\* the nonce the evidence was put together from.  So the purge task cannot
\* remove it, the metric label is the verified TEE, and the branch of
\* SessionStatus::attest that only warns is never taken.
VerifyingSessionIsAuthed ==
    \A r \in AttReqs : att[r].pc = "verify" =>
        LET session == sessions[att[r].cookie] IN
        /\ session.status = "Authed"
        /\ session.tee = att[r].tee
        /\ session.nonce = att[r].nonce

\* The token kept in a session was issued for evidence bound to the challenge
\* of that very session, brought by a request with that session's cookie, and
\* for the TEE the session was opened for.
TokenBoundToSession ==
    \A s \in AuthReqs : sessions[s].status = "Attested" =>
        LET token == sessions[s].token IN
        /\ token.nonce = auth[s].nonce
        /\ token.tee = auth[s].tee
        /\ att[token.req].cookie = s
        /\ att[token.req].evNonce = auth[s].nonce

\* All the tokens ever handed out for a session, by /attest and by the lookup
\* of the plugin requests, are one and the same, however many /attest requests
\* race on it.
OneTokenPerSession ==
    LET Answered == {[cookie |-> att[r].cookie, token |-> att[r].token] :
                       r \in {q \in AttReqs : att[q].pc = "token"}}
                      \cup
                    {[cookie |-> get[r].cookie, token |-> get[r].token] :
                       r \in {q \in GetReqs : get[q].pc = "token"}}
    IN  \A a, b \in Answered : a.cookie = b.cookie => a.token = b.token

\* A session in the map never returns to Authed, never changes its token or
\* its deadline, and leaves the map only after its deadline.
SessionStep(s) ==
    LET old == sessions[s]
        new == sessions'[s]
    IN  \/ new = old
        \/ old.status = "absent" /\ auth[s].pc = "insert"
        \/ /\ old.status = "Authed" /\ new.status = "Attested"
           /\ new.timeout = old.timeout
        \/ new.status = "absent" /\ old.timeout < clock

SessionsOnlyAdvance == [][\A s \in AuthReqs : SessionStep(s)]_vars

\* session.rs:44 asserts that request() and challenge() are only called on a
\* session that is not attested yet.
NoPanic == \A r \in AttReqs : att[r].pc # "panicked"

\* backend.rs:133 calls the session map concurrent safe: an /auth that blocks
\* its worker in insert never waits for an /attest of the same worker, which
\* could then never go on and unlock the bucket.
InsertWaitsForOtherWorker ==
    \A r \in AuthReqs :
        (auth[r].pc = "insert" /\ guard[BucketOf[r]] # None)
            => WorkerOf[guard[BucketOf[r]]] # WorkerOf[r]

\* Every /attest that was received is answered, dropped or panics: neither the
\* bucket locks nor the purge task keep it waiting for ever.
AttestEnds ==
    \A r \in AttReqs : att[r].pc = "lookup" ~> att[r].pc \in AttFinal

\* Every session whose deadline the clock passes leaves the map, also when
\* requests keep its bucket locked in between.
ExpiredArePurged ==
    \A s \in AuthReqs :
        (sessions[s].status # "absent" /\ sessions[s].timeout < MaxTime)
            ~> sessions[s].status = "absent"

-----------------------------------------------------------------------------
(* The abstract handshake *)

\* The state of RcarHandshake that a state of this module stands for.
PhaseOf(s) ==
    CASE auth[s].pc # "done" -> "none"
      [] auth[s].pc = "done" /\ sessions[s].status = "Authed" -> "challenged"
      [] auth[s].pc = "done" /\ sessions[s].status = "Attested" -> "attested"
      [] auth[s].pc = "done" /\ sessions[s].status = "absent" -> "closed"

AbsPhase == [s \in AuthReqs |-> PhaseOf(s)]

AbsChallenge == [s \in AuthReqs |->
    IF auth[s].pc = "done" THEN auth[s].nonce ELSE None]

AbsAnswers == [s \in AuthReqs |->
    {k \in Token :
        \/ \E r \in AttReqs :
              att[r].pc = "token" /\ att[r].cookie = s /\ att[r].token = k
        \/ \E r \in GetReqs :
              get[r].pc = "token" /\ get[r].cookie = s /\ get[r].token = k}]

Rcar == INSTANCE RcarHandshake WITH
    Sessions <- AuthReqs, phase <- AbsPhase, challenge <- AbsChallenge,
    answers <- AbsAnswers

\* The KBS implements the handshake: under every interleaving of /auth,
\* /attest, token lookups, dropped connections and the purge task, a session
\* has a challenge of its own, yields one token bound to that challenge, and
\* does not come back after it has left the map.
ImplementsRcar == Rcar!RSpec

=============================================================================
