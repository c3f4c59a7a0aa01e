------------------------------- MODULE KbsApi -------------------------------
(***************************************************************************)
(* The request path of the key broker: the dispatcher and the metrics      *)
(* middleware (kbs/src/api_server.rs), admin authentication, the           *)
(* verification of attestation tokens (token/jwk.rs), the resource policy  *)
(* engine (policy_engine/) and the plugins (plugins/).                     *)
(*                                                                         *)
(* Requests run on several workers.  The policy file is read and written   *)
(* under one mutex; resources are files without any lock; PKCS#11 objects  *)
(* live in an HSM.  Files are written by tokio::fs::write: a thread of the *)
(* blocking pool truncates, then writes, and goes on when the handler that *)
(* waits for it is dropped.                                                *)
(*                                                                         *)
(* The endpoints that belong to the attestation service are in KbsSession, *)
(* Rvps and the modules of that service.                                   *)
(***************************************************************************)
EXTENDS Integers, FiniteSets

CONSTANTS
    Reqs,           \* the requests of a run
    Scenarios,      \* what may go wrong, and what each request may ask
    Descs,          \* resource paths <repository>/<type>/<tag>
    Secrets,        \* contents of resources
    Policies,       \* policies that parse; a policy is the set of pairs
                    \* <<claims, query>> it allows
    DefaultPolicy,  \* default_policy.rego
    Tokens,         \* attestation tokens
    Plugins,        \* the configured plugins
    InsecureKey,    \* AttestationTokenVerifierConfig.insecure_key
    TrustedCerts,   \* whether trusted_certs_paths names any certificate
    TrustedJwks,    \* whether trusted_jwk_sets names any key
    Credential,     \* what nebula-ca and sample answer
    Torn,           \* the content of a file that is being written
    None

Policy == "resource-policy"
Targets == Descs \cup {Policy}
AllPlugins == {"resource", "sample", "nebula-ca", "pkcs11"}

\* jwk: the key in the header, kid: the key id in it, signed: whether the
\* token decodes under the key these name.  Its claims and its TEE public key.
TokenShape(t) ==
    /\ t.jwk \in {"none", "endorsed", "unendorsed"}
    /\ t.kid \in {"known", "unknown"}
    /\ t.signed \in BOOLEAN

\* target is None for a path that is no resource path, data None for a
\* request without a policy, session the token of the session the cookie names.
QueryShape(q) ==
    /\ q.plugin \in AllPlugins \cup {Policy, "unknown"}
    /\ q.method \in {"GET", "POST"}
    /\ q.target \in Descs \cup {None}
    /\ q.admin \in BOOLEAN
    /\ q.plugin \in {"resource", "pkcs11"} /\ q.method = "POST" =>
          q.data \in Secrets
    /\ q.session \in Tokens \cup {None} /\ q.bearer \in Tokens \cup {None}

ASSUME ApiAssumption ==
    /\ \A t \in Tokens : TokenShape(t)
    /\ IsFiniteSet(Reqs)
    /\ \A s \in Scenarios :
          /\ s.faults \subseteq {"drop", "io"}
          /\ \A r \in Reqs : \A q \in s.asks[r] : QueryShape(q)
    /\ Plugins \subseteq AllPlugins
    /\ DefaultPolicy \in Policies
    /\ {InsecureKey, TrustedCerts, TrustedJwks} \subseteq BOOLEAN
    /\ Policy \notin Descs
    /\ None \notin Reqs /\ None \notin Descs /\ None \notin Secrets
    /\ None \notin Policies /\ None \notin Tokens

VARIABLES
    scenario,   \* never changes
    file,       \* the policy file and the resource files
    objects,    \* the PKCS#11 objects that bear a label
    writes,     \* the threads in tokio::fs::write
    mutex,      \* who holds the mutex of the policy engine
    req,        \* the state of each request
    kept,       \* what was acknowledged last and not written again since
    metric      \* the Prometheus counters

vars == <<scenario, file, objects, writes, mutex, req, kept, metric>>

Faults == scenario.faults

-----------------------------------------------------------------------------
(* State *)

Pc == {"idle", "dispatch", "policy_lock", "policy_read", "eval_lock",
       "handle", "read", "wait", "done", "dropped"}

\* A file is absent, whole, or torn: truncated, a mix of two writes, or what
\* a write that failed left of its data.
Whole(data) == [state |-> "whole", data |-> data]
Absent == [state |-> "absent", data |-> None]
Empty == [state |-> "empty", data |-> None]
Mixed == [state |-> "mixed", data |-> None]
Partial == [state |-> "partial", data |-> None]

Contents == Secrets \cup Policies
FileState ==
    {Absent, Empty, Mixed, Partial} \cup {Whole(data) : data \in Contents}

\* A thread in tokio::fs::write, the request whose handler waits for it (None
\* once that was dropped) and the request that started it.
Write == [by : Reqs \cup {None}, id : Reqs, target : Targets, data : Contents,
          truncated : BOOLEAN, alone : BOOLEAN]

Queries == UNION {s.asks[r] : s \in Scenarios, r \in Reqs}

\* data and to: what was sent in the body, and the key it was encrypted for.
\* seen: the policies that were in force while the request asked for one.
ReqState == [pc : Pc, q : Queries \cup {None},
             data : Contents \cup {Credential, Torn, None},
             to : {t.key : t \in Tokens} \cup {None}, seen : SUBSET FileState]
Request(pc, q) == [pc |-> pc, q |-> q, data |-> None, to |-> None, seen |-> {}]

InFlight(r) == req[r].pc \notin {"idle", "done", "dropped"}

Counters == {"active", "requests", "evals", "approvals", "violations", "errors"}

Init ==
    /\ scenario \in Scenarios
    /\ file = [t \in Targets |->
                  IF t = Policy THEN Whole(DefaultPolicy) ELSE Absent]
    /\ objects = [d \in Descs |-> {}]
    /\ writes = {} /\ mutex = None
    /\ req = [r \in Reqs |-> Request("idle", None)]
    /\ kept = [t \in Targets |-> None]
    /\ metric = [c \in Counters |-> 0]

-----------------------------------------------------------------------------
(* Who may ask what *)

\* JwkAttestationTokenVerifier::get_verification_jwk: whether the key of a
\* token may be used.
KeyTrusted(t) ==
    IF t.jwk # "none"
    THEN InsecureKey \/ (TrustedCerts /\ t.jwk = "endorsed")
    ELSE TrustedJwks /\ t.kid = "known"

Verified(t) == KeyTrusted(t) /\ t.signed

\* get_attestation_token: the session first, then the Authorization header.
TokenOf(q) == IF q.session # None THEN q.session ELSE q.bearer

\* validate_auth and encrypted of the plugins.
ValidateAuth(q) ==
    \/ q.plugin \in {"resource", "pkcs11"} /\ q.method = "POST"
    \/ q.plugin = "sample"

Encrypted(q) ==
    \/ q.plugin = "resource" /\ q.method = "GET"
    \/ q.plugin \in {"nebula-ca", "pkcs11"}

NeedsAdmin(q) == q.plugin = Policy \/ ValidateAuth(q)

Allows(p, q) ==
    <<TokenOf(q).claims, [plugin |-> q.plugin, target |-> q.target]>> \in p

-----------------------------------------------------------------------------
(* The middleware and the dispatcher *)

Arrive(r, q) ==
    /\ req[r].pc = "idle"
    /\ req' = [req EXCEPT ![r] = Request("dispatch", q)]
    /\ metric' = [metric EXCEPT !.active = @ + 1, !.requests = @ + 1]
    /\ UNCHANGED <<file, objects, writes, mutex, kept>>

\* Answer and leave the middleware.
Answer(r, data, to) ==
    /\ req' = [req EXCEPT ![r].pc = "done", ![r].data = data, ![r].to = to]
    /\ metric' = [metric EXCEPT !.active = @ - 1]

Goto(r, pc) == req' = [req EXCEPT ![r].pc = pc]

\* Errors before the first await.
Refused(q) ==
    \/ q.plugin \notin Plugins \cup {Policy}
    \/ NeedsAdmin(q) /\ ~q.admin
    \/ ~NeedsAdmin(q) /\ (TokenOf(q) # None => ~Verified(TokenOf(q)))
    \/ q.plugin = Policy /\ q.method = "POST" /\ q.data = None

Refuse(r) ==
    /\ req[r].pc = "dispatch" /\ Refused(req[r].q)
    /\ Answer(r, None, None)
    /\ UNCHANGED <<file, objects, writes, mutex, kept>>

Dispatch(r) ==
    LET q == req[r].q
    IN  /\ req[r].pc = "dispatch" /\ ~Refused(q)
        /\ \/ /\ q.plugin = Policy
              /\ Goto(r, "policy_lock")
              /\ UNCHANGED metric
           \/ /\ q.plugin # Policy /\ NeedsAdmin(q)
              /\ Goto(r, "handle")
              /\ UNCHANGED metric
           \/ /\ ~NeedsAdmin(q)
              /\ req' = [req EXCEPT ![r].pc = "eval_lock",
                                    ![r].seen = {file[Policy]}]
              /\ metric' = [metric EXCEPT !.evals = @ + 1]
        /\ UNCHANGED <<file, objects, writes, mutex, kept>>

-----------------------------------------------------------------------------
(* Writing a file *)

\* A thread is given the write; the handler `by' waits for it.  A write is
\* alone when no other thread writes the same file meanwhile.
StartWrite(r, target, data) ==
    /\ writes' =
          { IF w.target = target THEN [w EXCEPT !.alone = FALSE] ELSE w :
               w \in writes } \cup
          {[by |-> r, id |-> r, target |-> target, data |-> data,
            truncated |-> FALSE,
            alone |-> \A w \in writes : w.target # target]}
    /\ kept' = [kept EXCEPT ![target] = None]
    /\ Goto(r, "wait")

\* Mutant: the mutex stays locked.
KeepsMutex(r) == UNCHANGED mutex

Release(r) == mutex' = IF mutex = r THEN None ELSE mutex

\* Who asks for a policy sees every one that is in force meanwhile.
Seeing(q, target, content) ==
    IF target = Policy /\ q.pc = "eval_lock"
    THEN [q EXCEPT !.seen = @ \cup {content}] ELSE q

\* The handler that waits for a thread, if it still does, answers.
Returns(w, content) ==
    /\ req' = [r \in Reqs |->
          IF r = w.by THEN [req[r] EXCEPT !.pc = "done"]
                      ELSE Seeing(req[r], w.target, content)]
    /\ metric' = IF w.by = None THEN metric
                                ELSE [metric EXCEPT !.active = @ - 1]
    /\ Release(w.by)

Truncate(w) ==
    /\ ~w.truncated
    /\ file' = [file EXCEPT ![w.target] = Empty]
    /\ writes' = (writes \ {w}) \cup {[w EXCEPT !.truncated = TRUE]}
    /\ req' = [r \in Reqs |-> Seeing(req[r], w.target, Empty)]
    /\ UNCHANGED <<objects, mutex, kept, metric>>

\* The body of POST answers is empty.  What another thread wrote since the
\* truncation may stick out at the end.
Finish(w) ==
    /\ w.truncated
    /\ \E content \in {Whole(w.data)} \cup
                      (IF file[w.target] = Empty THEN {} ELSE {Mixed}) :
          /\ file' = [file EXCEPT ![w.target] = content]
          /\ Returns(w, content)
          /\ kept' = IF w.by # None /\ w.alone
                     THEN [kept EXCEPT ![w.target] = w.data] ELSE kept
    /\ writes' = writes \ {w}
    /\ UNCHANGED objects

\* Some of the data may have been written.
WriteFails(w) ==
    /\ "io" \in Faults
    /\ \E content \in {file[w.target]} \cup
                      (IF w.truncated THEN {Partial} ELSE {}) :
          /\ file' = [file EXCEPT ![w.target] = content]
          /\ Returns(w, content)
    /\ writes' = writes \ {w}
    /\ UNCHANGED <<objects, kept>>

-----------------------------------------------------------------------------
(* The policy engine *)

\* set_policy: a policy that does not parse is refused under the mutex.
SetPolicyRefused(r) ==
    /\ req[r].pc = "policy_lock" /\ mutex = None
    /\ req[r].q.method = "POST" /\ req[r].q.data \notin Policies
    /\ Answer(r, None, None)
    /\ UNCHANGED <<file, objects, writes, mutex, kept>>

\* Mutant: the answer does not wait for the write.
SetPolicyNotAwaited(r) ==
    /\ req[r].pc = "policy_lock" /\ mutex = None
    /\ req[r].q.method = "POST" /\ req[r].q.data \in Policies
    /\ writes' = writes \cup
          {[by |-> None, id |-> r, target |-> Policy, data |-> req[r].q.data,
            truncated |-> FALSE, alone |-> TRUE]}
    /\ kept' = [kept EXCEPT ![Policy] = req[r].q.data]
    /\ Answer(r, None, None)
    /\ UNCHANGED <<file, objects, mutex>>

\* Mutant: the mutex is not held while the file is written.
SetPolicyUnlocked(r) ==
    /\ req[r].pc = "policy_lock" /\ mutex = None
    /\ req[r].q.method = "POST" /\ req[r].q.data \in Policies
    /\ StartWrite(r, Policy, req[r].q.data)
    /\ UNCHANGED <<file, objects, mutex, metric>>

SetPolicy(r) ==
    /\ req[r].pc = "policy_lock" /\ mutex = None
    /\ req[r].q.method = "POST" /\ req[r].q.data \in Policies
    /\ StartWrite(r, Policy, req[r].q.data)
    /\ mutex' = r
    /\ UNCHANGED <<file, objects, metric>>

GetPolicyLock(r) ==
    /\ req[r].pc = "policy_lock" /\ mutex = None
    /\ req[r].q.method = "GET"
    /\ mutex' = r
    /\ Goto(r, "policy_read")
    /\ UNCHANGED <<file, objects, writes, kept, metric>>

Content(f) == IF f.state = "whole" THEN f.data ELSE Torn

GetPolicy(r) ==
    /\ req[r].pc = "policy_read"
    /\ Answer(r, Content(file[Policy]), None)
    /\ Release(r)
    /\ UNCHANGED <<file, objects, writes, kept>>

Deny(r, counter) ==
    /\ req' = [req EXCEPT ![r].pc = "done"]
    /\ metric' = [metric EXCEPT !.active = @ - 1, ![counter] = @ + 1]

\* evaluate, synchronous once the mutex is taken.  A truncated file does not
\* load; nothing is known of a mix of two policies, or of a part of one.
Approve(r) ==
    /\ \/ file[Policy].state = "whole" /\ Allows(file[Policy].data, req[r].q)
       \/ file[Policy].state \in {"mixed", "partial"}
    /\ Goto(r, "handle")
    /\ metric' = [metric EXCEPT !.approvals = @ + 1]

Violate(r) ==
    /\ \/ file[Policy].state = "whole" /\ ~Allows(file[Policy].data, req[r].q)
       \/ file[Policy].state \in {"mixed", "partial"}
    /\ Deny(r, "violations")

\* Mutant: a policy that does not load falls back to the built-in one.
EvaluateFailsOpen(r) ==
    /\ file[Policy].state # "whole"
    /\ Goto(r, "handle")
    /\ metric' = [metric EXCEPT !.errors = @ + 1]

\* Mutant: an evaluation error is not counted.
EvaluateFailsUncounted(r) ==
    /\ file[Policy].state # "whole" \/ "io" \in Faults
    /\ Answer(r, None, None)

EvaluateFails(r) ==
    /\ file[Policy].state # "whole" \/ "io" \in Faults
    /\ Deny(r, "errors")

Evaluate(r) ==
    /\ req[r].pc = "eval_lock" /\ mutex = None
    /\ Approve(r) \/ Violate(r) \/ EvaluateFails(r)
    /\ UNCHANGED <<file, objects, writes, mutex, kept>>

-----------------------------------------------------------------------------
(* Plugins *)

\* Encrypt for the key of the token if the plugin asks for it; a token without
\* a key is an error.  Admin requests are answered in the clear.
AnswerData(r, data) ==
    LET q == req[r].q
    IN  IF NeedsAdmin(q) \/ ~Encrypted(q)
        THEN Answer(r, data, None)
        ELSE IF TokenOf(q).key = None THEN Answer(r, None, None)
                                      ELSE Answer(r, data, TokenOf(q).key)

\* Paths that the plugin does not know, POST to nebula-ca, and errors of the
\* HSM and of nebula-cert.
HandleFails(r) ==
    LET q == req[r].q
    IN  /\ req[r].pc = "handle"
        /\ \/ q.plugin \in {"resource", "pkcs11"} /\ q.target = None
           \/ q.plugin = "nebula-ca" /\ (q.method = "POST" \/ q.target # None)
           \/ q.plugin \in {"nebula-ca", "pkcs11"} /\ "io" \in Faults
        /\ Answer(r, None, None)
        /\ UNCHANGED <<file, objects, writes, mutex, kept>>

\* sample answers a constant, nebula-ca a fresh credential.
HandleStateless(r) ==
    LET q == req[r].q
    IN  /\ req[r].pc = "handle"
        /\ \/ q.plugin = "sample"
           \/ q.plugin = "nebula-ca" /\ q.method = "GET" /\ q.target = None
        /\ AnswerData(r, Credential)
        /\ UNCHANGED <<file, objects, writes, mutex, kept>>

WriteResource(r) ==
    LET q == req[r].q
    IN  /\ req[r].pc = "handle" /\ q.target # None
        /\ q.plugin = "resource" /\ q.method = "POST"
        /\ StartWrite(r, q.target, q.data)
        /\ UNCHANGED <<file, objects, mutex, metric>>

AskResource(r) ==
    LET q == req[r].q
    IN  /\ req[r].pc = "handle" /\ q.target # None
        /\ q.plugin = "resource" /\ q.method = "GET"
        /\ Goto(r, "read")
        /\ UNCHANGED <<file, objects, writes, mutex, kept, metric>>

ReadResource(r) ==
    /\ req[r].pc = "read"
    /\ LET f == file[req[r].q.target]
       IN  IF f.state = "absent" THEN Answer(r, None, None)
                                 ELSE AnswerData(r, Content(f))
    /\ UNCHANGED <<file, objects, writes, mutex, kept>>

\* create_object adds an object; it replaces none of the same label.
WriteObject(r) ==
    LET q == req[r].q
    IN  /\ req[r].pc = "handle" /\ q.target # None
        /\ q.plugin = "pkcs11" /\ q.method = "POST"
        /\ objects' = [objects EXCEPT ![q.target] = @ \cup {q.data}]
        /\ Answer(r, None, None)
        /\ UNCHANGED <<file, writes, mutex, kept>>

\* find_objects gives the objects in an order of its own; the first is taken.
ReadObject(r) ==
    LET q == req[r].q
    IN  /\ req[r].pc = "handle" /\ q.target # None
        /\ q.plugin = "pkcs11" /\ q.method = "GET"
        /\ \/ objects[q.target] = {} /\ Answer(r, None, None)
           \/ \E o \in objects[q.target] : AnswerData(r, o)
        /\ UNCHANGED <<file, objects, writes, mutex, kept>>

-----------------------------------------------------------------------------
(* The environment *)

\* The client disconnects and actix drops the handler at an await: the mutex
\* is released, a write goes on, and the middleware is dropped with it.
Drop(r) ==
    /\ "drop" \in Faults
    /\ InFlight(r)
    /\ Goto(r, "dropped")
    /\ Release(r)
    /\ writes' =
          { IF w.by = r THEN [w EXCEPT !.by = None] ELSE w : w \in writes }
    /\ UNCHANGED <<file, objects, kept, metric>>

Serve(r) ==
    \/ Refuse(r) \/ Dispatch(r)
    \/ SetPolicyRefused(r) \/ SetPolicy(r) \/ GetPolicyLock(r) \/ GetPolicy(r)
    \/ Evaluate(r)
    \/ HandleFails(r) \/ HandleStateless(r)
    \/ WriteResource(r) \/ AskResource(r) \/ ReadResource(r)
    \/ WriteObject(r) \/ ReadObject(r)

Thread == \E w \in writes : Truncate(w) \/ Finish(w) \/ WriteFails(w)

Next ==
    /\ \/ \E r \in Reqs :
             (\E q \in scenario.asks[r] : Arrive(r, q)) \/ Serve(r) \/ Drop(r)
       \/ Thread
    /\ UNCHANGED scenario

\* Workers poll their handlers, tokio's mutex is first come first served, the
\* blocking pool runs its threads.
Fairness ==
    /\ \A r \in Reqs : SF_vars(Serve(r) /\ UNCHANGED scenario)
    /\ WF_vars(Thread /\ UNCHANGED scenario)

Spec == Init /\ [][Next]_vars
LiveSpec == Spec /\ Fairness

-----------------------------------------------------------------------------
(* Properties *)

\* Type correctness of the files, the requests and the counters.
TypeOK ==
    /\ scenario \in Scenarios
    /\ file \in [Targets -> FileState]
    /\ objects \in [Descs -> SUBSET Secrets]
    /\ writes \subseteq Write
    /\ mutex \in Reqs \cup {None}
    /\ req \in [Reqs -> ReqState]
    /\ kept \in [Targets -> Contents \cup {None}]
    /\ metric \in [Counters -> Nat]

\* A policy file that may let a query pass.
Granting(f, q) ==
    \/ f.state = "whole" /\ Allows(f.data, q)
    \/ f.state = "mixed" /\ "drop" \in Faults
    \/ f.state = "partial" /\ "io" \in Faults

\* What the answer of a request may hold.
Gated(r) ==
    req[r].data # None =>
        LET q == req[r].q
        IN  IF NeedsAdmin(q)
            THEN q.admin
            ELSE /\ Verified(TokenOf(q))
                 /\ req[r].to # None /\ req[r].to = TokenOf(q).key
                 /\ \E f \in req[r].seen : Granting(f, q)

\* Nothing leaves the broker but to an admin, or, encrypted for the key in a
\* token whose signer is trusted, to a client that a policy which was in
\* force while it was asked for allowed (api_server.rs, plugin branch).  A file
\* that mixes two policies may allow anything, as may a part of one; it takes
\* a dropped set_policy, whose thread writes on after the mutex is free, for
\* the file to be mixed, and a write that failed for it to be a part.
SecretsGated == \A r \in Reqs : Gated(r)

\* A policy or resource whose write was acknowledged, and that no other request
\* wrote meanwhile, is what its file holds until it is written again.
AcknowledgedStored ==
    \A t \in Targets : kept[t] # None => file[t] = Whole(kept[t])

\* The mutex of the policy engine is held by a live request that reads or
\* writes the policy, and nobody else does either (policy_engine/mod.rs).
PolicyExclusive ==
    /\ mutex # None => req[mutex].pc \in {"policy_read", "wait"}
    /\ \A r \in Reqs : req[r].pc = "policy_read" => mutex = r
    /\ \A w \in writes :
          w.target = Policy /\ w.by # None =>
              mutex = w.by /\ req[w.by].pc = "wait"

\* The broker's files and its mutex are consistent.
MutexWorks == TypeOK /\ PolicyExclusive

Dropped == {r \in Reqs : req[r].pc = "dropped"}

\* Every policy evaluation that has ended is counted as exactly one of an
\* approval, a violation and an error (prometheus/mod.rs), one whose handler
\* was dropped perhaps as none.
MetricsAddUp ==
    metric.evals - metric.approvals - metric.violations - metric.errors
       - Cardinality({r \in Reqs : req[r].pc = "eval_lock"})
          \in 0 .. Cardinality(Dropped)

\* Every request that arrives is answered or dropped.
RequestsEnd == \A r \in Reqs : InFlight(r) ~> ~InFlight(r)
=============================================================================
