# TLA+ verification of Trustee

Trustee is the server side of confidential computing: a key broker (KBS) that
hands out secrets to workloads which prove, through an attestation service
(AS), that they run in a trusted execution environment; the AS compares
evidence with reference values kept by the RVPS. This fork adds verifiers that
are uploaded to the AS as WebAssembly components.

The modules here model the parts in which that promise can go wrong in ways a
test hardly reaches: concurrent handlers, locks held across an `await`, files
written by threads that outlive their handler, crashes. They are translated
from the Rust source; `PROJECT.json` maps every definition to the lines it
stands for.

## The system

| Component | State | Operations | Talks to | Hard behaviour | Correct when |
|---|---|---|---|---|---|
| KBS sessions (`kbs/src/attestation`) | session map, counters | `auth`, `attest`, token lookup, purge task | AS through `verify` and `generate_challenge` | bucket of the map locked across `verify().await`; synchronous `insert`; expiry | one token per session, bound to its challenge; no lock left behind; every attest ends |
| KBS API server (`kbs/src/api_server.rs`, `admin`, `token`, `policy_engine`, `prometheus`, `local_fs.rs`) | policy file, resource files, metrics | dispatch, set/get/evaluate policy, plugin calls, middleware | sessions (token), plugins | policy mutex; unlocked resource files; dropped handlers | secrets leave only under a policy in force, encrypted; acknowledged writes stay |
| KBS plugins (`kbs/src/plugins`) | objects of a PKCS#11 token, records of a vault, CA files and temporary directories | start-up, read, write, wrap and unwrap, make a credential | token, Vault, KMS, `nebula-cert` | state outlives the broker; late writes; a child that runs on; an operator | what is served was stored under that name; wrapping round-trips; one CA; no key left behind |
| KBS back ends (`kbs/src/attestation/coco`, `intel_trust_authority`, `jwe.rs`) | connection pool, `RwLock` of the built-in AS | build the request, challenge, take the token apart, encrypt | AS, Intel Trust Authority | several pieces of evidence; key looked for at several paths | a secret is sealed to a key that a genuine CPU signed, where its verifier looks |
| AS core (`attestation-service/src/lib.rs`, `ear_token`, `policy_engine`, `rvps`, `bin`) | policy file, `RwLock`, mutex of the RVPS client | `evaluate`, policies, reference values, challenges, components | verifiers, RVPS, broker | the rego extension blocks a thread while it asks the RVPS; dropped handlers | a token says what the policy said of verified claims; every request ends |
| Wasm registry (`attestation-service/src/wasm_verifier`) | maps by id and hash, compiled copies, `<id>.wasm`, `index.json` | register, compile and look up, load at start | AS core | index persisted outside the lock, crash between steps | maps agree with each other and the disk |
| Wasm verifier components (`wasm-components`) | cache directory shared by instances | evaluate SNP and TDX evidence | AMD and Intel over HTTP | in-place rewrites, torn files, expiry | accepted evidence is endorsed and bound to the expected data |
| RVPS (`rvps/src`) | sled database or JSON file, `RwLock` | register, query | AS (built-in or gRPC) | whole-file rewrite, dropped handlers, crash | acknowledged values are served |
| Key-value storage and policy engine libraries (`deps/`) | map, directory, JSON file or table | set, get, list, delete | nobody yet | check-then-act | not used by the program |
| Native verifiers (`deps/verifier`) | none | compare report and init data, make claims | AS | each checks, ignores or shows something else | what is shown next to a device was checked |
| Event log (`deps/eventlog`) | none | parse | verifiers | formats | claims are those of the evidence |
| Tools, configuration | none | wrappers | KBS, AS | none | |

A workload sends `/auth`, gets a nonce, sends `/attest` with evidence bound to
it, and gets a token, kept in its session. With the cookie or the token it asks
a plugin for a secret; the API server verifies the token, asks the policy
engine and encrypts the answer for the key in the token.

## Modules

### `KbsSession`, `RcarHandshake`, `KbsSessionProofs`, `MCKbsSession`

`sessions` is the `scc::HashMap` of `SessionMap`, total over the session ids
(`Absent` when not there); an id is the `/auth` request that drew it. `guard`
says which `/attest` keeps a bucket locked through the entry `get_async`
returned; `sweep` is where a `retain_async` pass of the purge task is; `auth`,
`att` and `get` are the handlers with the values they carry over an await.
`WorkerOf` pins a request to an actix worker, because `insert` blocks the whole
thread. An action is what a handler does from one access of the map, or one
await, to the next: the lookup that checks expiry and nonce, the second
`get_async`, and the steps that end `verify` are separate. Clients send any id
and nonce they can know. `verify` and `generate_challenge` are external: they
succeed, fail, or the handler is dropped meanwhile.

`RcarHandshake` is the abstract protocol: a session is opened with a fresh
challenge, answered with at most one token bound to it, closed once.

### `WasmRegistry`, `WasmRegistryProofs`, `MCWasmRegistry`

`byId`, `byHash` and `compiled` are the maps of `RegistryState`; `file`,
`inode`, `tmp` and `index` are the disk: the two names of the index point to
files, so that a rename and a writer that still has the temporary file open
are told apart. Registration is lookup, create, write, insert under the lock,
then open, flush, rename without it, with an error path at each step. `Crash`
loses memory; `Restart` reads the index.

### `Rvps`, `RvStore`, `RvpsProofs`, `MCRvps`

A registration waits for the server's write lock, extracts a list of reference
values (the sample and SWID extractors are operators; an all-zero digest is
left out as in the code; the value of one is the set of its contents, which a
policy only looks up) and sets them one by one; a query holds the read lock.
sled's insert is one step. For the JSON storage the read of the file, the
truncation and the write of it are steps, and a dropped handler leaves its
thread behind. `deployment`, chosen in `Init`, says which storage is used,
what may fail and what is registered. `Intact` is where the storage keeps its
promise: sled always, JSON where nothing fails. `RvStore` is the abstract map;
its `Lose` is the one thing a storage that is not intact may do besides.

### `KbsApi`, `KbsApiProofs`, `MCKbsApi`

One request from the middleware's `inc` to its `dec`: the checks of the
dispatcher, the policy mutex, evaluation, the plugin, encryption. Files are
written in the same two steps as in `Rvps`. A rego policy is the set of
(claims, request) pairs it allows; a policy file that was truncated does not
load, one that mixes two writes, or of which a failing write left a part, may
decide anything. A token says which key it
names, whether that key is endorsed and whether the signature fits; `Verified`
is `verify` of `token/jwk.rs`. `seen` is a history of the policy files that
were there while a request asked for a decision, `kept` of what was
acknowledged. `scenario`, chosen in `Init`, says which faults happen and what
each request may ask.

### `KbsPlugins`, `KbsPluginsProofs`, `MCKbsPlugins`

`boot` walks through the configured plugins as the plugin manager does; a
plugin that fails stops the start. `token`, `vault`, `ca`, `dir` and `child`
are outside the broker and survive `Crash`, except the session objects of the
token, which is what `pkcs11.rs` creates. A write to the vault is `sent` and
arrives later, also after its handler was dropped. `nebula-cert` writes its two
files one after the other, both for the CA and for a credential, over what is
there. Nobody kills it: the child of a credential runs on when the handler is
dropped, and that of a start (`making`) when the broker crashes, so that it may
write over the CA a later start has found or made; `late` are the starts it
outlived, `gone` the CA files that were removed or overwritten so. The vault,
the KMS and the token may refuse any operation (`BackendFails`). The operator
adds and removes key pairs, records and CA files.

### `SnpVerifier`, `TdxVerifier`, `VerifierComponents`, `VerifierComponentsProofs`, `MCVerifierComponents`

The first two are the decisions of the components as operators: generation of
the processor, choice and verification of the certificate chain, TCB
extensions, report and init data (SNP); structure, collateral, status and data
(TDX). A signature says which key made it; a certificate its subject, signer
and TCB. A reply of Intel's service is a document per endpoint, which may be
missing, unsigned, for another FMSPC or DER that frames no CRL; the code caches
it before anything looks at that. AMD's service may answer with a certificate
of another chip, TCB or generation, or of somebody else.
`VerifierComponents` runs instances over one cache directory: lookup, fetch,
open (which truncates), write, verify, with a clock for expiry, failed writes,
a crash of the host, and clients that leave in the middle: the host drops the
instance, and a write it has handed to a thread still takes place
(`Orphaned`, `LateWrite`).

### `EarToken`, `KbsBackends`, `Evaluation`, `EvaluationProofs`, `MCEvaluation`

`EarToken` is the broker's arithmetic: trust claims cut to eight bits, tiers,
the numbering of submods, init-data claims. `KbsBackends` is what the KBS
makes of a token and a key: the slots of Intel's request, the paths to the
key, the algorithms of JWE and who can open a message. `Evaluation` composes
them into one attestation: `Receive` by the REST or gRPC front end or a KBS back
end, one step per piece of evidence, one per appraisal, signing, and the
delivery of a secret. `request` is chosen in `Init` from a set that holds every
form a caller may send.

What a native verifier decides beyond vendor formats is translated from
`deps/verifier`:

| Verifier | Class | Report data | Init data | Shows |
|---|---|---|---|---|
| `snp`, `tdx`, `sgx` | cpu | compared if expected | compared if expected | both |
| `az-snp-vtpm`, `az-tdx-vtpm` | cpu | required, compared | compared with a PCR; panics unless 32 bytes | both |
| `tpm` | cpu | compared if expected | as above | both |
| `cca` | cpu | required, compared | compared if expected | both |
| `csv` | cpu | compared if expected | not looked at | report data |
| `se` | cpu | ignored | not looked at | report data |
| `sample` | cpu | compared if expected; nothing is signed | not looked at | report data, and as init data what is expected |
| `sampledevice` | gpu | compared if expected; nothing is signed | not looked at | neither |
| `hygondcu` | dcu | required, compared | not looked at | neither (its report data is nested per report) |
| `nvidia` | gpu | required, compared | not looked at | neither |

Whether a device's evidence is genuine is the one thing taken as given.

### `AttestationService`, `AttestationServiceProofs`, `MCAttestationService`

The service as a server: the fair `RwLock` as a `queue`, the mutex of the RVPS
client as another one with the tasks and threads that wait for it, the policy
file with the steps of `tokio::fs::write`, which may fail and leave a torn file
(in a request or in the first start, which then gives up), worker threads of which an
evaluation blocks one while its policy asks the RVPS, the timeout of that
wait, the connection pool of the KBS. `latest` is a history of what the last
answer about the policy said, `Torn` after an error that left it so; `loose` of
the policies whose request was cut off before its answer. `deployment` tells actix (a request is
pinned to a worker) from tokio, a built-in RVPS from a remote one, and which
requests come.

## Runs

| Run | Question | Result |
|---|---|---|
| `session_safety` | locks, binding and uniqueness of tokens, session life, refinement of `RcarHandshake` | holds |
| `session_liveness` | does every `/attest` end and every expired session leave | holds when `/auth` and `/attest` are served by different workers |
| `session_panic` | is `request()` only called on a session that is not attested | no: two `/attest` with one cookie |
| `session_stuck` | does a worker ever wait for itself in `insert` | yes: a new id in the bucket that an `/attest` of the same worker keeps locked |
| `registry` | maps, files and index under concurrency, failures, a crash | holds |
| `registry_stable_id` | is a returned id known after a restart | not if two registrations persist in the wrong order |
| `rvps` | is what was acknowledged stored, is the service an atomic map, are locks released and requests answered: both storages with every fault, JSON also without | holds; for JSON with faults the map may lose values |
| `api` | who gets a secret, what stays of a write, is every evaluation counted once, is every request answered, when writes fail, perhaps half-way, and clients go away | holds |
| `plugins` | is what is served what was stored, does wrapping round-trip, are credentials and the CA consistent, across restarts, drops, failing back ends and changes by an operator | holds; a `nebula-cert ca` that outlived its start may replace a CA |
| `verifiers` | is accepted evidence endorsed, bound and current, do the caches recover | holds: the TDX cache heals from all but a misleading reply, the SNP cache does not heal |
| `evaluation` | what a token and a released secret rest on, from request to answer | holds, with the exceptions for IBM SE and the sample that the properties name |
| `attestation_service` | is a policy read as the last answer about it said, does every request end, when writes and starts fail, handlers are dropped and the service crashes | holds, unless a write was cut off before its answer |

`PROJECT.json` quotes, for each run with a negative result, the line of a
comment or document that says otherwise. The models also show behaviours of
the code that no run is about, or that a property states as they are:

- with the JSON storage of the RVPS a crash between truncating and writing, or
  a dropped handler whose thread writes late, loses acknowledged values (hence
  `Intact`); an expired reference value is still served;
- a `set_policy` of the KBS whose client went away may overwrite a later
  policy;
- the gauge of active connections counts every dropped handler for ever
  (`ActiveIsInFlight` in `KbsApiProofs`), while its help text says "Count of
  HTTP connections being processed at the moment" (`prometheus/mod.rs:142`);
- a PKCS#11 resource that is written again may go on being served with its
  first content, and all of them are lost when the broker restarts;
- a Nebula CA of which a crash left one file is neither completed nor replaced
  by a start (`CaIsKept`); a `nebula-cert ca` that outlives the crash may
  replace the CA of the next start, so that credentials handed out before do
  not verify under it;
- a VCEK file that a crash left short stays as it is, and every later
  evaluation for that chip fails until somebody removes it (`VcekFilesStay`);
  so does a wrong certificate that was answered in its place;
- a collateral with a wrong signature or for another FMSPC is cached as it
  came and refuses genuine quotes until its TCB info wants an update
  (`TdxHeals` names the case);
- a crash or a failing write in the first start of the AS may leave a default
  policy cut short, which later starts keep (`PoliciesWhole`);
- while a policy waits for the RVPS under actix, the task that holds the mutex
  it needs may be on the very worker it blocks; only the timeout ends this;
- the verifier for IBM SE ignores the expected report data and still has a
  `report_data` claim, so a token shows runtime data, the key of the workload
  among them, that no device signed; the sample shows init data it never
  compared. A comment at `broker.rs:337-339` takes either claim for the sign
  that the data were validated, and the contract of `evaluate`
  (`deps/verifier/src/lib.rs:206-208`) asks verifiers to compare them.
  `ClaimsAreBound`, `KeyAttested` and `NoMixAndMatch` except those two;
- init data whose hash has not 32 bytes panics the handler of a vTPM request
  (`PiecePanics`).

Several invariants are conjunctions of named parts that belong together:
`StateAgrees` and `DiskAgrees` of the registry, `LocksWork` of the RVPS,
`MutexWorks` of the API server, `QueuesWork` of the attestation service,
`NebulaWork` of the plugins,
`AcceptedAreBound` of the verifiers, `TokenComplete` of the evaluation. One part
of each structural one is the module's `TypeOK`.

Every property has a mutant in `PROJECT.json`: a definition, kept next to the
one it changes and marked `Mutant:`, with which TLC finds the property
violated.

### Bounds

The proofs remove these bounds for the properties named there; the runs are
what liveness, the evaluation and the mutants rest on.

- Sessions: two sessions, two `/attest`, one lookup, one bucket, two nonces, a
  session life of 0 and a clock up to 1. Every race in the handler is between
  two requests on one session, or on two sessions in one bucket.
- Registry: three registrations of two accepted components and a refused one,
  one evaluation, one crash. Two registrations of the same bytes race, while a
  third one persists; a second crash starts from a state that one reaches.
- RVPS: two clients, two names, six kinds of messages (two values at once, zero
  digests, wrong version, unknown type, malformed), or two that store where
  JSON meets faults; one crash, one thread left behind. A race is between a
  registration and another, a query, or a thread left behind.
- API: three requests, one resource path with two contents, two policies, six
  kinds of token. Three are needed for a write, a change of policy and a read.
- Plugins: three requests, one restart, two changes by the operator, seven
  configurations, each with one plugin or two. Two writes and a read are needed
  for a late write; a wrap, a restart and an unwrap for the pair. Nebula gets
  two requests (`NebulaBound`): two children of `nebula-cert` are enough to mix
  up files, and the proof has no such bound.
- Verifiers: a host without cache, every kind of evidence and of foreign
  certificate; one with a cache and every kind of reply; and two instances with
  a crash, a forged certificate, and replies that are good, framed wrongly or
  for another FMSPC. Clients leave at any point. Fields of one or two units, so
  that data can be shorter, equal and longer; a clock up to 3.
- Evaluation: one request at a time, because nothing it computes is shared;
  about every decoding, evidence of every TEE, up to three devices, and `IndexMod = 2` in place of 256
  so that the index reaches its end.
- Attestation service: three requests on two workers, two of them on one, a
  pool of two connections, one drop, one crash: a holder of the RVPS mutex, a
  thread that waits for it on the same worker and a third party. A policy asks
  the RVPS at most once in an evaluation; a second question is the same race.

### Fairness

Runs over `Spec` assume none. Those over `LiveSpec` (and `session_liveness`)
assume that the executor polls a handler
that can go on and the blocking pool runs the threads it was given (weak
fairness); that tokio's `Mutex` and `RwLock` serve waiters in the order they
came (strong fairness of the step that takes the lock; in
`AttestationService` the queues are in the model and weak fairness is enough);
that a wait with a timeout ends; that `verify` and
`generate_challenge` return, and the purge task wakes and time passes up to
the bound. Nothing is assumed about clients: no request has to arrive or to be
dropped. In `session_liveness` `/auth` runs on another worker than `/attest`;
`session_stuck` shows why that is needed. Runs that switch deadlock checking
off are those in which every request of the instance may have been served.

## Proofs

Eight modules `…Proofs` extend the module they are about and prove its
invariants and action properties for every value of the constants: any number
of requests, workers, buckets, names, components, devices and instances, any
content of requests and replies, any number of crashes. In each, all follows
from one theorem `Invariance: Spec => []IndInv`. `IndInv` was checked by TLC
on the instance of the module's run before it was proved. `Invariance` has one
lemma per action, or per kind of step, and in it one step per conjunct that the
action disturbs; what an assignment makes of a record comes before the
conjuncts that need it.

| Module | Proved | Run |
|---|---|---|
| `KbsSessionProofs` | `TypeOK`, `GuardOwnedByVerifier`, `VerifyingSessionIsAuthed`, `TokenBoundToSession`, `OneTokenPerSession`, `SessionsOnlyAdvance`, `ImplementsRcar` | `session_safety` |
| `WasmRegistryProofs` | `StateAgrees`, `DiskAgrees` | `registry` |
| `RvpsProofs` | `LocksWork`, `KeptAreStored`, `ImplementsStore` | `rvps` |
| `KbsApiProofs` | `MutexWorks`, `SecretsGated`, `AcknowledgedStored`, `MetricsAddUp` | `api` |
| `AttestationServiceProofs` | `QueuesWork`, `PoliciesWhole` | `attestation_service` |
| `KbsPluginsProofs` | `StoredIsServed`, `WrapRoundTrip`, `CredentialsAreOwn`, `CaIsKept`, `NebulaWork` | `plugins` |
| `VerifierComponentsProofs` | `SnpEndorsed`, `AcceptedAreBound`, `TdxHeals`, `AcceptedAreCurrent`, `VcekFilesStay` | `verifiers` |
| `EvaluationProofs` | `TokenComplete`, `ClaimsAreBound`, `KeyAttested`, `NoMixAndMatch`, `ItaSeesAll` | `evaluation` |

The assumptions are the named `ASSUME`s of the modules, which TLC evaluates in
every run: requests of different kinds differ, `None` and `Torn` are none of
the values, bounds are numbers, sets that are counted are finite, and what a
deployment, a scenario or a host may bring has the shape the code's types give
it (a query names a plugin, a reply of Intel holds lists in one of the modelled
forms, a certificate table is a list, evidence that parses is a list of devices
and of one device for Intel Trust Authority unless it is a GPU, an object that
a policy answers with has no name twice). Nothing is assumed about the order of
steps, about fairness, or about what clients send within those types.

### Why the invariants are what they are

*Sessions.* Even type correctness is not inductive by itself: the token that
`VerifyOk` makes is well typed only because a request in `verify` has the nonce
and the TEE of an opened session (`AttestProgress`). That the session under
verification is still `Authed` needs the guard (only its owner may change it,
the purge waits) and that a session agrees with the `/auth` that made it
(`SessionFromAuth`). `OneTokenPerSession` speaks of tokens whose session may
already be gone, so it needs a memory: every token in a session or an answer
was issued to some request with that cookie (`SessionTokenIssued`,
`AnswerTokenIssued`), a session for which one was issued is attested with it or
has left the map (`IssuedIsKept`), and so at most one verification succeeds for
a session (`OneIssuer`). The refinement maps a session to a slot of
`RcarHandshake`, of which only the opening, the one token and the removal are
steps; everything else the broker does is a stutter, and `IndInv` shows that
the challenge of a slot is fresh when it is opened and unchanged afterwards.

*Registry.* That an id a client was given, or an index on disk, names a whole
file is a fact about indexes that were cloned and are still on their way:
`IndexesAreSound` says it of the index in memory, of every clone a registration
carries and of every file a clone was written to, whichever name points to it.
It rests on `RegProgress` (past the insertion the file is never opened again).

*RVPS.* `FileIsKept` describes the file while a thread rewrites it: empty
exactly between truncation and write, and what the thread will write has every
value that must stay. It needs that a handler waits for one thread
(`OneThreadEach`), which the write lock and the absence of dropped handlers
give where `Intact` holds. The refinement of `RvStore` takes the map to be
changed when the file is truncated, since nobody can read it before it is
filled, so the write is a stutter; a deployment that is not `Intact` may take
`Lose`.

*API server.* `SecretsGated` needs the history `seen`: between the decision and
the answer the policy file may be replaced, so what is invariant is that a
policy that was in force while the request asked let it pass, and
`ReqProgress` carries that fact from point to point. Where a `set_policy` was
dropped its thread may still be writing, a later one mixes with it, and the
mixed file may allow anything; so may a part that a failing write left. The
property says so, and `PolicyUnmixed` and `PolicyComplete` show that without
drops no file is ever mixed and without failing writes none is in part.
`CountsAddUp` is a statement about cardinalities, for the counters of the
policy engine (`MetricsAddUp`) and the gauge (`ActiveIsInFlight`): one request
moves, so the number at a set of program points changes by that one.

*Attestation service.* The two queues are sequences of owners; `PlacesAreOwned`
needs that a request spawns one thread at most and that nothing is queued in a
service that is down. `FileFits` ties the policy file to the request that
holds the write lock: while that has no answer the file holds what it writes
or nothing, else what the last answer said, and beside that only what is
`loose`. It needs that every write under way is of a handler that waits for it
or loose, and that one which another disturbed left something loose
(`WritesAreOwned`), and what a request carries at each point, `Torn` once its
write has failed (`SetsPolicy`).

*Plugins.* One conjunct per store: the vault holds what is kept and no write of
it is under way (`VaultInv`), the token only what was sent for that label
(`TokenInv`), the pair that wraps is the one that unwraps while nobody touches
it (`PairInv`), and a start makes a CA only where there is none, or one that
was written late (`CaInv`). Whoever signed a credential had a key then
(`Signer`), and once its certificate was verified both files (`Whole`); they are
still there, or were removed, or a `nebula-cert` that outlived its start took
their place. `StoredIsServed` is proved also for secrets that were in the token
before the broker.

*Verifier components.* The invariant is about one instance and the file of its
key: an instance at work has the key that its own evidence gives, what it holds
is what the service, the evidence or the cache gave it (`Holds`), and a file
under a TDX key is unreadable or a reply that was kept, right or not
(`FileInv`). A collateral from the cache was fresh at the time its instance
took, which is not later than the clock (`Times`). A certificate is worth
nothing until its chain is verified, so nothing is said of VCEK files.
`SnpEndorsed` then is a lemma about chains (the last ARK of a table is
signed by the compiled-in one and by itself, so it has that key), and
`AcceptedAreBound` the injectivity of padding for any length.

*Evaluation.* The properties are about a token, and what makes them true
happened several steps before, to a piece of evidence that is gone by then; the
invariant says it of everything on the way. Pieces still to be verified are the
pieces that were asked for, changed at most in their init data (`TodoInv`).
Claims of the caller that will be shown with a device were signed by it
(`ReportBound`, `InitBound`), except by IBM SE and the sample, whose verifiers
show what they did not compare; for the KBS a CPU among the devices of the
request signed its key and nonce, if none of them is of SE (`SignedKey`): a key
is shown only with a `report_data` claim, and the verifiers that have one look
at CPUs. A submod is about the device at its place, and
its index is the number of earlier devices of its class modulo the range of the
index (`AppraisedInv`); as long as the range suffices the numbers of a class
differ, so no submod replaces another, and counting a bijection gives
`TokenComplete`. `NoMixAndMatch` needs that the primary piece is the first
(`PrimaryInv`), `ItaSeesAll` that a piece is still to be collected or in its slot
(`CollectInv`), which another piece of the same kind could take. That the list
made of the additional evidence, in whatever order, has all of it is the
pigeonhole principle.

### Only model-checked

- Liveness: `AttestEnds`, `ExpiredArePurged` of the sessions, `RequestsEnd` of
  the RVPS and the API server, `EveryRequestEnds` of the attestation service.
  The prover has no rules for fairness and `ENABLED`.
- The three runs that expect a violation: each is a behaviour, not a theorem.

## Not modelled

- Cryptography, formats and parsing: the vendors' evidence formats in
  `deps/verifier`, event log, X.509, JWT, ciphers of JWE. Their result is a
  value that is well-formed, genuine, endorsed, signed or sealed by a key, or
  not. For SNP and TDX the checks behind "genuine" are modelled in their
  WebAssembly form.
- `deps/key-value-storage` and `deps/policy-engine`: the program uses neither.
- External programs and services: the token, Vault, KMS, `nebula-cert`, Intel
  Trust Authority, AMD's and Intel's provisioning services, the rego engine and
  wasmtime are modelled by how the code uses them.
- Histograms, TLS, routes, configuration files, tools, tests.

Atomicity is that of awaits and locks: a read of a small file is one step.

## Plan

1. Sessions, registry, RVPS, API server, plugins, attestation service, verifier
   components and evaluation: modelled, checked, every safety invariant and
   action property proved; sessions and RVPS also refine their abstract
   specifications.
2. The key-value storage library against one abstract store, once the program
   uses it.
