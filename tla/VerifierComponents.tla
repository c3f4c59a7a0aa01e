------------------------- MODULE VerifierComponents -------------------------
(***************************************************************************)
(* Instances of the WebAssembly verifier components at work.  The host     *)
(* starts one instance per request; instances of a component run at the    *)
(* same time and share one cache directory, in which files are rewritten   *)
(* in place.  An SNP instance may need a VCEK, a TDX instance needs a      *)
(* collateral: each from the cache, or else over HTTP and then into the    *)
(* cache.  What is checked against it is SnpVerifier and TdxVerifier.      *)
(***************************************************************************)
EXTENDS Integers, Sequences

CONSTANTS
    None, Torn,     \* no value, a file or body that does not parse
    Instances,      \* the component instances
    Setups,         \* the hosts: a sequence of records [cached, intel,
                    \* instances, inputs, bodies, replies, crashes], where
                    \* bodies is what may come with status 200 instead of
                    \* a VCEK, and replies what may come from Intel's
                    \* provisioning service
    MaxTime,        \* bound on the clock
    ReportDataLen, HostDataLen, ConfigIdLen     \* of the fields, in units

INSTANCE SnpVerifier
INSTANCE TdxVerifier

\* The VCEK that AMD issues for a URL.
Vcek(url) ==
    [subject |-> url, signer |-> [gen |-> url.gen, role |-> "ASK"],
     cn |-> "VCEK", spl |-> url.spl,
     hwid |-> IF url.gen = "Turin" THEN Append(url.hwid, 0) ELSE url.hwid]

\* What the host hands to an instance.
SnpEvidence(evidence) ==
    /\ evidence.chain # None =>
          /\ Len(evidence.chain) \in Nat
          /\ DOMAIN evidence.chain = 1 .. Len(evidence.chain)
    /\ evidence.report # None =>
          \A gen \in Generations : Vcek(VcekUrl(evidence.report, gen)) # None

InputShape(kind, evidence, expected) ==
    /\ kind \in {"snp", "tdx"} /\ evidence # None
    /\ kind = "snp" => SnpEvidence(evidence)
    /\ \A datum \in {"report_data", "init_data"} :
          expected[datum] = None \/ expected[datum] \in Seq({0, 1})

\* What the provisioning service of Intel answers.
ReplyShape(reply) ==
    /\ {reply.pck, reply.pck_pem, reply.root, reply.crl_dp}
          \subseteq CrlForms \cup {None}
    /\ reply.tcb # None => reply.tcb.next \in Nat \cup {None}
    /\ reply.qe # None => reply.qe.next \in Nat \cup {None}

ASSUME BoundsAssumption ==
    /\ MaxTime \in Nat
    /\ {ReportDataLen, HostDataLen, ConfigIdLen} \subseteq Nat \ {0}

ASSUME SetupAssumption ==
    /\ Torn # None /\ None \notin CrlForms \cup Generations
    /\ None \notin Seq({0, 1})
    /\ \A s \in DOMAIN Setups :
          /\ \A x \in Setups[s].inputs :
                InputShape(x.kind, x.evidence, x.expected)
          /\ \A reply \in Setups[s].replies : ReplyShape(reply)
          /\ None \notin Setups[s].bodies

VARIABLES
    setup,      \* which of the hosts this is
    inst,       \* what each instance is doing
    file,       \* the cache directory: key -> content, of what was written
    clock,
    crashes

vars == <<setup, inst, file, clock, crashes>>
env == <<setup, clock, crashes>>

-----------------------------------------------------------------------------
(* State. *)

\* An instance: its evidence and what is expected of it; the time it took
\* before it looked into the cache; the cache file it works with; the VCEK or
\* collateral it got, and whether a collateral is from the cache; whether
\* this evaluation met a failure of its own; the answer and its claims.
Idle == [pc |-> "idle", kind |-> None, evidence |-> None, expected |-> None,
         now |-> 0, key |-> None, got |-> None, hit |-> FALSE,
         failed |-> FALSE, claims |-> None]

\* "late": the instance is gone, but not the call of the host that it made.
Pcs == {"idle", "read", "fetch", "open", "write", "verify", "accepted",
        "refused", "trapped", "late"}

Host == Setups[setup]
Answered(i) == inst[i].pc \in {"accepted", "refused", "trapped"}

File(key) == IF key \in DOMAIN file THEN file[key] ELSE None
Store(key, content) ==
    file' = [k \in DOMAIN file \cup {key} |->
                IF k = key THEN content ELSE file[k]]

Init ==
    /\ setup \in DOMAIN Setups
    /\ inst = [i \in Instances |-> Idle]
    /\ file = [k \in {} |-> None]
    /\ clock = 0
    /\ crashes = 0

Goto(i, pc) == inst' = [inst EXCEPT ![i].pc = pc]
Got(i, pc, got) == inst' = [inst EXCEPT ![i].pc = pc, ![i].got = got]

\* Where an instance that needs a VCEK or a collateral goes first.
Lookup == IF Host.cached THEN "read" ELSE "fetch"
Keep == IF Host.cached THEN "open" ELSE "verify"

-----------------------------------------------------------------------------
(* SNP. *)

Generation(i) == ProcessorGeneration(inst[i].evidence.report)

\* The verdict once the endorsement key is known and its chain verified.
SnpVerdict(report, vek, gen, expected) ==
    IF report.signer = vek.subject /\ TcbPanics(report, vek, gen)
    THEN "trapped"
    ELSE IF SnpReportVerifies(report, vek, gen, expected)
    THEN "accepted" ELSE "refused"

\* A report that came with certificates needs nothing else.
SnpStart(i, input) ==
    LET report == input.evidence.report
        chain == input.evidence.chain
        gen == IF report = None THEN None ELSE ProcessorGeneration(report)
        begun == [Idle EXCEPT !.kind = "snp", !.evidence = input.evidence,
                              !.expected = input.expected]
        provided == chain # None /\ gen # None
        vek == ProvidedVek(chain)
    IN  /\ inst[i].pc = "idle"
        /\ inst' = [inst EXCEPT ![i] =
             IF ~SnpEarlyChecks(report) THEN [begun EXCEPT !.pc = "refused"]
             ELSE IF provided /\ ProvidedChainVerifies(gen, chain)
             THEN [begun EXCEPT
                     !.pc = SnpVerdict(report, vek, gen, input.expected),
                     !.got = vek, !.claims = parse_tee_evidence(report)]
             ELSE IF provided \/ ~HasVcekUrl(report, gen)
             THEN [begun EXCEPT !.pc = "refused"]
             ELSE [begun EXCEPT !.pc = Lookup, !.key = VcekUrl(report, gen)]]
        /\ UNCHANGED <<env, file>>

\* Mutant: a file that is no certificate is fetched again.
SnpReadParses(i) ==
    /\ inst[i].pc = "read" /\ inst[i].kind = "snp"
    /\ IF File(inst[i].key) \in {None, Torn}
       THEN Goto(i, "fetch")
       ELSE Got(i, "verify", File(inst[i].key))
    /\ UNCHANGED <<env, file>>

\* Whatever the file holds is taken.
SnpRead(i) ==
    /\ inst[i].pc = "read" /\ inst[i].kind = "snp"
    /\ IF File(inst[i].key) = None
       THEN Goto(i, "fetch")
       ELSE Got(i, "verify", File(inst[i].key))
    /\ UNCHANGED <<env, file>>

\* AMD answers with the VCEK, or somebody answers 200 with something else:
\* another certificate, or none.
SnpFetch(i) ==
    /\ inst[i].pc = "fetch" /\ inst[i].kind = "snp"
    /\ \E body \in {Vcek(inst[i].key), Torn} \cup Host.bodies :
          Got(i, Keep, body)
    /\ UNCHANGED <<env, file>>

SnpFetchFails(i) ==
    /\ inst[i].pc = "fetch" /\ inst[i].kind = "snp"
    /\ Goto(i, "refused")
    /\ UNCHANGED <<env, file>>

SnpVerify(i) ==
    LET report == inst[i].evidence.report
        vcek == inst[i].got
    IN  /\ inst[i].pc = "verify" /\ inst[i].kind = "snp"
        /\ inst' = [inst EXCEPT
             ![i].pc = IF vcek # Torn
                          /\ FetchedChainVerifies(Generation(i), vcek)
                       THEN SnpVerdict(report, vcek, Generation(i),
                                       inst[i].expected)
                       ELSE "refused",
             ![i].claims = parse_tee_evidence(report)]
        /\ UNCHANGED <<env, file>>

-----------------------------------------------------------------------------
(* TDX. *)

TdxStart(i, input) ==
    LET begun == [Idle EXCEPT !.kind = "tdx", !.evidence = input.evidence,
                              !.expected = input.expected]
    IN  /\ inst[i].pc = "idle"
        /\ inst' = [inst EXCEPT ![i] =
             IF TdxParses(input.evidence)
             THEN [begun EXCEPT !.pc = Lookup, !.now = clock,
                                !.key = cache_key(input.evidence.quote)]
             ELSE [begun EXCEPT !.pc = "refused"]]
        /\ UNCHANGED <<env, file>>

\* A file that does not parse, or was too old when the instance took the
\* time, is as good as none.
TdxRead(i) ==
    LET collateral == read_cache(File(inst[i].key), Torn)
        use == IF collateral = None THEN FALSE
               ELSE cached_collateral_is_fresh(collateral, inst[i].now)
    IN  /\ inst[i].pc = "read" /\ inst[i].kind = "tdx"
        /\ IF use
           THEN inst' = [inst EXCEPT ![i].pc = "verify", ![i].hit = TRUE,
                                     ![i].got = collateral]
           ELSE Goto(i, "fetch")
        /\ UNCHANGED <<env, file>>

\* Whatever the reply is, it is kept before the quote is judged by it.
TdxFetch(i, reply) ==
    LET collateral == fetch_collateral_uncached(reply, Host.intel)
    IN  /\ inst[i].pc = "fetch" /\ inst[i].kind = "tdx"
        /\ inst' = [inst EXCEPT
             ![i].pc = IF collateral = None THEN "refused" ELSE Keep,
             ![i].got = collateral,
             ![i].failed = IF collateral = None THEN TRUE
                           ELSE ~CollateralFits(inst[i].evidence.quote,
                                                collateral)]
        /\ UNCHANGED <<env, file>>

TdxVerify(i) ==
    LET evidence == inst[i].evidence
        collateral == inst[i].got
    IN  /\ inst[i].pc = "verify" /\ inst[i].kind = "tdx"
        /\ inst' = [inst EXCEPT
             ![i].pc = IF TdxVerifies(evidence, collateral, inst[i].expected)
                       THEN "accepted" ELSE "refused",
             ![i].claims = TdxClaims(evidence, collateral, clock)]
        /\ UNCHANGED <<env, file>>

-----------------------------------------------------------------------------
(* The cache directory: std::fs::write empties the file and then fills it. *)

Open(i) ==
    /\ inst[i].pc = "open"
    /\ Goto(i, "write")
    /\ Store(inst[i].key, Torn)
    /\ UNCHANGED env

\* Over what another instance wrote in between, only the start is replaced.
Write(i) ==
    LET now == File(inst[i].key)
    IN  /\ inst[i].pc = "write"
        /\ Goto(i, "verify")
        /\ \/ Store(inst[i].key, inst[i].got)
           \/ /\ now \notin {Torn, inst[i].got}
              /\ Store(inst[i].key, Torn)
        /\ UNCHANGED env

\* SNP warns, TDX gives up.
WriteFails(i) ==
    /\ inst[i].pc \in {"open", "write"}
    /\ inst' = [inst EXCEPT
         ![i].pc = IF inst[i].kind = "snp" THEN "verify" ELSE "refused",
         ![i].failed = TRUE]
    /\ UNCHANGED <<env, file>>

-----------------------------------------------------------------------------
(* The host. *)

\* The instance has answered, or its client has left while it read or
\* fetched, and is dropped.
Dropped(i) ==
    /\ Answered(i) \/ inst[i].pc \in {"read", "fetch"}
    /\ inst' = [inst EXCEPT ![i] = Idle]
    /\ UNCHANGED <<env, file>>

\* The client leaves while the host opens or writes a file in one of its
\* threads, which goes on without the instance.
Orphaned(i) ==
    /\ inst[i].pc \in {"open", "write"}
    /\ Got(i, "late", IF inst[i].pc = "open" THEN Torn ELSE inst[i].got)
    /\ UNCHANGED <<env, file>>

\* The thread ends, with or without having changed the file.
LateWrite(i) ==
    /\ inst[i].pc = "late"
    /\ inst' = [inst EXCEPT ![i] = Idle]
    /\ \/ UNCHANGED file
       \/ \E content \in {inst[i].got, Torn} : Store(inst[i].key, content)
    /\ UNCHANGED env

\* The attestation service crashes and starts again.
Crash ==
    /\ crashes < Host.crashes
    /\ crashes' = crashes + 1
    /\ inst' = [i \in Instances |-> Idle]
    /\ UNCHANGED <<setup, file, clock>>

Tick ==
    /\ clock < MaxTime
    /\ clock' = clock + 1
    /\ UNCHANGED <<setup, inst, file, crashes>>

Start(i) ==
    /\ i \in Host.instances
    /\ \E input \in Host.inputs :
          IF input.kind = "snp" THEN SnpStart(i, input) ELSE TdxStart(i, input)

Next ==
    \/ \E i \in Instances :
          \/ Start(i)
          \/ SnpRead(i) \/ SnpFetch(i) \/ SnpFetchFails(i) \/ SnpVerify(i)
          \/ TdxRead(i) \/ TdxVerify(i)
          \/ \E reply \in Host.replies : TdxFetch(i, reply)
          \/ Open(i) \/ Write(i) \/ WriteFails(i)
          \/ Dropped(i) \/ Orphaned(i) \/ LateWrite(i)
    \/ Crash
    \/ Tick

Spec == Init /\ [][Next]_vars

-----------------------------------------------------------------------------
(* Properties. *)

\* Types: an instance that works or has answered knows what it works on, and
\* only a Turin report without fmc traps.
TypeOK ==
    /\ setup \in DOMAIN Setups /\ clock \in 0..MaxTime
    /\ \A i \in Instances :
         /\ DOMAIN inst[i] = DOMAIN Idle /\ inst[i].pc \in Pcs
         /\ inst[i].pc = "idle" <=> inst[i].evidence = None
         /\ inst[i].pc = "trapped"
               => /\ inst[i].kind = "snp" /\ Generation(i) = "Turin"
                  /\ inst[i].evidence.report.tcb.fmc = None
    /\ \A k \in DOMAIN file : file[k] # None

\* Every certificate an SNP instance may have seen.
Seen(i) ==
    LET vendor == VendorCertificates[Generation(i)]
        chain == inst[i].evidence.chain
    IN  {vendor.ask, vendor.asvk, inst[i].got} \cup
        (IF chain = None THEN {} ELSE {chain[k].cert : k \in DOMAIN chain})

\* An SNP report is accepted only if the key that signed it is certified, by
\* a path through one intermediate certificate, by the ARK of its very
\* generation that is compiled in, and for its very TCB and, if it is a VCEK,
\* its very chip: whatever chain the evidence brought along, whatever a
\* crash, another instance or a wrong reply left in the cache, and whatever
\* certificate was answered in the place of the VCEK.
SnpEndorsed ==
    \A i \in Instances :
        inst[i].kind = "snp" /\ inst[i].pc = "accepted" =>
            LET report == inst[i].evidence.report
                root == [gen |-> Generation(i), role |-> "ARK"]
            IN  \E vek, ask \in Seen(i) :
                    /\ report.signer = vek.subject /\ vek.signer = ask.subject
                    /\ ask.signer = root
                    /\ \A oid \in SplOids : vek.spl[oid] = report.tcb[oid]
                    /\ vek.cn = "VCEK" => vek.hwid = report.chip

\* The field that data of a kind is bound by, and its length.
BoundLen(kind, datum) ==
    IF datum = "report_data" THEN ReportDataLen
    ELSE IF kind = "snp" THEN HostDataLen ELSE ConfigIdLen

\* What else the caller could have expected of the same length.
Others(data) == [DOMAIN data -> {0, 1}] \ {data}

\* Evidence is accepted for one datum of a length only: no other report data
\* or init data that fits the field would have been accepted in its place,
\* padding and the other datum being what they are.
Binding ==
    \A i \in Instances : inst[i].pc = "accepted" =>
        \A datum \in {"report_data", "init_data"} :
            LET data == inst[i].expected[datum]
                field == inst[i].claims[datum]
                len == BoundLen(inst[i].kind, datum)
            IN  data # None => \A other \in Others(data) :
                    Len(data) <= len =>
                        IF inst[i].kind = "snp"
                        THEN ~SnpBinds(other, field, len)
                        ELSE ~TdxBinds(other, field, len)

\* An instance works on what it was given and accepts it for one datum only.
AcceptedAreBound == TypeOK /\ Binding

\* Collaterals that the provisioning service may send and that are not the
\* quote's, although their lists look like DER.
Misleading(quote) ==
    {c \in {fetch_collateral_uncached(reply, Host.intel) :
                reply \in Host.replies} \ {None} :
        Framed(c) /\ ~CollateralFits(quote, c)}

\* What a quote would have to be judged by.
Fitting(quote) ==
    [tcb |-> [signed |-> TRUE, fmspc |-> quote.fmspc],
     qe |-> [signed |-> TRUE], pck_crl |-> "der", root_ca_crl |-> "der"]

\* The TDX cache heals itself, but for one case.  A genuine quote that says
\* what is expected is refused only when this evaluation itself failed to
\* fetch or to write a collateral that fits, or when the cache held a
\* misleading reply of the service, whole, as an earlier evaluation had kept
\* it unverified: never for what a crash, a client that left, a reply whose
\* lists are no DER or another instance that is just writing has left there.
TdxHeals ==
    \A i \in Instances :
        inst[i].kind = "tdx" /\ inst[i].pc = "refused" /\ ~inst[i].failed =>
            LET evidence == inst[i].evidence
            IN  /\ TdxParses(evidence)
                /\ TdxVerifies(evidence, Fitting(evidence.quote),
                               inst[i].expected)
                => inst[i].hit /\ inst[i].got \in Misleading(evidence.quote)

\* How old a collateral may be that a quote was accepted by, although the
\* time is taken before the cache is read, and again when the quote is judged.
\* The TCB info of one from the cache wanted no update when the evaluation
\* took the time first; and unless the claims say collateral_expired, neither
\* did the QE identity, which the cache never looks at.
AcceptedAreCurrent ==
    \A i \in Instances :
        inst[i].kind = "tdx" /\ inst[i].pc = "accepted" =>
            LET tcb == inst[i].got.tcb
                qe == inst[i].got.qe
            IN  /\ inst[i].hit => tcb.next # None /\ inst[i].now <= tcb.next
                /\ ~inst[i].claims.collateral_expired =>
                      \A next \in {tcb.next, qe.next} :
                         next # None => inst[i].now <= next

\* Nobody who could still replace the file of an SNP instance is under way.
Settled(key) ==
    \A i \in Instances :
        inst[i].key = key => inst[i].pc \notin {"fetch", "open", "write", "late"}

\* The SNP cache does not heal: the file of a VCEK, once nobody who could
\* replace it is under way, stays what it is, be that a VCEK, another
\* certificate or the rest of a write that a crash, a failure or a client
\* that left cut short; no instance that needs this VCEK ever asks AMD again.
VcekFilesStay ==
    [][\A key \in DOMAIN file :
         "hwid" \in DOMAIN key /\ Settled(key) =>
            file'[key] = file[key] /\ Settled(key)']_vars
=============================================================================
