----------------------------- MODULE Evaluation -----------------------------
(***************************************************************************)
(* One attestation from end to end: what a front end of the attestation    *)
(* service or a back end of the KBS makes of a request, the verification   *)
(* of its pieces of evidence, the appraisal of every device, the token,    *)
(* and for the KBS the key in the token and the secret encrypted to it.    *)
(* EarToken and KbsBackends hold what these steps compute.                 *)
(*                                                                         *)
(* A device signs one report datum and one init datum.  Which of them a    *)
(* verifier compares with what it is told to expect, and which it shows,   *)
(* differs from TEE to TEE (deps/verifier).                                *)
(***************************************************************************)
EXTENDS Integers, Sequences, FiniteSets, SequencesExt

CONSTANTS
    None, Bad, NotText,     \* no value, undecodable text, a wrong JSON type
    ClaimNames,             \* the claims of a trust vector
    Requests,               \* what may be asked, and of which deployment
    PolicyResults,          \* what a policy may answer
    Registered,             \* the components known by an id: id -> component
    IndexMod,               \* the range of the index of a class, 256 for u8
    ExtraPaths              \* the configured paths to a key

INSTANCE EarToken
INSTANCE KbsBackends

\* s is a sequence of something.
IsSeq(s) == s \in Seq({s[i] : i \in DOMAIN s})

ASSUME EvaluationAssumption ==
    /\ IndexMod \in Nat \ {0}
    /\ None \notin DOMAIN Registered
    /\ IsSeq(ExtraPaths)

VARIABLES
    request,    \* the request that is served
    pc,         \* where it is
    todo,       \* the pieces of evidence still to be looked at
    claims,     \* TeeClaims of every device that was verified
    appraised,  \* the submods that were inserted, in order
    slots,      \* the request to Intel Trust Authority
    azure,      \* how often "/azure" was appended to its URL
    token,
    message     \* the answer: a challenge, or what is released

vars == <<request, pc, todo, claims, appraised, slots, azure, token, message>>

Pcs == {"received", "verify", "issue", "sign", "collect", "deliver",
        "done", "failed", "panicked"}

\* No slot is filled, no token and no answer is there.
NoSlots == [s \in {} |-> None]
NoToken == [f \in {} |-> None]
NoMessage == [f \in {} |-> None]

Init ==
    /\ request \in Requests /\ pc = "received"
    /\ todo = <<>> /\ claims = <<>> /\ appraised = <<>>
    /\ slots = NoSlots /\ azure = 0
    /\ token = NoToken /\ message = NoMessage

\* The handler returns an error, or unwinds.
End(how) ==
    /\ pc' = how
    /\ UNCHANGED <<request, todo, claims, appraised, slots, azure, token,
                   message>>

-----------------------------------------------------------------------------
(* Front ends of the attestation service.  A piece is a record of tee,     *)
(* evidence (a sequence of devices), runtime, alg, init, component and id. *)

GrpcTees == {"sev", "sgx", "snp", "tdx", "csv", "sample", "az-snp-vtpm", "cca",
             "az-tdx-vtpm", "se", "hygondcu", "nvidia", "tpm"}
RestTees == (GrpcTees \ {"nvidia", "tpm"}) \cup {"sampledevice"}

\* Base64, JSON and the names of algorithms; TOML is parsed later.
Decodes(piece) ==
    /\ Bad \notin {piece.evidence, piece.alg, piece.component}
    /\ piece.runtime # None => piece.runtime.data # Bad
    /\ piece.init # None /\ piece.init.form = "digest"
          => piece.init.data # Bad

DefaultAlgorithm(piece) ==
    [piece EXCEPT !.alg = IF @ = None THEN "sha384" ELSE @]

RestPiece(piece) ==
    IF piece.tee \in RestTees /\ Decodes(piece)
    THEN DefaultAlgorithm(piece) ELSE Bad

\* The gRPC message has no field for a component.
GrpcPiece(piece) ==
    LET sent == [piece EXCEPT !.component = None, !.id = None]
    IN  IF piece.tee \in GrpcTees /\ Decodes(sent)
        THEN DefaultAlgorithm(sent) ELSE Bad

\* The first policy counts, "default" if none is named.
PolicyId == IF request.policy_ids = <<>> THEN "default"
            ELSE Head(request.policy_ids)

-----------------------------------------------------------------------------
(* Back ends of the KBS. *)

Structured(data) == [form |-> "structured", data |-> data]

Piece(tee, evidence, runtime, init) ==
    [tee |-> tee, evidence |-> evidence, runtime |-> runtime, init |-> init,
     alg |-> "sha384", component |-> None, id |-> None]

\* The runtime data: the primary device signs the additional evidence too.
DeviceData(req) == [key |-> req.key, nonce |-> req.nonce]
PrimaryData(req) == [key |-> req.key, nonce |-> req.nonce,
                     additional |-> req.additional]

AdditionalPiece(req, tee) ==
    Piece(tee, req.additional[tee], Structured(DeviceData(req)), None)

\* Mutant: the primary evidence does not speak for the additional evidence.
UnboundPieces(req, order) ==
    <<Piece(req.tee, req.evidence, Structured(DeviceData(req)), req.init)>> \o
        [i \in DOMAIN order |-> AdditionalPiece(req, order[i])]

\* The additional evidence comes out of a HashMap, in any order.
KbsPieces(req, order) ==
    <<Piece(req.tee, req.evidence, Structured(PrimaryData(req)), req.init)>>
        \o [i \in DOMAIN order |-> AdditionalPiece(req, order[i])]

\* Init data must be TOML for the CoCo back ends.
CocoPiece(piece) ==
    IF piece.init # None /\ piece.init.format # "toml" THEN Bad
    ELSE [piece EXCEPT !.init = IF @ = None THEN None
                                ELSE [form |-> "toml", data |-> @.body]]

\* Through the remote service a piece also passes its front end.
CocoGrpcPiece(piece) ==
    IF CocoPiece(piece) = Bad THEN Bad ELSE GrpcPiece(CocoPiece(piece))

Entries == {"rest", "grpc", "kbs_builtin", "kbs_grpc", "kbs_ita"}

\* What an entry makes of its pieces, Bad if it refuses one.
Entered(entry, piece) ==
    CASE entry = "rest" -> RestPiece(piece)
      [] entry = "grpc" -> GrpcPiece(piece)
      [] entry = "kbs_builtin" -> CocoPiece(piece)
      [] entry = "kbs_grpc" -> CocoGrpcPiece(piece)
      [] entry = "kbs_ita" -> piece

KbsEntries == {"kbs_builtin", "kbs_grpc", "kbs_ita"}
IsKbs == request.entry \in KbsEntries

\* The components of this repository verify for these TEEs.
ComponentTees == {"snp", "tdx"}

\* What the types of the code say of a request.  Evidence that parses is a
\* list of devices; Intel Trust Authority takes one device, unless it is a
\* GPU.  Data that is there is not None.
PieceFields ==
    {"tee", "evidence", "runtime", "alg", "init", "component", "id"}
EvidenceShape(evidence) == evidence # Bad => IsSeq(evidence)

AsRequestShape(req) ==
    /\ IsSeq(req.pieces)
    /\ \A i \in DOMAIN req.pieces :
          LET piece == req.pieces[i]
          IN  /\ PieceFields \subseteq DOMAIN piece
              /\ piece.alg \in HashAlgorithms \cup {None, Bad}
              /\ \/ piece.component \in {None, Bad}
                 \/ piece.component.tee \in ComponentTees
              /\ EvidenceShape(piece.evidence)

KbsRequestShape(req) ==
    LET more == IF req.additional \in {None, Bad} THEN {}
                ELSE DOMAIN req.additional
        shape(tee, evidence) ==
            /\ EvidenceShape(evidence)
            /\ req.entry = "kbs_ita" /\ tee # "nvidia" /\ evidence # Bad
                  => Len(evidence) = 1
    IN  /\ shape(req.tee, req.evidence)
        /\ IsFiniteSet(more)
        /\ \A t \in more : shape(t, req.additional[t])
        /\ Structured(PrimaryData(req)) # None

ASSUME RegisteredAssumption ==
    \A id \in DOMAIN Registered : Registered[id].tee \in ComponentTees

ASSUME RequestAssumption ==
    \A req \in Requests :
        /\ req.entry \in Entries \cup {"challenge"}
        /\ req.entry \in {"rest", "grpc"} => AsRequestShape(req)
        /\ req.entry \in KbsEntries => KbsRequestShape(req)

\* A policy answers with a JSON object, whose names are different.
ASSUME PolicyAssumption ==
    \A result \in PolicyResults \ {None, NotText} :
        \A i, j \in DOMAIN result.claims :
            result.claims[i].name = result.claims[j].name => i = j

Begin(pieces) ==
    LET entered == [i \in DOMAIN pieces |->
                       Entered(request.entry, pieces[i])]
    IN  IF pieces = <<>> \/ \E i \in DOMAIN entered : entered[i] = Bad
        THEN End("failed")
        ELSE /\ todo' = entered
             /\ pc' = IF request.entry = "kbs_ita" THEN "collect" ELSE "verify"
             /\ UNCHANGED <<request, claims, appraised, slots, azure, token,
                            message>>

Receive ==
    /\ pc = "received" /\ request.entry \in Entries
    /\ IF ~IsKbs THEN Begin(request.pieces)
       ELSE IF request.additional = Bad THEN End("failed")
       ELSE IF request.additional = None THEN Begin(KbsPieces(request, <<>>))
       ELSE \E order \in SetToSeqs(DOMAIN request.additional) :
               Begin(KbsPieces(request, order))

-----------------------------------------------------------------------------
(* Challenges. *)

\* generate_supplemental_challenge of a verifier, which may fail.
Challenge ==
    /\ pc = "received" /\ request.entry = "challenge"
    /\ LET ita == request.backend = "ita"
           algorithm == IF ita THEN ItaAlgorithm(request.tee, request.params)
                        ELSE None
           from == IF ~ita /\ CocoAsks(request.tee) THEN "verifier"
                   ELSE "random"
       IN  \/ from = "verifier" /\ End("failed")
           \/ IF algorithm = Bad THEN End("failed")
              ELSE /\ message' = [nonce |-> from, algorithm |-> algorithm]
                   /\ pc' = "done"
                   /\ UNCHANGED <<request, todo, claims, appraised, slots,
                                  azure, token>>

-----------------------------------------------------------------------------
(* Verification. *)

\* GPUs and DCUs are classes of their own.
Class(tee) ==
    CASE tee \in {"nvidia", "sampledevice"} -> "gpu"
      [] tee = "hygondcu" -> "dcu"
      [] OTHER -> "cpu"

\* The samples emulate a device and have no signature to verify.
Emulated == {"sample", "sampledevice"}

\* These verifiers insist on report data, the one for IBM SE ignores it.
NeedsReport == {"cca", "az-snp-vtpm", "az-tdx-vtpm", "hygondcu", "nvidia"}
IgnoresReport == {"se"}

\* These compare the init data, in the vTPMs as the only extension of a PCR.
ChecksInit == {"snp", "tdx", "sgx", "tpm", "az-snp-vtpm", "az-tdx-vtpm", "cca"}
PcrTees == {"tpm", "az-snp-vtpm", "az-tdx-vtpm"}

\* These have a report_data claim; that of a DCU is nested too deep to count.
ShowsReport == {"snp", "tdx", "sgx", "sample", "tpm", "az-snp-vtpm",
                "az-tdx-vtpm", "csv", "cca", "se"}

\* The device is one of the TEE and speaks for what is expected, if anything.
Attests(tee, device, report) ==
    /\ device.tee = tee
    /\ tee \notin Emulated => device.genuine
    /\ tee \in NeedsReport => report # {}
    /\ tee \notin IgnoresReport => \A r \in report : device.report = r

\* A verifier of a TEE accepts a device.
Accepts(tee, device, report, init) ==
    /\ Attests(tee, device, report)
    /\ tee \in ChecksInit => \A i \in init : device.init = i

\* The claims of the verifiers: what the device signed; the sample shows the
\* init data that is expected.
VerifierClaims(tee, device, init) ==
    [report_data |-> IF tee \in ShowsReport THEN device.report ELSE None,
     init_data |-> IF tee \in ChecksInit THEN device.init
                   ELSE IF tee = "sample" /\ init # {}
                   THEN CHOOSE i \in init : TRUE ELSE None]

\* The hash that extends a PCR is copied into 32 bytes, which panics when it
\* has another length; a digest from the caller may have any.
InitDataFits(init) ==
    IF init.form = "toml" THEN init.data.algorithm = "sha256"
    ELSE init.bytes = 32

\* The component a piece is verified by: bytes come before an id, an id
\* before the default; bytes must be signed, an id registered.
ResolvedComponent(piece) ==
    LET id == IF piece.id # None THEN piece.id ELSE request.default_component
    IN  IF piece.component # None
        THEN IF piece.component.signed THEN piece.component ELSE None
        ELSE IF id \in DOMAIN Registered THEN Registered[id] ELSE None

\* The TEE whose verifier looks at a piece: the component's own, or the one
\* the request names.  None if there is no component.
VerifierTee(piece) ==
    IF ~request.wasm THEN piece.tee
    ELSE IF ResolvedComponent(piece) = None THEN None
    ELSE ResolvedComponent(piece).tee

\* A component takes the evidence of one device.
Parses(piece) ==
    /\ piece.evidence # Bad /\ VerifierTee(piece) # None
    /\ request.wasm \/ VerifierTee(piece) # "nvidia"
          => Len(piece.evidence) = 1

PieceVerifies(piece, report, init) ==
    /\ Parses(piece)
    /\ \A i \in DOMAIN piece.evidence :
          Accepts(VerifierTee(piece), piece.evidence[i], report, init)

\* todo!(), or the copy of the init data when all before it was verified.
PiecePanics(piece, report) ==
    \/ VerifierTee(piece) = "sev"
    \/ /\ VerifierTee(piece) \in PcrTees /\ piece.init # None
       /\ ~InitDataFits(piece.init) /\ Parses(piece)
       /\ \A i \in DOMAIN piece.evidence :
             Attests(VerifierTee(piece), piece.evidence[i], report)

\* TeeClaims: labelled with the TEE of the request; components are "cpu".
VerifyNext ==
    LET piece == Head(todo)
        runtime == parse_runtime_data(piece.runtime, piece.alg)
        init == IF InitDataParses(piece.init) THEN parse_init_data(piece.init)
                ELSE None
        tee == VerifierTee(piece)
        claimed == [i \in DOMAIN piece.evidence |->
                      [tee |-> piece.tee,
                       tee_class |-> IF request.wasm THEN "cpu"
                                     ELSE Class(tee),
                       claims |-> VerifierClaims(tee, piece.evidence[i],
                                                 init.expected),
                       init_data_claims |-> init.claims,
                       runtime_data_claims |-> runtime.claims]]
    IN  /\ pc = "verify"
        /\ IF init = None THEN End("failed")
           ELSE IF PiecePanics(piece, runtime.expected) THEN End("panicked")
           ELSE IF ~PieceVerifies(piece, runtime.expected, init.expected)
           THEN End("failed")
           ELSE /\ claims' = claims \o claimed
                /\ todo' = Tail(todo)
                /\ pc' = IF Len(todo) > 1 THEN "verify"
                         ELSE IF claims' = <<>> THEN "sign" ELSE "issue"
                /\ UNCHANGED <<request, appraised, slots, azure, token,
                               message>>

-----------------------------------------------------------------------------
(* The token. *)

InClass(class) ==
    {i \in DOMAIN appraised : appraised[i].name[1] = class}

\* Mutant: the index counts all devices.
CommonIndexName(class) == <<class, Len(appraised) % IndexMod>>

SubmodName(class) == <<class, Cardinality(InClass(class)) % IndexMod>>

\* `*index += 1` on a u8 that is full panics in a debug build and wraps
\* around in a release build.
Overflows(class) == Cardinality(InClass(class)) >= IndexMod

\* One round of the loop over the devices.
IssueNext(result) ==
    LET next == claims[Len(appraised) + 1]
        annotated == transform_claims(next.claims, next.init_data_claims,
                                      next.runtime_data_claims, next.tee)
        outcome == IF TransformPanics(next.claims) THEN "panicked"
                   ELSE AppraisalOutcome(result)
    IN  /\ pc = "issue"
        /\ IF outcome # "ok" THEN End(outcome)
           ELSE \/ Overflows(next.tee_class) /\ End("panicked")
                \/ /\ appraised' = Append(appraised,
                         [name |-> SubmodName(next.tee_class),
                          policy |-> <<PolicyId, next.tee_class>>,
                          appraisal |-> Appraisal(result, annotated)])
                   /\ pc' = IF Len(appraised') < Len(claims) THEN "issue"
                            ELSE "sign"
                   /\ UNCHANGED <<request, todo, claims, slots, azure, token,
                                  message>>

\* A name that was inserted twice has its last value.
Submods ==
    [n \in {appraised[i].name : i \in DOMAIN appraised} |->
        appraised[CHOOSE i \in DOMAIN appraised :
                     /\ appraised[i].name = n
                     /\ \A j \in DOMAIN appraised :
                           appraised[j].name = n => j <= i].appraisal]

\* The key a submod shows, if its runtime data was that of the KBS.
SubmodKey(submods, name) ==
    IF name \notin DOMAIN submods THEN None
    ELSE LET data == submods[name].evidence.runtime_data_claims
         IN  IF data = None THEN None
             ELSE IF "key" \in DOMAIN data THEN data.key ELSE None

\* An expiry out of range is an error.
Sign ==
    /\ pc = "sign"
    /\ \/ End("failed")
       \/ /\ token' = [submods |-> Submods,
                       keys |-> [EAR |-> SubmodKey(Submods, <<"cpu", 0>>),
                                 CPU1 |-> SubmodKey(Submods, <<"cpu", 1>>)]]
          /\ pc' = IF IsKbs THEN "deliver" ELSE "done"
          /\ UNCHANGED <<request, todo, claims, appraised, slots, azure,
                         message>>

-----------------------------------------------------------------------------
(* Intel Trust Authority. *)

\* A slot is set, whatever it held.
Filled(old, slot, entry) ==
    [s \in DOMAIN old \cup {slot} |-> IF s = slot THEN entry ELSE old[s]]

ItaCollect ==
    LET piece == Head(todo)
    IN  /\ pc = "collect" /\ todo # <<>>
        /\ IF ItaRefuses(piece) THEN End("failed")
           ELSE /\ slots' = IF ItaDrops(piece) THEN slots
                            ELSE Filled(slots, ItaSlot(piece.tee),
                                        ItaEntry(piece))
                /\ azure' = IF piece.tee = "az-tdx-vtpm" THEN azure + 1
                            ELSE azure
                /\ todo' = Tail(todo)
                /\ UNCHANGED <<request, pc, claims, appraised, token, message>>

\* What the entry of a slot says the device was given.
GivenData(entry) ==
    IF entry.tee = "az-tdx-vtpm" THEN entry.user_data.data
    ELSE entry.runtime_data.data

\* The service accepts what is genuine and speaks for the data it is given.
ItaGenuine(entry) ==
    LET device == Head(entry.evidence)
        alg == IF entry.tee \in {"sgx", "az-tdx-vtpm"} THEN "sha256"
               ELSE "sha512"
    IN  /\ device.tee = entry.tee /\ device.genuine
        /\ device.report = Digest(alg, GivenData(entry))

ItaAccepts ==
    /\ DOMAIN slots # {}
    /\ \A s \in DOMAIN slots : ItaGenuine(slots[s])
    /\ azure = IF "tdx" \notin DOMAIN slots THEN 0
               ELSE IF slots["tdx"].tee = "az-tdx-vtpm" THEN 1 ELSE 0

\* The request fails, or the answer is no 200, no JSON, or no token that
\* verifies; or it is a token.
ItaPost ==
    LET key(tee) == IF "tdx" \notin DOMAIN slots THEN None
                    ELSE IF slots["tdx"].tee = tee
                    THEN GivenData(slots["tdx"]).key ELSE None
    IN  /\ pc = "collect" /\ todo = <<>>
        /\ \/ End("failed")
           \/ /\ ItaAccepts
              /\ token' = [slots |-> slots,
                           must_match |-> PolicyMustMatch(
                                request.policy_ids, request.allow_unmatched),
                           keys |-> [ITA |-> key("tdx"),
                                     ITA_VTPM |-> key("az-tdx-vtpm")]]
              /\ pc' = "deliver"
              /\ UNCHANGED <<request, todo, claims, appraised, slots, azure,
                             message>>

-----------------------------------------------------------------------------
(* The KBS releases a secret to the key in the token. *)

Deliver ==
    LET key == extract_tee_public_key(ExtraPaths, token)
        sealed == IF key = None THEN None ELSE jwe(key, request.secret)
    IN  /\ pc = "deliver"
        /\ IF sealed = None THEN End("failed")
           ELSE /\ message' = sealed
                /\ pc' = "done"
                /\ UNCHANGED <<request, todo, claims, appraised, slots, azure,
                               token>>

Ended == pc \in {"done", "failed", "panicked"}

Next ==
    \/ Receive \/ Challenge
    \/ VerifyNext
    \/ \E result \in PolicyResults : IssueNext(result)
    \/ Sign
    \/ ItaCollect \/ ItaPost
    \/ Deliver

Spec == Init /\ [][Next]_vars

-----------------------------------------------------------------------------
(* Properties. *)

Ear == "submods" \in DOMAIN token

\* Types: a service that is done has answered what it was asked, a challenge
\* or a secret with a message and an attestation with a token, and after an
\* error there is no answer.
TypeOK ==
    /\ request \in Requests /\ pc \in Pcs
    /\ DOMAIN slots \subseteq ItaSlots
    /\ Len(appraised) <= Len(claims)
    /\ Ear => Len(appraised) = Len(claims)
    /\ pc = "done" => IF request.entry \in {"rest", "grpc"} THEN Ear
                      ELSE message # NoMessage
    /\ message # NoMessage => pc = "done"

\* The devices that a request has evidence of, if the evidence is signed.
AskedEvidence ==
    IF IsKbs
    THEN {request.evidence} \cup
         (IF request.additional = None THEN {}
          ELSE {request.additional[t] : t \in DOMAIN request.additional})
    ELSE {request.pieces[i].evidence : i \in DOMAIN request.pieces}
Devices ==
    {d \in UNION {ToSet(e) : e \in AskedEvidence \ {Bad}} :
        d.genuine \/ d.tee \in Emulated}

\* Claims that the caller provided, and that end up in a token next to the
\* claims of a device, are what a device of the request signed: their digest
\* is in its evidence.  Between the two are the front end, the hash in
\* canonical order, the verifier, and the filter on what the verifier
\* reports.  The filter takes a claim for a comparison that was made, which
\* is wrong of the report data of IBM SE and of the init data of the sample.
ClaimsAreBound ==
    Ear => \A n \in DOMAIN token.submods :
        LET evidence == token.submods[n].evidence
            bound == evidence.tee \notin IgnoresReport
        IN  /\ bound /\ evidence.runtime_data_claims # None =>
                  \E d \in Devices, alg \in HashAlgorithms :
                      /\ evidence.report_data = d.report
                      /\ d.report = Digest(alg, evidence.runtime_data_claims)
            /\ evidence.tee # "sample" /\ evidence.init_data_claims # None =>
                  \E d \in Devices :
                      /\ evidence.init_data = d.init
                      /\ "data" \in DOMAIN d.init
                      /\ evidence.init_data_claims
                            = InitClaims(d.init.data.data)

\* The devices of one class, and how many of its class come before a device
\* in the order of the evidence.
OfClass(class) == {i \in DOMAIN claims : claims[i].tee_class = class}
Number(i) == Cardinality({j \in OfClass(claims[i].tee_class) : j < i})

\* A token has one submod for each device of the request, none is left out
\* or merged, and the k-th device of a class is number k - 1: in particular
\* cpu0, where the KBS looks for the key, is the first CPU.  (Up to as many
\* devices of a class as the index has values.)
OneSubmodPerDevice ==
    Ear /\ (\A i \in DOMAIN claims :
              Cardinality(OfClass(claims[i].tee_class)) <= IndexMod) =>
        /\ Cardinality(DOMAIN token.submods) = Len(claims)
        /\ \A i \in DOMAIN claims :
              LET name == <<claims[i].tee_class, Number(i)>>
                  evidence == token.submods[name].evidence
              IN  /\ name \in DOMAIN token.submods
                  /\ evidence.tee = claims[i].tee
                  /\ evidence.report_data = claims[i].claims.report_data
                  /\ evidence.init_data = claims[i].claims.init_data

\* A request that is done has its answer, and a token is about every device.
TokenComplete == TypeOK /\ OneSubmodPerDevice

\* The devices of a KBS request that signed its key and its nonce.
Signers ==
    {d \in Devices : /\ "data" \in DOMAIN d.report
                     /\ d.report.data.key = request.key
                     /\ d.report.data.nonce = request.nonce}

\* The TEEs that a KBS request has evidence of.
AskedTees ==
    {request.tee} \cup
        (IF request.additional = None THEN {} ELSE DOMAIN request.additional)

\* What the KBS releases is encrypted to the key of the very request, by a
\* message its owner can open, and a CPU of the request, genuine unless it is
\* the sample, signed this key with the nonce of the session: whichever back
\* end issued the token, wherever in the token the key was found.  With IBM
\* SE there need be no such CPU, as nothing looks at what its evidence says.
KeyAttested ==
    IsKbs /\ pc = "done" =>
        /\ message.to = request.key /\ Opens(request.key, message)
        /\ AskedTees \cap IgnoresReport = {} =>
              \E d \in Signers : Class(d.tee) = "cpu"

\* Additional evidence counts only if the primary device signed exactly this
\* additional evidence: pieces of different machines, each genuine and with
\* the same key and nonce, do not add up to a token, unless the primary
\* device is one of IBM SE.
NoMixAndMatch ==
    IsKbs /\ Ear /\ request.tee \notin IgnoresReport =>
        \A i \in DOMAIN request.evidence :
            request.evidence[i].report.data = PrimaryData(request)

\* Intel Trust Authority has seen every piece of evidence before the KBS takes
\* its token, unless two pieces claim one slot of the request or the GPUs are
\* not exactly one.
ItaSeesAll ==
    request.entry = "kbs_ita" /\ "slots" \in DOMAIN token =>
        LET more == IF request.additional = None THEN {}
                    ELSE DOMAIN request.additional
            kind(t) == IF t = "az-tdx-vtpm" THEN "tdx" ELSE t
            evidence == {request.evidence} \cup
                        {request.additional[t] : t \in more}
            fits == /\ \A t \in more : kind(t) # kind(request.tee)
                    /\ \A t, u \in more : t # u => kind(t) # kind(u)
                    /\ \A e \in evidence : Len(e) = 1
        IN  fits => \A e \in evidence : Head(e) \in Signers
=============================================================================
