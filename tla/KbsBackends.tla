----------------------------- MODULE KbsBackends -----------------------------
(***************************************************************************)
(* What the KBS computes on both sides of an attestation: the challenge,   *)
(* the request to Intel Trust Authority, the place of the TEE public key   *)
(* in a token, and the encryption of what is released                      *)
(* (kbs/src/attestation, kbs/src/token/mod.rs, kbs/src/jwe.rs).            *)
(***************************************************************************)
EXTENDS Integers, Sequences, FiniteSetsExt

CONSTANTS None, Bad, NotText    \* as in EarToken

-----------------------------------------------------------------------------
(* Challenges. *)

\* The CoCo back ends ask the attestation service for IBM SE only.
CocoAsks(tee) == tee = "se"

\* The hash algorithm that Intel Trust Authority needs of a TEE.
NeededAlgorithm(tee) ==
    CASE tee \in {"sgx", "az-tdx-vtpm"} -> "sha256"
      [] tee = "tdx" -> "sha512"
      [] OTHER -> None

\* The algorithm that is selected from the TEE's parameters: Bad is an error,
\* None the legacy challenge without a selection.
ItaAlgorithm(tee, params) ==
    IF params = None \/ params = NotText THEN None
    ELSE IF params.algorithms = NotText THEN Bad
    ELSE IF NeededAlgorithm(tee) \in params.algorithms
    THEN NeededAlgorithm(tee)
    ELSE Bad

-----------------------------------------------------------------------------
(* Intel Trust Authority. *)

ItaSlots == {"tdx", "sgx", "nvgpu"}

\* Mutant: quotes of either kind share a slot.
DcapSlot(tee) ==
    CASE tee \in {"tdx", "az-tdx-vtpm", "sgx"} -> "tdx"
      [] tee = "nvidia" -> "nvgpu"
      [] OTHER -> None

ItaSlot(tee) ==
    CASE tee \in {"tdx", "az-tdx-vtpm"} -> "tdx"
      [] tee = "sgx" -> "sgx"
      [] tee = "nvidia" -> "nvgpu"
      [] OTHER -> None

\* Evidence of a TEE that is not supported, or that does not parse.
ItaRefuses(piece) == ItaSlot(piece.tee) = None \/ piece.evidence = Bad

\* Of GPUs only the first is sent, and an empty list is dropped.
ItaDrops(piece) == piece.tee = "nvidia" /\ piece.evidence = <<>>

\* What is put into the slot: the runtime data as user data for Azure, whose
\* own runtime data is the HCL report's, and as runtime data otherwise.
ItaEntry(piece) ==
    [tee |-> piece.tee, evidence |-> piece.evidence,
     runtime_data |-> IF piece.tee = "az-tdx-vtpm" THEN None
                      ELSE piece.runtime,
     user_data |-> IF piece.tee = "az-tdx-vtpm" THEN piece.runtime ELSE None]

\* allow_unmatched is optional.
PolicyMustMatch(policy_ids, allow_unmatched) ==
    policy_ids # <<>> /\ allow_unmatched # TRUE

-----------------------------------------------------------------------------
(* The TEE public key of a token. *)

BuiltInPaths == <<"ITA", "ITA_VTPM", "COCO", "EAR", "VALUE">>

\* The first path that leads to a value decides, also when it is no key.
extract_tee_public_key(extra, token) ==
    LET paths == extra \o BuiltInPaths
        leading == {i \in DOMAIN paths : /\ paths[i] \in DOMAIN token.keys
                                         /\ token.keys[paths[i]] # None}
        found == token.keys[paths[Min(leading)]]
    IN  IF leading = {} THEN None
        ELSE IF found = NotText THEN None ELSE found

-----------------------------------------------------------------------------
(* JWE.  A key has a type, an algorithm, a curve and coordinates, the        *)
(* modulus and exponent of an RSA key being its coordinates.               *)

CoordinateLen(crv) == IF crv = "P-256" THEN 32 ELSE 66

\* Coordinates that decode to a point of the curve or to an RSA key.
KeyBuilds(key) ==
    /\ Bad \notin {key.x, key.y}
    /\ key.kty = "EC" => /\ {key.x.len, key.y.len} = {CoordinateLen(key.crv)}
                         /\ key.on_curve

Sealed(key, alg, epk, payload) ==
    IF KeyBuilds(key)
    THEN [alg |-> alg, epk |-> epk, to |-> key, payload |-> payload]
    ELSE None

\* The content key is wrapped for the TEE's key under the algorithm the
\* header names; for EC the header carries an ephemeral key of its curve.
rsa_1v15(key, payload) == Sealed(key, "RSA1_5", None, payload)
rsa_oaep256(key, payload) == Sealed(key, "RSA-OAEP-256", None, payload)
ecdh_es_a256kw_p256(key, payload) ==
    Sealed(key, "ECDH-ES+A256KW", "P-256", payload)

\* Mutant: the header names the other curve.
EpkOfP256(key, payload) == Sealed(key, "ECDH-ES+A256KW", "P-256", payload)

ecdh_es_a256kw_p521(key, payload) ==
    Sealed(key, "ECDH-ES+A256KW", "P-521", payload)

jwe(key, payload) ==
    CASE key.kty = "RSA" /\ key.alg = "RSA1_5" -> rsa_1v15(key, payload)
      [] key.kty = "RSA" /\ key.alg = "RSA-OAEP-256"
            -> rsa_oaep256(key, payload)
      [] key.kty = "EC" /\ key.alg = "ECDH-ES+A256KW" /\ key.crv = "P-256"
            -> ecdh_es_a256kw_p256(key, payload)
      [] key.kty = "EC" /\ key.alg = "ECDH-ES+A256KW" /\ key.crv = "P-521"
            -> ecdh_es_a256kw_p521(key, payload)
      [] OTHER -> None

\* A TEE opens what was encrypted for its key, if the header fits it.
Opens(key, msg) ==
    /\ msg.to = key /\ msg.alg = key.alg
    /\ key.kty = "EC" => msg.epk = key.crv
=============================================================================
