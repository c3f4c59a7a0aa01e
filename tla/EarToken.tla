------------------------------ MODULE EarToken ------------------------------
(***************************************************************************)
(* What the attestation service makes of verified evidence: the data it    *)
(* expects in evidence (attestation-service/src/lib.rs), the claims it     *)
(* hands to a policy, and the appraisal of one device                      *)
(* (attestation-service/src/ear_token/broker.rs).                          *)
(*                                                                         *)
(* A digest is the pair of its algorithm and what was hashed.  JSON null   *)
(* and an absent value are None.                                           *)
(***************************************************************************)
EXTENDS Integers, Sequences, FiniteSets, FiniteSetsExt

CONSTANTS
    None,       \* no value
    Bad,        \* text that does not decode or parse
    NotText,    \* a JSON value that is not of the type the code expects
    ClaimNames  \* the claims of a trust vector

-----------------------------------------------------------------------------
(* Expected data. *)

HashAlgorithms == {"sha256", "sha384", "sha512"}
Digest(alg, data) == [alg |-> alg, data |-> data]

\* Mutant: structured data is shown but not expected.
NotExpected(data, alg) ==
    IF data = None THEN [expected |-> {}, claims |-> None]
    ELSE IF data.form = "raw" THEN [expected |-> {data.data}, claims |-> None]
    ELSE [expected |-> {}, claims |-> data.data]

\* At most one datum is expected.  Raw data is expected as it is; structured
\* data is hashed, in canonical order, and may show up in the token.
parse_runtime_data(data, alg) ==
    IF data = None THEN [expected |-> {}, claims |-> None]
    ELSE IF data.form = "raw" THEN [expected |-> {data.data}, claims |-> None]
    ELSE [expected |-> {Digest(alg, data.data)}, claims |-> data.data]

\* The policy_data of a rego file, if the rest of the file is JSON.
HasPolicyData(data) ==
    "policy.rego" \in DOMAIN data /\ data["policy.rego"] = "rego with data"

\* Some files of the init data are shown parsed, and of a policy its data.
InitClaims(data) ==
    LET parsed == [f \in DOMAIN data |->
                      IF f \in {"cdh.toml", "aa.toml"} /\ data[f] = "toml"
                      THEN "json" ELSE data[f]]
        shown == (DOMAIN data \ {"policy.rego"}) \cup {"agent_policy_claims"}
    IN  IF HasPolicyData(data)
        THEN [f \in shown |-> IF f = "agent_policy_claims" THEN "policy data"
                              ELSE parsed[f]]
        ELSE parsed

\* A TOML document names the algorithm it is hashed with.
parse_init_data(data) ==
    IF data = None THEN [expected |-> {}, claims |-> None]
    ELSE IF data.form = "digest"
    THEN [expected |-> {data.data}, claims |-> None]
    ELSE [expected |-> {Digest(data.data.algorithm, data.data)},
          claims |-> InitClaims(data.data.data)]

\* No hash algorithm, or no TOML of the right form, is an error.
InitDataParses(data) == data # None => data.data # Bad

-----------------------------------------------------------------------------
(* Claims. *)

\* What is expected is shown only next to what the verifier reports of it.
transform_claims(claims, init_claims, runtime_claims, tee) ==
    [tee |-> tee,
     init_data |-> claims.init_data, report_data |-> claims.report_data,
     init_data_claims |-> IF claims.init_data = None THEN None
                          ELSE init_claims,
     runtime_data_claims |-> IF claims.report_data = None THEN None
                             ELSE runtime_claims]

\* as_str().unwrap() on a claim that is no string.
TransformPanics(claims) == NotText \in {claims.init_data, claims.report_data}

-----------------------------------------------------------------------------
(* Appraisal.  A policy answers with a sequence of [name, value] and with   *)
(* extensions [name, key]; None when it is missing or fails.               *)

\* `as i8`.
AsI8(v) == ((v + 128) % 256) - 128

\* The first claim that cannot be set: no number is an error, no name of the
\* trust vector a panic.
Unsettable(claims) ==
    {i \in DOMAIN claims : \/ claims[i].value = NotText
                           \/ claims[i].name \notin ClaimNames}

Settable(claims) ==
    LET bad == Unsettable(claims)
    IN  IF bad = {} THEN "ok"
        ELSE IF claims[Min(bad)].value = NotText THEN "failed" ELSE "panicked"

TrustVector(claims) ==
    [n \in {claims[i].name : i \in DOMAIN claims} |->
        AsI8(claims[CHOOSE i \in DOMAIN claims : claims[i].name = n].value)]

\* The tier of a claim, and of the worst: update_status_from_trust_vector.
Tier(v) ==
    CASE v \in -1..1 -> 0
      [] v \in (2..31) \cup (-32..-2) -> 2
      [] v \in (32..95) \cup (-96..-33) -> 32
      [] OTHER -> 96

Status(vector) == Max({Tier(vector[n]) : n \in DOMAIN vector})

\* register refuses a name or a key twice.
Registers(extensions) ==
    \A i, j \in DOMAIN extensions : i # j =>
        /\ extensions[i].name # extensions[j].name
        /\ extensions[i].key # extensions[j].key

\* What becomes of the appraisal of a device: panicked, failed or ok.
AppraisalOutcome(result) ==
    IF result = None \/ result = NotText THEN "failed"
    ELSE IF Settable(result.claims) # "ok" THEN Settable(result.claims)
    ELSE IF result.claims = <<>> \/ ~Registers(result.extensions)
    THEN "failed" ELSE "ok"

Appraisal(result, annotated) ==
    LET vector == TrustVector(result.claims)
    IN  [vector |-> vector, status |-> Status(vector), evidence |-> annotated,
         extensions |-> result.extensions]
=============================================================================
