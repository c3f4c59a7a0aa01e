---------------------------- MODULE MCEvaluation ----------------------------
(***************************************************************************)
(* Requests to every entry: each form of what a front end decodes, several *)
(* devices, components with and without a signature, evidence that is not  *)
(* genuine or that speaks for something else; keys of every kind.          *)
(***************************************************************************)
EXTENDS Evaluation

CONSTANTS n1, n2, raw, zeros, secret

Device(tee, report, init) ==
    [tee |-> tee, genuine |-> TRUE, report |-> report, init |-> init]
Forged(device) == [device EXCEPT !.genuine = FALSE]

-----------------------------------------------------------------------------
(* Requests to the attestation service. *)

App == [app |-> "data"]
Toml(files) == [algorithm |-> "sha256", data |-> files]
Files == [f \in {"aa.toml", "policy.rego", "x"} |->
            IF f = "aa.toml" THEN "toml"
            ELSE IF f = "x" THEN "text" ELSE "rego with data"]
InitDoc == Toml(Files)
TomlInit == [form |-> "toml", data |-> InitDoc]
DigestInit == [form |-> "digest", data |-> raw, bytes |-> 32]

Snp == Device("snp", Digest("sha384", App), Digest("sha256", InitDoc))

SnpPiece == [Piece("snp", <<Snp>>, Structured(App), None) EXCEPT !.alg = None]

Pieces ==
    {SnpPiece, [SnpPiece EXCEPT !.init = TomlInit],
     [SnpPiece EXCEPT !.evidence = <<[Snp EXCEPT !.init = raw]>>,
                      !.init = DigestInit],
     [SnpPiece EXCEPT !.evidence = <<[Snp EXCEPT !.report = raw]>>],
     [SnpPiece EXCEPT !.evidence = <<[Snp EXCEPT !.report = raw]>>,
                      !.runtime = [form |-> "raw", data |-> raw]],
     [SnpPiece EXCEPT !.evidence = <<Forged(Snp)>>],
     [SnpPiece EXCEPT !.evidence = <<[Snp EXCEPT !.init = raw]>>,
                      !.init = TomlInit],
     [SnpPiece EXCEPT !.tee = "csv", !.init = DigestInit,
                      !.evidence = <<[Snp EXCEPT !.tee = "csv"]>>],
     [SnpPiece EXCEPT !.evidence = Bad],
     [SnpPiece EXCEPT !.alg = Bad], [SnpPiece EXCEPT !.alg = "sha256"],
     [SnpPiece EXCEPT !.runtime.data = Bad],
     [SnpPiece EXCEPT !.init = [form |-> "toml", data |-> Bad]],
     [SnpPiece EXCEPT !.init = [form |-> "digest", data |-> Bad, bytes |-> 0]],
     [SnpPiece EXCEPT !.tee = "sev"], [SnpPiece EXCEPT !.tee = "tdx"],
     [SnpPiece EXCEPT !.tee = "unknown"],
     [SnpPiece EXCEPT !.tee = "sampledevice",
                      !.evidence = <<[Snp EXCEPT !.tee = "sampledevice"]>>]}

\* A piece of each TEE: the report data is expected or not, the init data is
\* the expected one, another, or of a length that no PCR takes.
LongInit == [algorithm |-> "sha384", data |-> Files]
OfEveryTee ==
    {[SnpPiece EXCEPT !.tee = t, !.evidence = <<[d EXCEPT !.tee = t]>>,
                      !.runtime = r, !.init = i] :
        t \in GrpcTees \cup RestTees,
        d \in {Snp, [Snp EXCEPT !.init = raw], [Snp EXCEPT !.report = raw],
              [Snp EXCEPT !.genuine = FALSE]},
        r \in {None, Structured(App)},
        i \in {None, TomlInit, [form |-> "toml", data |-> LongInit],
              [DigestInit EXCEPT !.bytes = 48]}}

Component(tee, signed) == [tee |-> tee, signed |-> signed]

WasmPieces ==
    {[SnpPiece EXCEPT !.component = c, !.id = id] :
        c \in {None, Bad, Component("snp", TRUE), Component("snp", FALSE)},
        id \in {None, "snp id", "tdx id", "no id"}}
    \cup {[SnpPiece EXCEPT !.tee = "tdx", !.id = "snp id"],
          [SnpPiece EXCEPT !.id = "snp id", !.runtime = None,
                           !.evidence = <<[Snp EXCEPT !.report = NotText]>>]}

MCRegistered == [id \in {"snp id", "tdx id"} |->
    Component(IF id = "snp id" THEN "snp" ELSE "tdx", TRUE)]

Gpu == [Snp EXCEPT !.tee = "nvidia"]
Gpus(n) == [SnpPiece EXCEPT !.tee = "nvidia",
                            !.evidence = [i \in 1..n |-> Gpu]]
Csv == [SnpPiece EXCEPT !.tee = "csv",
                        !.evidence = <<[Snp EXCEPT !.tee = "csv"]>>]

Dcu == [SnpPiece EXCEPT !.tee = "hygondcu",
                        !.evidence = <<[Snp EXCEPT !.tee = "hygondcu"]>>]

\* Requests of several pieces, also more of a class than there are indices.
Multiple ==
    {<<>>, <<SnpPiece, Gpus(2)>>, <<Gpus(1), SnpPiece, Csv>>, <<Gpus(0)>>,
     <<SnpPiece, Csv, SnpPiece>>, <<Dcu, SnpPiece, Gpus(1), Dcu>>}

As(entry, pieces, wasm, default, policies) ==
    [entry |-> entry, pieces |-> pieces, wasm |-> wasm,
     default_component |-> default, policy_ids |-> policies]

AsRequests ==
    {As(entry, <<p>>, FALSE, None, <<>>) :
        entry \in {"rest", "grpc"}, p \in Pieces \cup OfEveryTee}
    \cup {As("grpc", ps, FALSE, None, <<"first", "second">>) : ps \in Multiple}
    \cup {As(entry, <<p>>, TRUE, default, <<"first">>) :
            entry \in {"rest", "grpc"}, p \in WasmPieces,
            default \in {None, "snp id", "no id"}}

-----------------------------------------------------------------------------
(* Requests to the KBS. *)

Rsa(alg) == [kty |-> "RSA", alg |-> alg, crv |-> None, on_curve |-> TRUE,
             x |-> [len |-> 256], y |-> [len |-> 3]]
Ec(crv, len) == [kty |-> "EC", alg |-> "ECDH-ES+A256KW", crv |-> crv,
                 on_curve |-> TRUE, x |-> [len |-> len], y |-> [len |-> len]]

Keys ==
    {Rsa("RSA1_5"), Rsa("RSA-OAEP-256"), Rsa("RSA-OAEP"),
     [Rsa("RSA1_5") EXCEPT !.x = Bad],
     Ec("P-256", 32), Ec("P-521", 66), Ec("P-521", 65), Ec("P-384", 48),
     [Ec("P-256", 32) EXCEPT !.on_curve = FALSE],
     [Ec("P-256", 32) EXCEPT !.alg = "ECDH-ES"]}
Key == Ec("P-521", 66)

Data(key, nonce) == [key |-> key, nonce |-> nonce]
DataWith(key, nonce, additional) ==
    [key |-> key, nonce |-> nonce, additional |-> additional]

Kbs(entry, tee, alg, key, additional) ==
    [entry |-> entry, tee |-> tee, key |-> key, nonce |-> n1,
     additional |-> additional, init |-> None, secret |-> secret,
     evidence |-> <<Device(tee, Digest(alg, DataWith(key, n1, additional)),
                           zeros)>>,
     wasm |-> FALSE, default_component |-> None, policy_ids |-> <<>>,
     allow_unmatched |-> None]

\* Additional evidence: GPUs and CPUs, also of another session.
Extra(alg, nonce, tees) ==
    [t \in tees |-> <<Device(t, Digest(alg, Data(Key, nonce)), zeros)>>]
TwoGpus == [t \in {"nvidia"} |->
              <<Device(t, Digest("sha384", Data(Key, n1)), zeros),
                Device(t, Digest("sha384", Data(Key, n1)), zeros)>>]
NoGpus == [t \in {"nvidia"} |-> <<>>]

CocoRequests ==
    {Kbs(entry, "snp", "sha384", key, None) :
        entry \in {"kbs_builtin", "kbs_grpc"}, key \in Keys}
    \cup {Kbs("kbs_builtin", "tdx", "sha384", Key, additional) :
            additional \in {Bad, NoGpus, TwoGpus,
                            Extra("sha384", n1, {"nvidia", "snp"}),
                            Extra("sha384", n2, {"nvidia"})}}
    \cup {Kbs("kbs_builtin", tee, "sha384", Key, None) :
            tee \in {"se", "nvidia", "sev", "sample", "cca", "hygondcu"}}
    \cup {[Kbs("kbs_builtin", tee, "sha384", Key, extra) EXCEPT
             !.evidence[1].report = report, !.evidence[1].genuine = genuine] :
            tee \in {"se", "sample"},
            extra \in {None, Extra("sha384", n1, {"snp"})},
            report \in {Digest("sha384", Data(Key, n2)),
                       Digest("sha384", DataWith(Key, n1, None))},
            genuine \in BOOLEAN}
    \cup {Kbs("kbs_builtin", "nvidia", "sha384", Key,
              Extra("sha384", n1, {"snp", "csv"})),
          Kbs("kbs_grpc", "sampledevice", "sha384", Key, None)}
    \cup {[Kbs("kbs_builtin", "tdx", "sha384", Key,
               Extra("sha384", n1, {"nvidia"})) EXCEPT
             !.evidence = <<Device("tdx", Digest("sha384", data), zeros)>>] :
            data \in {Data(Key, n1), DataWith(Key, n2, None),
                      DataWith(Ec("P-256", 32), n1,
                               Extra("sha384", n1, {"nvidia"}))}}
    \cup {[Kbs("kbs_grpc", "snp", "sha384", Key, None) EXCEPT
             !.init = [format |-> format, body |-> InitDoc],
             !.evidence[1].init = init] :
            format \in {"toml", "json"},
            init \in {zeros, Digest("sha256", InitDoc)}}
    \cup {[Kbs("kbs_builtin", "snp", "sha384", Key, None) EXCEPT
             !.evidence = evidence] : evidence \in {Bad, <<>>}}

\* Evidence of other kinds for Intel Trust Authority.
ItaExtras ==
    {None, Extra("sha256", n1, {"sgx"}), Extra("sha512", n1, {"nvidia"}),
     Extra("sha256", n1, {"az-tdx-vtpm"}), Extra("sha512", n1, {"snp"}),
     Extra("sha512", n1, {"tdx"}), NoGpus, TwoGpus,
     [Extra("sha256", n1, {"sgx"}) EXCEPT !["sgx"] = <<Forged(@[1])>>],
     [Extra("sha512", n1, {"tdx"}) EXCEPT !["tdx"] = <<Forged(@[1])>>]}

ItaRequests ==
    {Kbs("kbs_ita", "tdx", "sha512", Key, extra) : extra \in ItaExtras}
    \cup {Kbs("kbs_ita", tee, "sha256", Key, extra) :
            tee \in {"sgx", "az-tdx-vtpm"}, extra \in ItaExtras}
    \cup {[Kbs("kbs_ita", "tdx", "sha512", Key, extra) EXCEPT
             !.evidence[1].genuine = FALSE] : extra \in ItaExtras}
    \cup {[Kbs("kbs_ita", "tdx", "sha512", Key, None) EXCEPT
             !.policy_ids = <<"p">>, !.allow_unmatched = allow] :
            allow \in {None, TRUE, FALSE}}

ChallengeRequests ==
    {[entry |-> "challenge", backend |-> backend, tee |-> tee,
      params |-> params] :
        backend \in {"ita", "coco"}, tee \in {"sgx", "tdx", "se"},
        params \in {None, NotText, [algorithms |-> NotText],
                    [algorithms |-> {}], [algorithms |-> {"sha256"}],
                    [algorithms |-> {"sha256", "sha512"}]}}

\* The key of the second CPU, if it has one, comes first.
MCExtraPaths == <<"CPU1">>

MCRequests == AsRequests \cup CocoRequests \cup ItaRequests
              \cup ChallengeRequests

-----------------------------------------------------------------------------
(* Policies. *)

Claim(name, value) == [name |-> name, value |-> value]
Result(trust, extensions) == [claims |-> trust, extensions |-> extensions]
Named(name, key) == [name |-> name, key |-> key]

MCPolicyResults ==
    {None, NotText, Result(<<>>, <<>>),
     Result(<<Claim("hardware", 2), Claim("executables", 2)>>, <<>>),
     Result(<<Claim("hardware", 97), Claim("executables", -2)>>, <<>>),
     Result(<<Claim("hardware", 2), Claim("executables", -97)>>, <<>>),
     Result(<<Claim("hardware", -1)>>, <<>>),
     Result(<<Claim("hardware", -32), Claim("executables", -1)>>, <<>>),
     Result(<<Claim("hardware", 258)>>, <<>>),
     Result(<<Claim("hardware", NotText)>>, <<>>),
     Result(<<Claim("hardware", 2), Claim("unknown", 2)>>, <<>>),
     Result(<<Claim("hardware", 2)>>, <<Named("e", 1), Named("f", 2)>>),
     Result(<<Claim("hardware", 2)>>, <<Named("e", 1), Named("e", 2)>>)}
=============================================================================
