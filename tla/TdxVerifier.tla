----------------------------- MODULE TdxVerifier -----------------------------
(***************************************************************************)
(* What the TDX verifier component computes from one piece of evidence     *)
(* (wasm-components/tdx-verifier-component) and how it gets, stores and    *)
(* judges the collateral of a quote (wasm-components/dcap-qvl-wasi).       *)
(*                                                                         *)
(* A collateral is a record [tcb, qe, pck_crl, root_ca_crl].  Its two      *)
(* documents say when they want to be fetched again (next) and are signed  *)
(* by Intel, down to the issuer chain that came with them, or not; the TCB *)
(* info also says whom it is for (fmspc).  A revocation list is "der";     *)
(* "framed", that is DER of its own length which is no list of Intel's;    *)
(* "text", PEM, hex or base64 of the list; "trailing", the list with bytes *)
(* after it; "long", a list of 64 KiB or more, whose length the component  *)
(* cannot read; or "junk".                                                 *)
(***************************************************************************)
EXTENDS Integers, Sequences

CONSTANTS
    None,           \* an optional field that is absent
    ReportDataLen,  \* length of REPORT_DATA, in units of 16 bytes
    ConfigIdLen     \* length of MRCONFIGID, in units

-----------------------------------------------------------------------------
(* Revocation lists. *)

CrlForms == {"der", "framed", "text", "trailing", "long", "junk"}

normalize_crl_bytes(crl) == IF crl = "text" THEN "der" ELSE crl

\* Only the tag and the length are looked at.
looks_like_der_crl(crl) == crl \in {"der", "framed"}

trim_der_trailing(crl) == IF crl = "trailing" THEN "der" ELSE crl

\* Decoded, then cut when the length does not fit.
Cleaned(crl) == trim_der_trailing(normalize_crl_bytes(crl))

-----------------------------------------------------------------------------
(* Fetching.  A reply holds what each endpoint of the provisioning service *)
(* answers: a document or the form of a list, or None for any failure.     *)

\* The DER endpoint, or the PEM one when its answer is no DER.
PckCrl(reply) ==
    LET crl == normalize_crl_bytes(reply.pck)
        again == reply.pck_pem # None
                 /\ looks_like_der_crl(normalize_crl_bytes(reply.pck_pem))
    IN  IF ~looks_like_der_crl(crl) /\ again
        THEN normalize_crl_bytes(reply.pck_pem)
        ELSE trim_der_trailing(crl)

\* A caching service is asked first, then the root certificate's
\* distribution point.
RootCrl(reply, intel) ==
    IF ~intel /\ reply.root # None THEN Cleaned(reply.root)
    ELSE IF reply.crl_dp # None THEN Cleaned(reply.crl_dp)
    ELSE None

\* None when any part that is needed cannot be had or parsed.  Signatures
\* and the FMSPC are as the service sent them.
fetch_collateral_uncached(reply, intel) ==
    IF reply.pck = None \/ reply.tcb = None \/ reply.qe = None
       \/ RootCrl(reply, intel) = None
    THEN None
    ELSE [tcb |-> reply.tcb, qe |-> reply.qe, pck_crl |-> PckCrl(reply),
          root_ca_crl |-> RootCrl(reply, intel)]

\* The file name: the service is the same for every quote.
cache_key(quote) == [fmspc |-> quote.fmspc, ca |-> quote.ca]

\* Both lists of a collateral look like DER.
Framed(collateral) ==
    /\ looks_like_der_crl(collateral.pck_crl)
    /\ looks_like_der_crl(collateral.root_ca_crl)

\* Mutant: the lists of a file are not looked at.
ReadsAnyList(file, Torn) == IF file = Torn THEN None ELSE file

\* A file that does not parse, or whose lists are no DER, is no collateral.
read_cache(file, Torn) ==
    IF file \in {None, Torn} THEN None
    ELSE LET read == [file EXCEPT !.pck_crl = Cleaned(@),
                                  !.root_ca_crl = Cleaned(@)]
         IN  IF Framed(read) THEN read ELSE None

\* Mutant: the TCB info only has to say when to fetch it again.
FreshForEver(collateral, now) == collateral.tcb.next # None

\* Only the TCB info decides whether a cached collateral is used.
cached_collateral_is_fresh(collateral, now) ==
    /\ collateral.tcb.next # None
    /\ now <= collateral.tcb.next

-----------------------------------------------------------------------------
(* Verifying. *)

\* A document that does not say when to fetch it again does not expire.
collateral_expired(collateral, now) ==
    \E next \in {collateral.tcb.next, collateral.qe.next} :
        next # None /\ now > next

\* dcap_qvl::verify, told to ignore expiry: the collateral is Intel's, for
\* the platform of the quote, and the quote is genuine.
CollateralFits(quote, collateral) ==
    /\ collateral.tcb.signed /\ collateral.qe.signed
    /\ collateral.tcb.fmspc = quote.fmspc
    /\ {collateral.pck_crl, collateral.root_ca_crl} \subseteq {"der", "long"}

QuoteVerifies(quote, collateral) ==
    quote.genuine /\ CollateralFits(quote, collateral)

\* Pads with zeros; data longer than the field is an error.
FitsTdx(data, len) == Len(data) <= len
RegularizeTdx(data, len) ==
    [i \in 1..len |-> IF i <= Len(data) THEN data[i] ELSE 0]

TdxBinds(expected, field, len) ==
    expected # None => /\ FitsTdx(expected, len)
                       /\ RegularizeTdx(expected, len) = field

\* The event log is optional, but one that is there must replay to the RTMRs.
EventLogMatches(ccel) == ccel \in {None, "replays"}

\* parse_evidence and the parsers of the quote and its certification data.
TdxParses(evidence) == evidence.quote # None

\* evaluate_impl once the collateral is there.
TdxVerifies(evidence, collateral, expected) ==
    /\ QuoteVerifies(evidence.quote, collateral)
    /\ TdxBinds(expected.report_data, evidence.quote.report_data,
                ReportDataLen)
    /\ TdxBinds(expected.init_data, evidence.quote.mr_config_id, ConfigIdLen)
    /\ EventLogMatches(evidence.ccel)

\* The claims of an accepted quote.
TdxClaims(evidence, collateral, now) ==
    [report_data |-> evidence.quote.report_data,
     init_data |-> evidence.quote.mr_config_id,
     collateral_expired |-> collateral_expired(collateral, now)]
=============================================================================
