----------------------------- MODULE SnpVerifier -----------------------------
(***************************************************************************)
(* What the SNP verifier component computes from one piece of evidence     *)
(* (wasm-components/snp-verifier-component).  Everything here is a         *)
(* function of the evidence, of the data the caller expects and of the     *)
(* endorsement key; where that key comes from (the evidence, the cache or  *)
(* AMD's key distribution service) is the business of                      *)
(* VerifierComponents.                                                     *)
(*                                                                         *)
(* A certificate is a record [subject, signer, cn, hwid, spl]: whose key   *)
(* it holds, whose key signed it, and the extensions the verifier reads;   *)
(* bytes that are no certificate have no subject and no signer.            *)
(* Bytes are sequences of 16-byte units, each of them zero or not.         *)
(***************************************************************************)
EXTENDS Integers, Sequences, FiniteSetsExt

CONSTANTS
    None,           \* an optional field that is absent
    ReportDataLen,  \* length of REPORT_DATA, in units
    HostDataLen     \* length of HOST_DATA, in units

-----------------------------------------------------------------------------
(* Processors and what AMD vouches for them. *)

Generations == {"Milan", "Genoa", "Turin"}

\* Upper ends are those of the code: 0xA0..0xAF leaves 0xAF out.
ProcessorGeneration(report) ==
    CASE report.family = 25 /\ report.model \in 0..15 -> "Milan"
      [] report.family = 25 /\ report.model \in (16..31) \cup (160..174)
            -> "Genoa"
      [] report.family = 26 /\ report.model \in 0..17 -> "Turin"
      [] OTHER -> None

Authority(gen, role, signer) ==
    [subject |-> [gen |-> gen, role |-> role],
     signer |-> [gen |-> gen, role |-> signer],
     cn |-> role, hwid |-> None, spl |-> None]

\* The ASK, ARK and ASVK compiled into the component.
VendorCertificates == [gen \in Generations |->
    [ark  |-> Authority(gen, "ARK", "ARK"),
     ask  |-> Authority(gen, "ASK", "ARK"),
     asvk |-> Authority(gen, "ASVK", "ARK")]]

\* (signer, signed).verify() of the sev crate.
Signs(signer, cert) == cert.signer = signer.subject

\* Chain::verify of the sev crate.
ChainVerifies(ark, ask, vek) ==
    Signs(ark, ark) /\ Signs(ark, ask) /\ Signs(ask, vek)

-----------------------------------------------------------------------------
(* The key that endorses the report. *)

\* The entries of some types, by their places in the table.
OfType(chain, types) == {k \in DOMAIN chain : chain[k].type \in types}

\* The certificate of the last entry of that type, or the vendor's.
LastOr(chain, type, default) ==
    LET entries == OfType(chain, {type})
    IN  IF entries = {} THEN default ELSE chain[Max(entries)].cert

\* The first VCEK or VLEK of the table wins.
Veks(chain) == OfType(chain, {"VCEK", "VLEK"})
ProvidedVek(chain) == chain[Min(Veks(chain))].cert

\* What the evidence leaves out is filled in from the vendor's certificates:
\* an ASK for a VCEK, an ASVK for a VLEK.
VendorAsk(gen, chain) ==
    IF chain[Min(Veks(chain))].type = "VLEK" THEN VendorCertificates[gen].asvk
                                             ELSE VendorCertificates[gen].ask

FilledChainVerifies(gen, chain) ==
    /\ Veks(chain) # {}
    /\ ChainVerifies(LastOr(chain, "ARK", VendorCertificates[gen].ark),
                     LastOr(chain, "ASK", VendorAsk(gen, chain)),
                     ProvidedVek(chain))

\* Mutant: the ARK of the evidence is taken as it is.
OwnArkVerifies(gen, chain) == FilledChainVerifies(gen, chain)

\* A chain that came with the evidence.  Every ARK in it must be signed by
\* ours, every ASK be a certificate.
ProvidedChainVerifies(gen, chain) ==
    /\ \A k \in OfType(chain, {"ARK"}) :
          Signs(VendorCertificates[gen].ark, chain[k].cert)
    /\ \A k \in OfType(chain, {"ASK"}) : chain[k].cert.subject # None
    /\ FilledChainVerifies(gen, chain)

\* What AMD's key distribution service answered, or the cache had.
FetchedChainVerifies(gen, vcek) ==
    /\ vcek # None
    /\ ChainVerifies(VendorCertificates[gen].ark,
                     VendorCertificates[gen].ask, vcek)

\* What the URL of a VCEK is made of; Turin processors are named by the
\* first bytes of their chip id only.
VcekUrl(report, gen) ==
    [gen |-> gen, spl |-> [report.tcb EXCEPT
                              !.fmc = IF gen = "Turin" THEN @ ELSE None],
     hwid |-> IF gen = "Turin" THEN <<Head(report.chip)>> ELSE report.chip]

\* No URL for a masked chip id, or for a Turin processor without fmc.
HasVcekUrl(report, gen) ==
    /\ \E i \in DOMAIN report.chip : report.chip[i] # 0
    /\ gen = "Turin" => report.tcb.fmc # None

-----------------------------------------------------------------------------
(* The report. *)

\* The security patch levels every VEK carries.
SplOids == {"ucode", "snp", "tee", "loader"}

\* The fmc of a Turin report is unwrapped once the VEK's was found.
TcbPanics(report, vek, gen) ==
    /\ vek.cn # None
    /\ vek.cn = "VCEK" => vek.hwid = report.chip
    /\ \A oid \in SplOids : vek.spl[oid] = report.tcb[oid]
    /\ gen = "Turin" /\ vek.spl.fmc # None /\ report.tcb.fmc = None

verify_report_tcb(report, vek, gen) ==
    /\ vek.cn # None
    /\ vek.cn = "VCEK" => vek.hwid = report.chip
    /\ \A oid \in SplOids : vek.spl[oid] = report.tcb[oid]
    /\ gen = "Turin" => vek.spl.fmc # None /\ vek.spl.fmc = report.tcb.fmc

\* Mutant: the field is compared as far as the last unit but one.
RegularizeShort(data, len) ==
    [i \in 1..len |-> IF i <= Len(data) /\ i < len THEN data[i] ELSE 0]

\* Pads with zeros or cuts to the length of the field.
RegularizeSnp(data, len) ==
    [i \in 1..len |-> IF i <= Len(data) THEN data[i] ELSE 0]

\* Data nobody expects is not compared.
SnpBinds(expected, field, len) ==
    expected = None \/ RegularizeSnp(expected, len) = field

ReportVersions == 3..5

\* The checks before any key is needed; evidence that parses has a report.
SnpEarlyChecks(report) ==
    /\ report # None
    /\ report.version \in ReportVersions
    /\ ProcessorGeneration(report) # None

\* The checks after a chain verified.
SnpReportVerifies(report, vek, gen, expected) ==
    /\ report.signer = vek.subject
    /\ verify_report_tcb(report, vek, gen)
    /\ report.vmpl = 0
    /\ SnpBinds(expected.report_data, report.report_data, ReportDataLen)
    /\ SnpBinds(expected.init_data, report.host_data, HostDataLen)

\* The claims of an accepted report: always with report_data and init_data.
parse_tee_evidence(report) ==
    [report_data |-> report.report_data, init_data |-> report.host_data,
     tcb |-> report.tcb]
=============================================================================
