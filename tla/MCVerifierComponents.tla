------------------------ MODULE MCVerifierComponents ------------------------
(***************************************************************************)
(* Three hosts: no cache, one instance and every kind of SNP and TDX       *)
(* evidence; a cache, one instance and every kind of reply of Intel's      *)
(* service; a cache that two instances share and a host that may crash.    *)
(***************************************************************************)
EXTENDS VerifierComponents

CONSTANTS i1, i2

Tcb(fmc) == [ucode |-> 1, snp |-> 1, tee |-> 1, loader |-> 1, fmc |-> fmc]

Report(family, model, fmc) ==
    [version |-> 3, family |-> family, model |-> model, chip |-> <<1, 0>>,
     tcb |-> Tcb(fmc), vmpl |-> 0, report_data |-> <<1, 0>>,
     host_data |-> <<1>>, signer |-> None]

\* A report signed by the VCEK of the processor it is from.
Signed(report) ==
    LET gen == ProcessorGeneration(report)
    IN  IF gen = None THEN report
        ELSE [report EXCEPT !.signer = VcekUrl(report, gen)]

Milan == Signed(Report(25, 1, None))

Reports ==
    {Milan, Signed(Report(25, 15, None)), Signed(Report(25, 16, None)),
     Signed(Report(25, 174, None)), Report(25, 175, None),
     Signed(Report(26, 17, 1)), Signed(Report(26, 17, None)),
     Report(26, 18, 1), Report(24, 1, None)}
    \cup {[Milan EXCEPT !.version = v] : v \in {2, 5, 6}}
    \cup {[Milan EXCEPT !.vmpl = 1], [Milan EXCEPT !.chip = <<0, 0>>],
          [Milan EXCEPT !.tcb.snp = 2], [Milan EXCEPT !.chip = <<2, 0>>],
          [Milan EXCEPT !.host_data = <<0>>]}

Expected(report_data, init_data) ==
    [report_data |-> report_data, init_data |-> init_data]

Data == {None, <<>>, <<1>>, <<0>>, <<1, 0>>, <<1, 1>>, <<1, 0, 1>>}

Entry(type, cert) == [type |-> type, cert |-> cert]
NoCertificate == [subject |-> None, signer |-> None, cn |-> None,
                  hwid |-> None, spl |-> None]

\* A chain that ends in an ARK of somebody else, for a key of their own.
Key(owner) == [owner |-> owner]

ForgedArk == [subject |-> Key("their ARK"), signer |-> Key("their ARK"),
              cn |-> "ARK", hwid |-> None, spl |-> None]
ForgedAsk == [ForgedArk EXCEPT !.cn = "ASK", !.subject = Key("their ASK")]

MilanVcek == Vcek(VcekUrl(Milan, "Milan"))
ForgedVcek == [MilanVcek EXCEPT !.subject = Key("their VCEK"),
                                !.signer = Key("their ASK")]
Vlek == [MilanVcek EXCEPT !.subject = Key("VLEK"), !.cn = "VLEK", !.hwid = None,
                          !.signer = [gen |-> "Milan", role |-> "ASVK"]]
Vendor == VendorCertificates["Milan"]

Chains ==
    {None, <<>>, <<Entry("ARK", Vendor.ark)>>,
     <<Entry("VCEK", MilanVcek)>>, <<Entry("VLEK", Vlek)>>,
     <<Entry("VCEK", MilanVcek), Entry("VLEK", Vlek)>>,
     <<Entry("VLEK", Vlek), Entry("VCEK", MilanVcek)>>,
     <<Entry("ARK", Vendor.ark), Entry("ASK", Vendor.ask),
       Entry("VCEK", MilanVcek)>>,
     <<Entry("ASK", NoCertificate), Entry("ASK", Vendor.ask),
       Entry("VCEK", MilanVcek)>>,
     <<Entry("ARK", ForgedArk), Entry("ASK", ForgedAsk),
       Entry("VCEK", ForgedVcek)>>,
     <<Entry("ASK", ForgedAsk), Entry("VCEK", ForgedVcek)>>,
     <<Entry("VCEK", [MilanVcek EXCEPT !.cn = None])>>,
     <<Entry("CRL", NoCertificate), Entry("VCEK", MilanVcek)>>}

\* Certificates that may come in the place of a VCEK: for a key of somebody
\* else, for the right key from somebody else, and AMD's of another TCB,
\* another chip and another generation.
ForeignVceks ==
    {ForgedVcek, [MilanVcek EXCEPT !.signer = Key("their ASK")],
     [MilanVcek EXCEPT !.spl.snp = 2], [MilanVcek EXCEPT !.hwid = <<2, 0>>],
     [MilanVcek EXCEPT !.signer.gen = "Genoa"],
     [MilanVcek EXCEPT !.signer.role = "ASVK", !.cn = "VLEK"]}

TurinVcek == Vcek(VcekUrl(Report(26, 17, 1), "Turin"))

Snp(report, chain, expected) ==
    [kind |-> "snp", expected |-> expected,
     evidence |-> [report |-> report, chain |-> chain]]

Some == Expected(<<1, 0>>, <<1>>)

\* The signers that a report with a chain may have.
SnpInputs ==
    {Snp(report, None, Some) : report \in Reports \cup {None}}
    \cup {Snp([Milan EXCEPT !.signer = signer], chain, Some) :
            signer \in {Milan.signer, Key("VLEK"), Key("their VCEK")},
            chain \in Chains \ {None}}
    \cup {Snp([Report(26, 17, fmc) EXCEPT !.signer = TurinVcek.subject],
              <<Entry("VCEK", TurinVcek)>>, Some) : fmc \in {None, 1, 2}}
    \cup {Snp(Milan, None, Expected(rd, id)) : rd \in Data, id \in Data}

Quote == [fmspc |-> "f", ca |-> "platform", genuine |-> TRUE,
          report_data |-> <<1, 0>>, mr_config_id |-> <<1, 1>>]

Tdx(quote, ccel, expected) ==
    [kind |-> "tdx", expected |-> expected,
     evidence |-> [quote |-> quote, ccel |-> ccel]]

Fits == Expected(<<1, 0>>, <<1, 1>>)

TdxInputs ==
    {Tdx(quote, ccel, Fits) :
        quote \in {None, Quote, [Quote EXCEPT !.genuine = FALSE],
                   [Quote EXCEPT !.fmspc = "g"]},
        ccel \in {None, "replays", "differs"}}
    \cup {Tdx(Quote, None, Expected(rd, id)) : rd \in Data, id \in Data}

\* Replies: a good one, and what each endpoint may answer instead.
Good == [pck |-> "der", pck_pem |-> "text", root |-> "text", crl_dp |-> "der",
         tcb |-> [next |-> 2, signed |-> TRUE, fmspc |-> "f"],
         qe |-> [next |-> 1, signed |-> TRUE]]

AllReplies ==
    {[Good EXCEPT !.pck = pck, !.pck_pem = pem] :
        pck \in CrlForms \cup {None}, pem \in {None, "text", "framed", "junk"}}
    \cup {[Good EXCEPT !.root = root, !.crl_dp = dp] :
            root \in {None, "text", "framed", "junk", "trailing"},
            dp \in {None, "der", "framed", "long", "junk"}}
    \cup {[Good EXCEPT !.tcb.next = tcb, !.qe.next = qe] :
            tcb \in {None, 0, 1}, qe \in {None, 1}}
    \cup {[Good EXCEPT !.tcb = None], [Good EXCEPT !.qe = None],
          [Good EXCEPT !.tcb.signed = FALSE], [Good EXCEPT !.qe.signed = FALSE],
          [Good EXCEPT !.tcb.fmspc = "g"]}

Unframed == [Good EXCEPT !.pck = "junk", !.pck_pem = None]
Foreign == [Good EXCEPT !.tcb.fmspc = "g", !.tcb.next = 1]

MCSetups ==
    <<[cached |-> FALSE, intel |-> TRUE, instances |-> {i1}, crashes |-> 0,
       inputs |-> SnpInputs \cup TdxInputs, bodies |-> ForeignVceks,
       replies |-> {Good}],
      [cached |-> TRUE, intel |-> FALSE, instances |-> {i1}, crashes |-> 1,
       inputs |-> {Tdx(Quote, None, Fits)}, bodies |-> {},
       replies |-> AllReplies],
      [cached |-> TRUE, intel |-> FALSE, instances |-> {i1, i2},
       crashes |-> 1, bodies |-> {ForgedVcek},
       replies |-> {Good, Unframed, Foreign},
       inputs |-> {Tdx(Quote, None, Fits), Snp(Milan, None, Some)}]>>
=============================================================================
