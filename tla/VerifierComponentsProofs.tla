---------------------- MODULE VerifierComponentsProofs ----------------------
(***************************************************************************)
(* Proofs about VerifierComponents for any evidence, replies, hosts and    *)
(* number of instances.                                                    *)
(***************************************************************************)
EXTENDS VerifierComponents, WellFoundedInduction, TLAPS

-----------------------------------------------------------------------------
(* The inductive invariant *)

\* The fields of an instance, whatever they hold.
Fields(a) ==
    a = [pc |-> a.pc, kind |-> a.kind, evidence |-> a.evidence,
         expected |-> a.expected, key |-> a.key, got |-> a.got,
         now |-> a.now, hit |-> a.hit, failed |-> a.failed, claims |-> a.claims]

\* Where an instance is only if there is a cache.
Cached == {"read", "open", "write", "late"}

Working == {"read", "fetch", "open", "write", "verify", "late"}

\* The generation of the processor a report is from.
Gen(a) == ProcessorGeneration(a.evidence.report)

\* An instance works on an input of its host and under the key of that input.
Begun(a, host) ==
    /\ Fields(a) /\ a.pc \in Pcs /\ a.failed \in BOOLEAN /\ a.hit \in BOOLEAN /\ a.now \in Nat
    /\ a.pc = "idle" => a = Idle
    /\ a.pc # "idle" => InputShape(a.kind, a.evidence, a.expected)
    /\ a.pc \in Working /\ a.kind = "snp" =>
          SnpEarlyChecks(a.evidence.report) /\ a.key = VcekUrl(a.evidence.report, Gen(a))
    /\ a.pc \in Working /\ a.kind = "tdx" =>
          TdxParses(a.evidence) /\ a.key = cache_key(a.evidence.quote)
    /\ a.pc \in Cached => host.cached
    /\ a.pc = "trapped" =>
          /\ a.kind = "snp" /\ Gen(a) = "Turin"
          /\ a.evidence.report.tcb.fmc = None

\* A collateral: its lists are no text and have nothing behind.
Collateral(c) ==
    /\ c = [tcb |-> c.tcb, qe |-> c.qe, pck_crl |-> c.pck_crl, root_ca_crl |-> c.root_ca_crl]
    /\ {c.pck_crl, c.root_ca_crl} \subseteq {"der", "framed", "long", "junk"}
    /\ {c.tcb.next, c.qe.next} \subseteq Nat \cup {None}

\* A reply of the provisioning service, as it was made a collateral of.
Kept(c, host) ==
    /\ c # None /\ Collateral(c)
    /\ \E reply \in host.replies : c = fetch_collateral_uncached(reply, host.intel)

\* What an instance has got.
Holds(a, host) ==
    /\ a.pc \in {"read", "fetch", "open", "write"} => a.hit = FALSE
    /\ a.pc \in {"open", "write", "late"} => a.got # None
    /\ a.pc \in {"open", "write", "verify"} /\ a.kind = "tdx" =>
          /\ Kept(a.got, host)
          /\ ~a.failed =>
                CollateralFits(a.evidence.quote, a.got) \/ (a.hit /\ Framed(a.got))
    /\ a.pc = "late" /\ a.kind = "tdx" => a.got = Torn \/ Kept(a.got, host)
    /\ a.pc = "verify" /\ a.kind = "tdx" /\ a.hit =>
          a.got.tcb.next # None /\ a.now <= a.got.tcb.next

\* Every certificate the instance may have seen.
SeenBy(a) ==
    {VendorCertificates[Gen(a)].ask, VendorCertificates[Gen(a)].asvk, a.got} \cup
    (IF a.evidence.chain = None THEN {}
     ELSE {a.evidence.chain[k].cert : k \in DOMAIN a.evidence.chain})

\* The key that signed an accepted report is certified.
Endorsed(a) ==
    \E vek, ask \in SeenBy(a) :
        /\ a.evidence.report.signer = vek.subject /\ vek.signer = ask.subject
        /\ ask.signer = [gen |-> Gen(a), role |-> "ARK"]
        /\ \A oid \in SplOids : vek.spl[oid] = a.evidence.report.tcb[oid]
        /\ vek.cn = "VCEK" => vek.hwid = a.evidence.report.chip

\* What was expected is in the fields.
Bound(a) ==
    IF a.kind = "snp"
    THEN /\ SnpBinds(a.expected.report_data, a.claims.report_data, ReportDataLen)
         /\ SnpBinds(a.expected.init_data, a.claims.init_data, HostDataLen)
    ELSE /\ TdxBinds(a.expected.report_data, a.claims.report_data, ReportDataLen)
         /\ TdxBinds(a.expected.init_data, a.claims.init_data, ConfigIdLen)

\* A genuine quote is refused for a failure or for a misleading reply.
Healed(a, host) ==
    TdxParses(a.evidence) /\ TdxVerifies(a.evidence, Fitting(a.evidence.quote), a.expected) =>
        /\ a.hit = TRUE /\ Kept(a.got, host) /\ Framed(a.got)
        /\ ~CollateralFits(a.evidence.quote, a.got)

\* A quote is accepted by documents that were current.
Current(a) ==
    /\ a.hit => a.got.tcb.next # None /\ a.now <= a.got.tcb.next
    /\ ~a.claims.collateral_expired =>
          \A next \in {a.got.tcb.next, a.got.qe.next} : next # None => a.now <= next

Answers(a, host) ==
    /\ a.pc = "accepted" => Bound(a)
    /\ a.pc = "accepted" /\ a.kind = "snp" => Endorsed(a)
    /\ a.pc = "accepted" /\ a.kind = "tdx" => Current(a)
    /\ a.pc = "refused" /\ a.kind = "tdx" /\ ~a.failed => Healed(a, host)

InstInv(a, host) == Begun(a, host) /\ Holds(a, host) /\ Answers(a, host)

\* The files of a cache: of the TDX component, nothing that parses, or a
\* reply of the service.
FileInv ==
    /\ \A k \in DOMAIN file :
          /\ file[k] # None
          /\ "hwid" \notin DOMAIN k => file[k] = Torn \/ Kept(file[k], Host)
    /\ ~Host.cached => DOMAIN file = {}

\* No instance took a time that has not come.
Times == \A i \in Instances : inst[i].now <= clock

IndInv ==
    /\ setup \in DOMAIN Setups /\ clock \in 0 .. MaxTime
    /\ inst = [i \in Instances |-> inst[i]] /\ \A i \in Instances : InstInv(inst[i], Host)
    /\ FileInv /\ Times

-----------------------------------------------------------------------------
(* Certificates *)

\* A set of places in a table has a first and a last one.
LEMMA FirstAndLast ==
  ASSUME NEW n \in Nat, NEW S, S \subseteq 1 .. n, S # {}
  PROVE  Min(S) \in S /\ Max(S) \in S
<1>1. \E x \in S : \A y \in S : x <= y
  <2>1. S \subseteq Nat
    OBVIOUS
  <2>2. PICK x \in S : \A y \in S : ~(<<y, x>> \in OpToRel(<, Nat))
    BY <2>1, NatLessThanWellFounded, WFMin
  <2>3. ASSUME NEW y \in S PROVE x <= y
    <3>1. x \in Nat /\ y \in Nat
      BY <2>1
    <3>2. ~(y < x)
      BY <2>2, <3>1 DEF OpToRel
    <3> QED BY <3>1, <3>2
  <2> QED BY <2>3
<1>2. \E x \in S : \A y \in S : x >= y
  <2>1. PICK T : T = {n - y : y \in S}
    OBVIOUS
  <2>2. T \subseteq Nat /\ T # {}
    <3>1. \A y \in S : n - y \in Nat
      OBVIOUS
    <3> QED BY <2>1, <3>1
  <2>3. PICK z \in T : \A y \in T : ~(<<y, z>> \in OpToRel(<, Nat))
    BY <2>2, NatLessThanWellFounded, WFMin
  <2>4. PICK x \in S : z = n - x
    BY <2>1
  <2>5. ASSUME NEW y \in S PROVE x >= y
    <3>1. n - y \in T /\ n - y \in Nat /\ z \in Nat
      BY <2>1, <2>2
    <3>2. ~(n - y < z)
      BY <2>3, <3>1 DEF OpToRel
    <3> QED BY <2>4, <3>2
  <2> QED BY <2>5
<1> QED BY <1>1, <1>2 DEF Min, Max

\* A chain that came with the evidence ends in the ARK that is compiled in.
LEMMA ProvidedEndorses ==
  ASSUME NEW gen \in Generations, NEW chain, Len(chain) \in Nat,
         DOMAIN chain = 1 .. Len(chain), ProvidedChainVerifies(gen, chain)
  PROVE  \E vek, ask \in {VendorCertificates[gen].ask, VendorCertificates[gen].asvk} \cup
                         {chain[k].cert : k \in DOMAIN chain} :
            /\ vek = ProvidedVek(chain) /\ vek.signer = ask.subject
            /\ ask.signer = [gen |-> gen, role |-> "ARK"]
<1>1. PICK v : v = VendorCertificates[gen]
  OBVIOUS
<1>2. v.ark.subject = [gen |-> gen, role |-> "ARK"]
  BY <1>1 DEF VendorCertificates, Authority
<1>3. PICK vek, ask, ark :
         /\ vek = ProvidedVek(chain) /\ ask = LastOr(chain, "ASK", VendorAsk(gen, chain))
         /\ ark = LastOr(chain, "ARK", v.ark)
         /\ ark.signer = ark.subject /\ ask.signer = ark.subject /\ vek.signer = ask.subject
         /\ Veks(chain) # {}
  BY <1>1 DEF ProvidedChainVerifies, FilledChainVerifies, ChainVerifies, Signs
<1>4. ark.subject = v.ark.subject
  <2>1. PICK arks : arks = OfType(chain, {"ARK"})
    OBVIOUS
  <2>2. CASE arks = {}
    BY <1>3, <2>1, <2>2 DEF LastOr
  <2>3. CASE arks # {}
    <3>1. ark = chain[Max(arks)].cert
      BY <1>3, <2>1, <2>3 DEF LastOr
    <3>2. Max(arks) \in arks
      BY <2>1, <2>3, FirstAndLast DEF OfType
    <3>3. ark.signer = v.ark.subject
      BY <1>1, <2>1, <3>1, <3>2 DEF ProvidedChainVerifies, Signs
    <3> QED BY <1>3, <3>3
  <2> QED BY <2>2, <2>3
<1>5. vek \in {chain[k].cert : k \in DOMAIN chain}
  <2>1. Min(Veks(chain)) \in Veks(chain)
    BY <1>3, FirstAndLast DEF Veks, OfType
  <2> QED BY <1>3, <2>1 DEF ProvidedVek, Veks, OfType
<1>6. ask \in {v.ask, v.asvk} \cup {chain[k].cert : k \in DOMAIN chain}
  <2>1. PICK asks : asks = OfType(chain, {"ASK"})
    OBVIOUS
  <2>2. CASE asks = {}
    BY <1>1, <1>3, <2>1, <2>2 DEF LastOr, VendorAsk
  <2>3. CASE asks # {}
    <3>1. ask = chain[Max(asks)].cert
      BY <1>3, <2>1, <2>3 DEF LastOr
    <3>2. Max(asks) \in asks
      BY <2>1, <2>3, FirstAndLast DEF OfType
    <3> QED BY <2>1, <3>1, <3>2 DEF OfType
  <2> QED BY <2>2, <2>3
<1> QED BY <1>1, <1>2, <1>3, <1>4, <1>5, <1>6

\* A VCEK that was fetched is signed by the ASK that is compiled in.
LEMMA FetchedEndorses ==
  ASSUME NEW gen \in Generations, NEW vcek, FetchedChainVerifies(gen, vcek)
  PROVE  /\ vcek.signer = VendorCertificates[gen].ask.subject
         /\ VendorCertificates[gen].ask.signer = [gen |-> gen, role |-> "ARK"]
BY DEF FetchedChainVerifies, ChainVerifies, Signs, VendorCertificates, Authority

-----------------------------------------------------------------------------
(* Data and fields *)

\* Data of one length are padded or cut to different fields.
LEMMA PaddingIsInjective ==
  ASSUME NEW data \in Seq({0, 1}), NEW len \in Nat, Len(data) <= len, NEW other \in Others(data)
  PROVE  /\ Len(other) = Len(data)
         /\ [i \in 1 .. len |-> IF i <= Len(other) THEN other[i] ELSE 0]
               # [i \in 1 .. len |-> IF i <= Len(data) THEN data[i] ELSE 0]
<1>1. /\ DOMAIN data = 1 .. Len(data) /\ Len(data) \in Nat
      /\ data \in [1 .. Len(data) -> {0, 1}]
  OBVIOUS
<1>2. other \in [1 .. Len(data) -> {0, 1}] /\ other # data
  BY <1>1 DEF Others
<1>3. Len(other) = Len(data)
  BY <1>1, <1>2
<1>4. PICK i \in 1 .. Len(data) : other[i] # data[i]
  BY <1>1, <1>2
<1>5. i \in 1 .. len /\ i <= Len(data)
  BY <1>1, <1>4
<1>6. /\ [j \in 1 .. len |-> IF j <= Len(other) THEN other[j] ELSE 0][i] = other[i]
      /\ [j \in 1 .. len |-> IF j <= Len(data) THEN data[j] ELSE 0][i] = data[i]
  BY <1>3, <1>5
<1> QED BY <1>3, <1>4, <1>6

-----------------------------------------------------------------------------
(* Steps of one instance *)

\* One instance moves, and writes at most a file: what is left to show.
LEMMA OneMoves ==
  ASSUME IndInv, NEW i \in Instances, NEW b, inst' = [inst EXCEPT ![i] = b],
         UNCHANGED env, InstInv(b, Host), UNCHANGED file \/ FileInv',
         b.now \in {inst[i].now, clock, 0}
  PROVE  IndInv'
<1>1. UNCHANGED <<setup, clock>> /\ Host' = Host
  BY DEF env, Host
<1>2. inst' = [j \in Instances |-> inst'[j]] /\ inst'[i] = b
      /\ \A j \in Instances \ {i} : inst'[j] = inst[j]
  BY DEF IndInv
<1>3. FileInv'
  BY <1>1 DEF IndInv, FileInv
<1>4. \A j \in Instances : InstInv(inst[j], Host)'
  <2>1. ASSUME NEW j \in Instances PROVE InstInv(inst'[j], Host)
    BY <1>2, <2>1 DEF IndInv
  <2> QED BY <1>1, <2>1
<1>5. Times'
  <2>1. ASSUME NEW j \in Instances PROVE inst'[j].now <= clock
    <3>1. inst[j].now <= clock /\ clock \in Nat
      BY BoundsAssumption DEF IndInv, Times
    <3> QED BY <1>2, <3>1 DEF IndInv, Times
  <2> QED BY <1>1, <2>1 DEF Times
<1> QED BY <1>1, <1>2, <1>3, <1>4, <1>5 DEF IndInv

\* What an assignment to some of the fields makes of an instance.
Becomes(b, a, pc, got, failed, claims) ==
    /\ Fields(b) /\ b.pc = pc /\ b.got = got /\ b.failed = failed /\ b.claims = claims
    /\ b.kind = a.kind /\ b.evidence = a.evidence /\ b.expected = a.expected /\ b.key = a.key
    /\ b.now = a.now /\ b.hit = a.hit

\* The assignments the actions make, besides Goto and Got.
Judges(i, pc, claims) == inst' = [inst EXCEPT ![i].pc = pc, ![i].claims = claims]
Fails(i, pc) == inst' = [inst EXCEPT ![i].pc = pc, ![i].failed = TRUE]
Fetches(i, pc, got, failed) ==
    inst' = [inst EXCEPT ![i].pc = pc, ![i].got = got, ![i].failed = failed]

Hits(i, got) == inst' = [inst EXCEPT ![i].pc = "verify", ![i].hit = TRUE, ![i].got = got]

\* One instance moves in one of these ways: what is left to show.
LEMMA OneBecomes ==
  ASSUME IndInv, NEW i \in Instances, NEW pc, NEW got, NEW failed, NEW claims,
         inst' = [inst EXCEPT ![i] = inst'[i]], Becomes(inst'[i], inst[i], pc, got, failed, claims),
         UNCHANGED env, InstInv(inst'[i], Host), UNCHANGED file \/ FileInv'
  PROVE  IndInv'
<1>1. inst'[i].now \in {inst[i].now, clock, 0}
  BY DEF Becomes
<1> QED BY <1>1, OneMoves

\* One instance moves on and nothing else of it changes.
LEMMA GotoSets ==
  ASSUME IndInv, NEW i \in Instances, NEW pc, Goto(i, pc)
  PROVE  /\ inst' = [inst EXCEPT ![i] = inst'[i]]
         /\ Becomes(inst'[i], inst[i], pc, inst[i].got, inst[i].failed, inst[i].claims)
<1>1. inst = [j \in Instances |-> inst[j]] /\ Fields(inst[i])
  BY DEF IndInv, InstInv, Begun
<1>2. inst' = [inst EXCEPT ![i] = inst'[i]]
  BY <1>1 DEF Goto
<1>3. Becomes(inst'[i], inst[i], pc, inst[i].got, inst[i].failed, inst[i].claims)
  BY <1>1 DEF Goto, Fields, Becomes
<1> QED BY <1>2, <1>3

\* One instance moves on with what it got.
LEMMA GotSets ==
  ASSUME IndInv, NEW i \in Instances, NEW pc, NEW got, Got(i, pc, got)
  PROVE  /\ inst' = [inst EXCEPT ![i] = inst'[i]]
         /\ Becomes(inst'[i], inst[i], pc, got, inst[i].failed, inst[i].claims)
<1>1. inst = [j \in Instances |-> inst[j]] /\ Fields(inst[i])
  BY DEF IndInv, InstInv, Begun
<1>2. inst' = [inst EXCEPT ![i] = inst'[i]]
  BY <1>1 DEF Got
<1>3. Becomes(inst'[i], inst[i], pc, got, inst[i].failed, inst[i].claims)
  BY <1>1 DEF Got, Fields, Becomes
<1> QED BY <1>2, <1>3

\* One instance moves on with a collateral from the cache.
LEMMA HitsSets ==
  ASSUME IndInv, NEW i \in Instances, NEW got, Hits(i, got)
  PROVE  /\ inst' = [inst EXCEPT ![i] = inst'[i]] /\ Fields(inst'[i])
         /\ inst'[i].pc = "verify" /\ inst'[i].hit = TRUE /\ inst'[i].got = got
         /\ inst'[i].now = inst[i].now /\ inst'[i].failed = inst[i].failed
         /\ inst'[i].kind = inst[i].kind /\ inst'[i].evidence = inst[i].evidence
         /\ inst'[i].expected = inst[i].expected /\ inst'[i].key = inst[i].key
<1>1. inst = [j \in Instances |-> inst[j]] /\ Fields(inst[i])
  BY DEF IndInv, InstInv, Begun
<1> QED BY <1>1 DEF Hits, Fields

\* One instance answers.
LEMMA JudgesSets ==
  ASSUME IndInv, NEW i \in Instances, NEW pc, NEW claims, Judges(i, pc, claims)
  PROVE  /\ inst' = [inst EXCEPT ![i] = inst'[i]]
         /\ Becomes(inst'[i], inst[i], pc, inst[i].got, inst[i].failed, claims)
<1>1. inst = [j \in Instances |-> inst[j]] /\ Fields(inst[i])
  BY DEF IndInv, InstInv, Begun
<1>2. inst' = [inst EXCEPT ![i] = inst'[i]]
  BY <1>1 DEF Judges
<1>3. Becomes(inst'[i], inst[i], pc, inst[i].got, inst[i].failed, claims)
  BY <1>1 DEF Judges, Fields, Becomes
<1> QED BY <1>2, <1>3

\* One instance meets a failure.
LEMMA FailsSets ==
  ASSUME IndInv, NEW i \in Instances, NEW pc, Fails(i, pc)
  PROVE  /\ inst' = [inst EXCEPT ![i] = inst'[i]]
         /\ Becomes(inst'[i], inst[i], pc, inst[i].got, TRUE, inst[i].claims)
<1>1. inst = [j \in Instances |-> inst[j]] /\ Fields(inst[i])
  BY DEF IndInv, InstInv, Begun
<1>2. inst' = [inst EXCEPT ![i] = inst'[i]]
  BY <1>1 DEF Fails
<1>3. Becomes(inst'[i], inst[i], pc, inst[i].got, TRUE, inst[i].claims)
  BY <1>1 DEF Fails, Fields, Becomes
<1> QED BY <1>2, <1>3

\* One instance has asked Intel.
LEMMA FetchesSets ==
  ASSUME IndInv, NEW i \in Instances, NEW pc, NEW got, NEW failed, Fetches(i, pc, got, failed)
  PROVE  /\ inst' = [inst EXCEPT ![i] = inst'[i]]
         /\ Becomes(inst'[i], inst[i], pc, got, failed, inst[i].claims)
<1>1. inst = [j \in Instances |-> inst[j]] /\ Fields(inst[i])
  BY DEF IndInv, InstInv, Begun
<1>2. inst' = [inst EXCEPT ![i] = inst'[i]]
  BY <1>1 DEF Fetches
<1>3. Becomes(inst'[i], inst[i], pc, got, failed, inst[i].claims)
  BY <1>1 DEF Fetches, Fields, Becomes
<1> QED BY <1>2, <1>3

-----------------------------------------------------------------------------
(* SNP *)

\* An SNP instance that has refused keeps the invariant.
LEMMA SnpRefused ==
  ASSUME NEW b, NEW host, Fields(b), b.kind = "snp", b.pc = "refused", b.failed \in BOOLEAN,
         b.hit \in BOOLEAN, b.now \in Nat, InputShape(b.kind, b.evidence, b.expected)
  PROVE  InstInv(b, host)
<1>1. Begun(b, host)
  BY DEF Begun, Working, Pcs, Cached
<1>2. Holds(b, host) /\ Answers(b, host)
  BY DEF Holds, Answers
<1> QED BY <1>1, <1>2 DEF InstInv

\* And so does one that judged a report by a key that is certified.
LEMMA SnpJudged ==
  ASSUME NEW b, NEW host, Fields(b), b.kind = "snp", b.failed \in BOOLEAN,
         b.hit \in BOOLEAN, b.now \in Nat, InputShape(b.kind, b.evidence, b.expected), NEW vek \in SeenBy(b), NEW ask \in SeenBy(b),
         vek.signer = ask.subject, ask.signer = [gen |-> Gen(b), role |-> "ARK"],
         b.pc = SnpVerdict(b.evidence.report, vek, Gen(b), b.expected),
         b.claims = parse_tee_evidence(b.evidence.report)
  PROVE  InstInv(b, host)
<1>1. b.pc \in {"trapped", "accepted", "refused"}
  BY DEF SnpVerdict
<1>2. b.pc = "trapped" => Gen(b) = "Turin" /\ b.evidence.report.tcb.fmc = None
  BY DEF SnpVerdict, TcbPanics
<1>3. b.pc = "accepted" => SnpReportVerifies(b.evidence.report, vek, Gen(b), b.expected)
  BY DEF SnpVerdict
<1>4. Begun(b, host)
  BY <1>1, <1>2 DEF Begun, Working, Pcs, Cached
<1>5. Holds(b, host)
  BY <1>1 DEF Holds
<1>6. b.pc = "accepted" => Bound(b)
  BY <1>3 DEF Bound, SnpReportVerifies, parse_tee_evidence
<1>7. b.pc = "accepted" => Endorsed(b)
  BY <1>3 DEF Endorsed, SnpReportVerifies, verify_report_tcb
<1> QED BY <1>4, <1>5, <1>6, <1>7 DEF InstInv, Answers

\* A report begins: with the chain it came with, or at the cache.
LEMMA SnpStartInv ==
  ASSUME IndInv, NEW i \in Instances, NEW input,
         InputShape(input.kind, input.evidence, input.expected), input.kind = "snp", SnpStart(i, input)
  PROVE  IndInv'
<1>1. PICK e, report, gen : /\ e = input.evidence /\ report = e.report
         /\ gen = IF report = None THEN None ELSE ProcessorGeneration(report)
  OBVIOUS
<1>2. PICK begun : begun = [Idle EXCEPT !.kind = "snp", !.evidence = e, !.expected = input.expected]
  OBVIOUS
<1>3. /\ begun.kind = "snp" /\ begun.evidence = e /\ begun.expected = input.expected
      /\ begun.failed = FALSE /\ begun.got = None /\ begun.key = None /\ Fields(begun)
      /\ begun.hit = FALSE /\ begun.now = 0
  BY <1>2 DEF Idle, Fields
<1>4. PICK provided : provided = (e.chain # None /\ gen # None)
  OBVIOUS
<1>5. PICK b :
        /\ inst' = [inst EXCEPT ![i] = b]
        /\ b = IF ~SnpEarlyChecks(report) THEN [begun EXCEPT !.pc = "refused"]
               ELSE IF provided /\ ProvidedChainVerifies(gen, e.chain)
               THEN [begun EXCEPT !.pc = SnpVerdict(report, ProvidedVek(e.chain), gen, input.expected),
                                  !.got = ProvidedVek(e.chain), !.claims = parse_tee_evidence(report)]
               ELSE IF provided \/ ~HasVcekUrl(report, gen)
               THEN [begun EXCEPT !.pc = "refused"]
               ELSE [begun EXCEPT !.pc = Lookup, !.key = VcekUrl(report, gen)]
  BY <1>1, <1>2, <1>4 DEF SnpStart
<1>6. UNCHANGED env /\ UNCHANGED file
  BY DEF SnpStart
<1>7. InstInv(b, Host)
  <2>1. CASE b = [begun EXCEPT !.pc = "refused"]
    <3>1. /\ b.kind = "snp" /\ b.evidence = e /\ b.expected = input.expected /\ b.failed = FALSE
          /\ b.hit = FALSE /\ b.now = 0
          /\ b.hit \in BOOLEAN /\ b.failed \in BOOLEAN /\ b.now \in Nat
          /\ b.pc = "refused" /\ Fields(b)
      <4>1. /\ b.kind = "snp" /\ b.evidence = e /\ b.expected = input.expected /\ b.failed = FALSE
            /\ b.hit = FALSE /\ b.now = 0
            /\ b.pc = "refused" /\ Fields(b)
        BY <1>3, <2>1 DEF Fields
      <4>2. b.hit \in BOOLEAN /\ b.failed \in BOOLEAN
        BY <4>1, Zenon
      <4>3. b.now \in Nat
        BY <4>1
      <4> QED BY <4>1, <4>2, <4>3
    <3> QED BY <1>1, <3>1, SnpRefused
  <2>2. CASE /\ SnpEarlyChecks(report) /\ provided /\ ProvidedChainVerifies(gen, e.chain)
             /\ b = [begun EXCEPT !.pc = SnpVerdict(report, ProvidedVek(e.chain), gen, input.expected),
                                  !.got = ProvidedVek(e.chain), !.claims = parse_tee_evidence(report)]
    <3>1. /\ b.kind = "snp" /\ b.evidence = e /\ b.expected = input.expected /\ b.failed = FALSE
          /\ b.hit = FALSE /\ b.now = 0
          /\ b.hit \in BOOLEAN /\ b.failed \in BOOLEAN /\ b.now \in Nat
          /\ b.pc = SnpVerdict(report, ProvidedVek(e.chain), gen, input.expected)
          /\ b.got = ProvidedVek(e.chain) /\ b.claims = parse_tee_evidence(report) /\ Fields(b)
      <4>1. /\ b.kind = "snp" /\ b.evidence = e /\ b.expected = input.expected /\ b.failed = FALSE
            /\ b.hit = FALSE /\ b.now = 0
            /\ b.pc = SnpVerdict(report, ProvidedVek(e.chain), gen, input.expected)
            /\ b.got = ProvidedVek(e.chain) /\ b.claims = parse_tee_evidence(report) /\ Fields(b)
        BY <1>3, <2>2 DEF Fields
      <4>2. b.hit \in BOOLEAN /\ b.failed \in BOOLEAN
        BY <4>1, Zenon
      <4>3. b.now \in Nat
        BY <4>1
      <4> QED BY <4>1, <4>2, <4>3
    <3>2. gen \in Generations /\ gen = Gen(b) /\ e.chain # None
      BY <1>1, <1>4, <2>2, <3>1 DEF SnpEarlyChecks, Gen, ProcessorGeneration, Generations
    <3>3. Len(e.chain) \in Nat /\ DOMAIN e.chain = 1 .. Len(e.chain)
      BY <1>1, <3>2 DEF InputShape, SnpEvidence
    <3>4. PICK ask \in {VendorCertificates[gen].ask, VendorCertificates[gen].asvk} \cup
                         {e.chain[k].cert : k \in DOMAIN e.chain} :
             /\ ProvidedVek(e.chain).signer = ask.subject
             /\ ask.signer = [gen |-> gen, role |-> "ARK"]
      BY <2>2, <3>2, <3>3, ProvidedEndorses, SMTT(30)
    <3>5. ask \in SeenBy(b) /\ ProvidedVek(e.chain) \in SeenBy(b)
      BY <3>1, <3>2, <3>4 DEF SeenBy
    <3> QED BY <1>1, <3>1, <3>2, <3>4, <3>5, SnpJudged
  <2>3. CASE /\ SnpEarlyChecks(report) /\ b = [begun EXCEPT !.pc = Lookup, !.key = VcekUrl(report, gen)]
    <3>1. /\ b.kind = "snp" /\ b.evidence = e /\ b.expected = input.expected /\ b.failed = FALSE
          /\ b.hit = FALSE /\ b.now = 0
          /\ b.hit \in BOOLEAN /\ b.failed \in BOOLEAN /\ b.now \in Nat
          /\ b.pc = Lookup /\ b.key = VcekUrl(report, gen) /\ Fields(b)
      <4>1. /\ b.kind = "snp" /\ b.evidence = e /\ b.expected = input.expected /\ b.failed = FALSE
            /\ b.hit = FALSE /\ b.now = 0
            /\ b.pc = Lookup /\ b.key = VcekUrl(report, gen) /\ Fields(b)
        BY <1>3, <2>3 DEF Fields
      <4>2. b.hit \in BOOLEAN /\ b.failed \in BOOLEAN
        BY <4>1, Zenon
      <4>3. b.now \in Nat
        BY <4>1
      <4> QED BY <4>1, <4>2, <4>3
    <3>2. gen = Gen(b) /\ b.pc \in {"read", "fetch"} /\ (b.pc = "read" => Host.cached)
      BY <1>1, <2>3, <3>1 DEF SnpEarlyChecks, Gen, Lookup
    <3>3. Begun(b, Host)
      BY <1>1, <2>3, <3>1, <3>2 DEF Begun, Pcs, Cached
    <3>4. Holds(b, Host) /\ Answers(b, Host)
      BY <3>1, <3>2 DEF Holds, Answers
    <3> QED BY <3>3, <3>4 DEF InstInv
  <2> QED BY <1>5, <2>1, <2>2, <2>3
<1>8. b.now = 0
  BY <1>3, <1>5 DEF Fields
<1> QED BY <1>5, <1>6, <1>7, <1>8, OneMoves

\* An instance at work that goes on working keeps the invariant.
LEMMA GoesOn ==
  ASSUME NEW a, NEW b, NEW host, InstInv(a, host), a.pc \in Working,
         NEW pc \in Working, NEW got, NEW failed \in BOOLEAN, NEW claims,
         Becomes(b, a, pc, got, failed, claims), pc \in Cached => host.cached, Holds(b, host)
  PROVE  InstInv(b, host)
<1>1. Begun(b, host)
  BY DEF InstInv, Begun, Becomes, Working, Pcs, Gen
<1>2. Answers(b, host)
  BY DEF Answers, Becomes, Working
<1> QED BY <1>1, <1>2 DEF InstInv

\* The cache is read.
LEMMA SnpReadInv ==
  ASSUME IndInv, NEW i \in Instances, SnpRead(i)
  PROVE  IndInv'
<1>1. /\ InstInv(inst[i], Host) /\ inst[i].pc = "read" /\ inst[i].kind = "snp"
      /\ inst[i].failed \in BOOLEAN
  BY DEF IndInv, SnpRead, InstInv, Begun
<1>2. PICK pc \in {"fetch", "verify"} : \E got :
         /\ inst' = [inst EXCEPT ![i] = inst'[i]]
         /\ Becomes(inst'[i], inst[i], pc, got, inst[i].failed, inst[i].claims)
  <2>1. CASE Goto(i, "fetch")
    BY <2>1, GotoSets
  <2>2. CASE Got(i, "verify", File(inst[i].key))
    BY <2>2, GotSets
  <2> QED BY <2>1, <2>2 DEF SnpRead
<1>3. PICK got : Becomes(inst'[i], inst[i], pc, got, inst[i].failed, inst[i].claims)
  BY <1>2
<1>4. Holds(inst'[i], Host)
  BY <1>1, <1>3 DEF Holds, Becomes, InstInv
<1>5. InstInv(inst'[i], Host)
  <2>1. inst[i].pc \in Working /\ pc \in Working /\ pc \notin Cached
    BY <1>1 DEF Working, Cached
  <2> QED BY <1>1, <1>3, <1>4, <2>1, GoesOn
<1>6. UNCHANGED env /\ UNCHANGED file
  BY DEF SnpRead
<1> QED BY <1>2, <1>5, <1>6, OneBecomes

\* What an SNP instance holds on its way to AMD, and that a VCEK is a value.
LEMMA SnpFetchInv ==
  ASSUME IndInv, NEW i \in Instances, SnpFetch(i)
  PROVE  IndInv'
<1>1. /\ InstInv(inst[i], Host) /\ inst[i].pc = "fetch" /\ inst[i].kind = "snp"
      /\ inst[i].failed \in BOOLEAN
  BY DEF IndInv, SnpFetch, InstInv, Begun
<1>2. Vcek(inst[i].key) # None
  <2>1. PICK e : e = inst[i].evidence
    OBVIOUS
  <2>2. SnpEvidence(e) /\ SnpEarlyChecks(e.report) /\ inst[i].key = VcekUrl(e.report, Gen(inst[i]))
    BY <1>1, <2>1 DEF InstInv, Begun, InputShape, Working
  <2>3. Gen(inst[i]) \in Generations /\ e.report # None
    BY <2>1, <2>2 DEF SnpEarlyChecks, Gen, ProcessorGeneration, Generations
  <2> QED BY <2>2, <2>3 DEF SnpEvidence
<1>3. PICK body \in {Vcek(inst[i].key), Torn} \cup Host.bodies : Got(i, Keep, body)
  BY DEF SnpFetch
<1>4. body # None
  BY <1>2, <1>3, SetupAssumption DEF IndInv, Host
<1>5. /\ inst' = [inst EXCEPT ![i] = inst'[i]]
      /\ Becomes(inst'[i], inst[i], Keep, body, inst[i].failed, inst[i].claims)
  BY <1>3, GotSets
<1>6. Keep \in Working /\ (Keep \in Cached => Host.cached)
  BY DEF Keep, Working, Cached
<1>7. Holds(inst'[i], Host)
  BY <1>1, <1>4, <1>5 DEF Holds, Becomes, InstInv
<1>8. InstInv(inst'[i], Host)
  <2>1. inst[i].pc \in Working
    BY <1>1 DEF Working
  <2> QED BY <1>1, <1>5, <1>6, <1>7, <2>1, GoesOn
<1>9. UNCHANGED env /\ UNCHANGED file
  BY DEF SnpFetch
<1> QED BY <1>5, <1>8, <1>9, OneBecomes

\* AMD does not answer.
LEMMA SnpFetchFailsInv ==
  ASSUME IndInv, NEW i \in Instances, SnpFetchFails(i)
  PROVE  IndInv'
<1>1. /\ InstInv(inst[i], Host) /\ inst[i].pc = "fetch" /\ inst[i].kind = "snp"
      /\ inst[i].failed \in BOOLEAN /\ InputShape(inst[i].kind, inst[i].evidence, inst[i].expected)
      /\ inst[i].hit \in BOOLEAN /\ inst[i].now \in Nat
  BY DEF IndInv, SnpFetchFails, InstInv, Begun
<1>2. /\ inst' = [inst EXCEPT ![i] = inst'[i]]
      /\ Becomes(inst'[i], inst[i], "refused", inst[i].got, inst[i].failed, inst[i].claims)
  BY GotoSets DEF SnpFetchFails
<1>3. InstInv(inst'[i], Host)
  BY <1>1, <1>2, SnpRefused DEF Becomes
<1>4. UNCHANGED env /\ UNCHANGED file
  BY DEF SnpFetchFails
<1> QED BY <1>2, <1>3, <1>4, OneBecomes

\* The report is judged by the VCEK that was fetched or in the cache.
LEMMA SnpVerifyInv ==
  ASSUME IndInv, NEW i \in Instances, SnpVerify(i)
  PROVE  IndInv'
<1>1. /\ InstInv(inst[i], Host) /\ inst[i].pc = "verify" /\ inst[i].kind = "snp"
      /\ inst[i].failed \in BOOLEAN /\ InputShape(inst[i].kind, inst[i].evidence, inst[i].expected)
      /\ inst[i].hit \in BOOLEAN /\ inst[i].now \in Nat
      /\ SnpEarlyChecks(inst[i].evidence.report)
  BY DEF IndInv, SnpVerify, InstInv, Begun, Working
<1>2. PICK report, vcek, gen :
         /\ report = inst[i].evidence.report /\ vcek = inst[i].got /\ gen = Gen(inst[i])
  OBVIOUS
<1>3. gen \in Generations /\ gen = Generation(i)
  BY <1>1, <1>2 DEF SnpEarlyChecks, Gen, Generation, ProcessorGeneration, Generations
<1>4. PICK verified : verified = (vcek # Torn /\ FetchedChainVerifies(gen, vcek))
  OBVIOUS
<1>5. PICK pc : pc = IF verified THEN SnpVerdict(report, vcek, gen, inst[i].expected) ELSE "refused"
  OBVIOUS
<1>6. Judges(i, pc, parse_tee_evidence(report))
  BY <1>2, <1>3, <1>4, <1>5 DEF SnpVerify, Judges
<1>7. /\ inst' = [inst EXCEPT ![i] = inst'[i]]
      /\ Becomes(inst'[i], inst[i], pc, inst[i].got, inst[i].failed, parse_tee_evidence(report))
  BY <1>6, JudgesSets
<1>8. InstInv(inst'[i], Host)
  <2>1. PICK b : b = inst'[i]
    OBVIOUS
  <2>2. /\ Fields(b) /\ b.kind = "snp" /\ b.failed \in BOOLEAN
        /\ b.hit \in BOOLEAN /\ b.now \in Nat
        /\ InputShape(b.kind, b.evidence, b.expected) /\ b.pc = pc /\ b.got = vcek
        /\ b.claims = parse_tee_evidence(report) /\ b.evidence.report = report /\ Gen(b) = gen
        /\ b.expected = inst[i].expected
    BY <1>1, <1>2, <1>7, <2>1 DEF Becomes, Gen
  <2>3. CASE verified
    <3>1. /\ vcek.signer = VendorCertificates[gen].ask.subject
          /\ VendorCertificates[gen].ask.signer = [gen |-> gen, role |-> "ARK"]
      BY <1>3, <1>4, <2>3, FetchedEndorses
    <3>2. vcek \in SeenBy(b) /\ VendorCertificates[gen].ask \in SeenBy(b)
      BY <2>2 DEF SeenBy
    <3>3. b.pc = SnpVerdict(b.evidence.report, vcek, Gen(b), b.expected)
      BY <1>5, <2>2, <2>3
    <3> QED BY <2>1, <2>2, <3>1, <3>2, <3>3, SnpJudged
  <2>4. CASE ~verified
    BY <1>5, <2>1, <2>2, <2>4, SnpRefused
  <2> QED BY <2>3, <2>4
<1>9. UNCHANGED env /\ UNCHANGED file
  BY DEF SnpVerify
<1> QED BY <1>7, <1>8, <1>9, OneBecomes

-----------------------------------------------------------------------------
(* TDX *)

\* A quote begins at the cache.
LEMMA TdxStartInv ==
  ASSUME IndInv, NEW i \in Instances, NEW input,
         InputShape(input.kind, input.evidence, input.expected), input.kind = "tdx", TdxStart(i, input)
  PROVE  IndInv'
<1>1. PICK e : e = input.evidence
  OBVIOUS
<1>2. PICK begun : begun = [Idle EXCEPT !.kind = "tdx", !.evidence = e, !.expected = input.expected]
  OBVIOUS
<1>3. /\ begun.kind = "tdx" /\ begun.evidence = e /\ begun.expected = input.expected
      /\ begun.failed = FALSE /\ begun.hit = FALSE /\ begun.now = 0 /\ Fields(begun)
  BY <1>2 DEF Idle, Fields
<1>4. PICK b :
        /\ inst' = [inst EXCEPT ![i] = b]
        /\ b = IF TdxParses(e) THEN [begun EXCEPT !.pc = Lookup, !.now = clock, !.key = cache_key(e.quote)]
               ELSE [begun EXCEPT !.pc = "refused"]
  BY <1>1, <1>2 DEF TdxStart
<1>5. UNCHANGED env /\ UNCHANGED file /\ clock \in Nat
  BY BoundsAssumption DEF TdxStart, IndInv
<1>6. InstInv(b, Host)
  <2>1. CASE TdxParses(e)
    <3>1. /\ b.kind = "tdx" /\ b.evidence = e /\ b.expected = input.expected /\ b.failed = FALSE
          /\ b.hit = FALSE /\ b.now \in {0, clock}
          /\ b.hit \in BOOLEAN /\ b.failed \in BOOLEAN /\ b.now \in Nat
          /\ b.pc = Lookup /\ b.key = cache_key(e.quote) /\ Fields(b)
      BY <1>3, <1>4, <1>5, <2>1 DEF Fields
    <3>2. b.pc \in {"read", "fetch"} /\ (b.pc = "read" => Host.cached)
      BY <3>1 DEF Lookup
    <3>3. Begun(b, Host)
      BY <1>1, <1>5, <2>1, <3>1, <3>2 DEF Begun, Pcs, Cached
    <3>4. Holds(b, Host) /\ Answers(b, Host)
      BY <3>1, <3>2 DEF Holds, Answers
    <3> QED BY <3>3, <3>4 DEF InstInv
  <2>2. CASE ~TdxParses(e)
    <3>1. /\ b.kind = "tdx" /\ b.evidence = e /\ b.expected = input.expected /\ b.failed = FALSE
          /\ b.hit = FALSE /\ b.now \in {0, clock}
          /\ b.hit \in BOOLEAN /\ b.failed \in BOOLEAN /\ b.now \in Nat
          /\ b.pc = "refused" /\ Fields(b)
      <4>1. /\ b.kind = "tdx" /\ b.evidence = e /\ b.expected = input.expected /\ b.failed = FALSE
            /\ b.hit = FALSE /\ b.now \in {0, clock}
            /\ b.pc = "refused" /\ Fields(b)
        BY <1>3, <1>4, <1>5, <2>2 DEF Fields
      <4>2. b.hit \in BOOLEAN /\ b.failed \in BOOLEAN
        BY <4>1, Zenon
      <4>3. b.now \in Nat
        BY <4>1, <1>5
      <4> QED BY <4>1, <4>2, <4>3
    <3>2. Begun(b, Host)
      BY <1>1, <1>5, <3>1 DEF Begun, Pcs, Working, Cached
    <3>3. Holds(b, Host) /\ Answers(b, Host)
      BY <2>2, <3>1 DEF Holds, Answers, Healed
    <3> QED BY <3>2, <3>3 DEF InstInv
  <2> QED BY <2>1, <2>2
<1>7. b.now \in {0, clock}
  BY <1>3, <1>4 DEF Fields
<1> QED BY <1>4, <1>5, <1>6, <1>7, OneMoves

\* A TDX instance at work, and the file of its key.
LEMMA TdxWorking ==
  ASSUME IndInv, NEW i \in Instances, inst[i].pc \in Working, inst[i].kind = "tdx"
  PROVE  /\ InstInv(inst[i], Host) /\ inst[i].failed \in BOOLEAN
         /\ inst[i].hit \in BOOLEAN /\ inst[i].now \in Nat
         /\ InputShape(inst[i].kind, inst[i].evidence, inst[i].expected) /\ TdxParses(inst[i].evidence)
         /\ inst[i].key = [fmspc |-> inst[i].evidence.quote.fmspc, ca |-> inst[i].evidence.quote.ca]
         /\ File(inst[i].key) \in {None, Torn} \/ Kept(File(inst[i].key), Host)
<1>1. /\ InstInv(inst[i], Host) /\ inst[i].failed \in BOOLEAN
      /\ inst[i].hit \in BOOLEAN /\ inst[i].now \in Nat
      /\ InputShape(inst[i].kind, inst[i].evidence, inst[i].expected) /\ TdxParses(inst[i].evidence)
      /\ inst[i].key = [fmspc |-> inst[i].evidence.quote.fmspc, ca |-> inst[i].evidence.quote.ca]
  BY DEF IndInv, InstInv, Begun, cache_key, Working
<1>2. PICK key : key = inst[i].key
  OBVIOUS
<1>3. "hwid" \notin DOMAIN key
  BY <1>1, <1>2
<1>4. key \in DOMAIN file => file[key] = Torn \/ Kept(file[key], Host)
  BY <1>3 DEF IndInv, FileInv
<1>5. File(key) \in {None, Torn} \/ Kept(File(key), Host)
  BY <1>4 DEF File
<1> QED BY <1>1, <1>2, <1>5

\* A kept collateral that can be read is read as it was kept.
LEMMA ReadsAsKept ==
  ASSUME NEW f, NEW host, Kept(f, host), NEW c, c = read_cache(f, Torn), c # None
  PROVE  c = f /\ Framed(c)
<1>1. f \notin {None, Torn}
  BY DEF read_cache
<1>2. PICK read : read = [f EXCEPT !.pck_crl = Cleaned(@), !.root_ca_crl = Cleaned(@)]
  OBVIOUS
<1>3. c = read /\ Framed(read)
  BY <1>1, <1>2 DEF read_cache
<1>4. Cleaned(f.pck_crl) = f.pck_crl /\ Cleaned(f.root_ca_crl) = f.root_ca_crl
  BY DEF Kept, Collateral, Cleaned, trim_der_trailing, normalize_crl_bytes
<1>5. read = f
  BY <1>2, <1>4 DEF Kept, Collateral
<1> QED BY <1>3, <1>5

\* A collateral is read from the cache, if it can be used.
LEMMA TdxReadInv ==
  ASSUME IndInv, NEW i \in Instances, TdxRead(i)
  PROVE  IndInv'
<1>1. inst[i].pc = "read" /\ inst[i].kind = "tdx" /\ inst[i].pc \in Working
  BY DEF TdxRead, Working
<1>2. PICK c, f : f = File(inst[i].key) /\ c = read_cache(f, Torn)
  OBVIOUS
<1>3. /\ InstInv(inst[i], Host) /\ inst[i].failed \in BOOLEAN
      /\ f \in {None, Torn} \/ Kept(f, Host)
  BY <1>1, <1>2, TdxWorking
<1>4. Goto(i, "fetch") \/ (c # None /\ cached_collateral_is_fresh(c, inst[i].now) /\ Hits(i, c))
  BY <1>2 DEF TdxRead, Hits
<1>5. UNCHANGED env /\ UNCHANGED file
  BY DEF TdxRead
<1>6. CASE Goto(i, "fetch")
  <2>1. /\ inst' = [inst EXCEPT ![i] = inst'[i]]
        /\ Becomes(inst'[i], inst[i], "fetch", inst[i].got, inst[i].failed, inst[i].claims)
    BY <1>6, GotoSets
  <2>2. Holds(inst'[i], Host)
    BY <1>1, <1>3, <2>1 DEF Holds, Becomes, InstInv
  <2>3. InstInv(inst'[i], Host)
    <3>1. "fetch" \in Working /\ "fetch" \notin Cached
      BY DEF Working, Cached
    <3> QED BY <1>1, <1>3, <2>1, <2>2, <3>1, GoesOn
  <2> QED BY <1>5, <2>1, <2>3, OneBecomes
<1>7. CASE c # None /\ cached_collateral_is_fresh(c, inst[i].now) /\ Hits(i, c)
  <2>1. PICK b : b = inst'[i]
    OBVIOUS
  <2>2. /\ inst' = [inst EXCEPT ![i] = inst'[i]] /\ b.hit = TRUE /\ b.now = inst[i].now
        /\ Fields(b) /\ b.pc = "verify" /\ b.got = c /\ b.failed = inst[i].failed
        /\ b.kind = inst[i].kind /\ b.evidence = inst[i].evidence
        /\ b.expected = inst[i].expected /\ b.key = inst[i].key
    BY <1>7, <2>1, HitsSets
  <2>3. Begun(b, Host)
    BY <1>1, <1>3, <2>2 DEF InstInv, Begun, Working, Cached, Pcs
  <2>4. Kept(c, Host) /\ Framed(c)
    <3>1. f \notin {None, Torn}
      BY <1>2, <1>7 DEF read_cache
    <3> QED BY <1>2, <1>3, <1>7, <3>1, ReadsAsKept
  <2>5. c.tcb.next # None /\ inst[i].now <= c.tcb.next
    BY <1>7 DEF cached_collateral_is_fresh
  <2>6. Holds(b, Host)
    BY <2>2, <2>4, <2>5 DEF Holds
  <2>7. InstInv(b, Host)
    BY <2>2, <2>3, <2>6 DEF InstInv, Answers
  <2> QED BY <1>5, <2>1, <2>2, <2>7, OneMoves
<1> QED BY <1>4, <1>6, <1>7

\* What Intel's replies make a collateral of.
LEMMA FetchedCollateral ==
  ASSUME NEW host, NEW reply \in host.replies, ReplyShape(reply), NEW c,
         c = fetch_collateral_uncached(reply, host.intel), c # None
  PROVE  Kept(c, host)
<1>1. PICK intel : intel = host.intel
  OBVIOUS
<1>2. /\ reply.pck # None /\ reply.tcb # None /\ reply.qe # None /\ RootCrl(reply, intel) # None
      /\ c = [tcb |-> reply.tcb, qe |-> reply.qe, pck_crl |-> PckCrl(reply),
              root_ca_crl |-> RootCrl(reply, intel)]
  BY <1>1 DEF fetch_collateral_uncached
<1>3. PckCrl(reply) \in {"der", "framed", "long", "junk"}
  BY <1>2 DEF ReplyShape, PckCrl, CrlForms, normalize_crl_bytes, trim_der_trailing, looks_like_der_crl
<1>4. RootCrl(reply, intel) \in {"der", "framed", "long", "junk"}
  BY <1>2 DEF ReplyShape, RootCrl, CrlForms, Cleaned, normalize_crl_bytes, trim_der_trailing
<1>5. {reply.tcb.next, reply.qe.next} \subseteq Nat \cup {None}
  BY <1>2 DEF ReplyShape
<1>6. Collateral(c)
  BY <1>2, <1>3, <1>4, <1>5 DEF Collateral
<1> QED BY <1>6 DEF Kept

\* Intel answers.
LEMMA TdxFetchInv ==
  ASSUME IndInv, NEW i \in Instances, NEW reply \in Host.replies, TdxFetch(i, reply)
  PROVE  IndInv'
<1>1. inst[i].pc = "fetch" /\ inst[i].kind = "tdx" /\ inst[i].pc \in Working
  BY DEF TdxFetch, Working
<1>2. PICK quote : quote = inst[i].evidence.quote
  OBVIOUS
<1>3. PICK c : c = fetch_collateral_uncached(reply, Host.intel)
  OBVIOUS
<1>4. /\ InstInv(inst[i], Host) /\ inst[i].hit \in BOOLEAN /\ inst[i].now \in Nat
      /\ InputShape(inst[i].kind, inst[i].evidence, inst[i].expected)
  BY <1>1, TdxWorking
<1>5. ReplyShape(reply)
  BY SetupAssumption DEF IndInv, Host
<1>6. UNCHANGED env /\ UNCHANGED file
  BY DEF TdxFetch
<1>7. CASE c = None
  <2>1. Fetches(i, "refused", c, TRUE)
    BY <1>3, <1>7 DEF TdxFetch, Fetches
  <2>2. /\ inst' = [inst EXCEPT ![i] = inst'[i]]
        /\ Becomes(inst'[i], inst[i], "refused", c, TRUE, inst[i].claims)
    BY <2>1, FetchesSets
  <2>3. Begun(inst'[i], Host)
    BY <1>1, <1>4, <2>2 DEF Begun, Becomes, Working, Pcs, Cached
  <2>4. Holds(inst'[i], Host) /\ Answers(inst'[i], Host)
    BY <2>2 DEF Holds, Answers, Becomes
  <2>5. InstInv(inst'[i], Host)
    BY <2>3, <2>4 DEF InstInv
  <2> QED BY <1>6, <2>2, <2>5, OneBecomes
<1>8. CASE c # None
  <2>1. PICK wrong \in BOOLEAN : wrong = ~CollateralFits(quote, c)
    <3>1. (~CollateralFits(quote, c)) \in BOOLEAN
      OBVIOUS
    <3> QED BY <3>1, Zenon
  <2>2. Fetches(i, Keep, c, wrong)
    BY <1>2, <1>3, <1>8, <2>1 DEF TdxFetch, Fetches
  <2>3. /\ inst' = [inst EXCEPT ![i] = inst'[i]]
        /\ Becomes(inst'[i], inst[i], Keep, c, wrong, inst[i].claims)
    BY <2>2, FetchesSets
  <2>4. Kept(c, Host)
    BY <1>3, <1>5, <1>8, FetchedCollateral
  <2>5. Keep \in Working /\ (Keep \in Cached => Host.cached) /\ Keep \in {"open", "verify"}
    BY DEF Keep, Working, Cached
  <2>6. inst[i].hit = FALSE
    BY <1>1, <1>4 DEF InstInv, Holds
  <2>7. Holds(inst'[i], Host)
    BY <1>2, <1>8, <2>1, <2>3, <2>4, <2>5, <2>6 DEF Holds, Becomes
  <2>8. InstInv(inst'[i], Host)
    <3> HIDE <2>1
    <3> wrong \in BOOLEAN
      BY <2>1
    <3> QED BY <1>1, <1>4, <2>3, <2>5, <2>7, GoesOn
  <2> QED BY <1>6, <2>3, <2>8, OneBecomes
<1> QED BY <1>7, <1>8

\* The quote is judged.  A collateral that fits is as good as any.
LEMMA TdxVerifyInv ==
  ASSUME IndInv, NEW i \in Instances, TdxVerify(i)
  PROVE  IndInv'
<1>1. inst[i].pc = "verify" /\ inst[i].kind = "tdx" /\ inst[i].pc \in Working
  BY DEF TdxVerify, Working
<1>2. PICK e, c, expected : e = inst[i].evidence /\ c = inst[i].got /\ expected = inst[i].expected
  OBVIOUS
<1>3. /\ InstInv(inst[i], Host) /\ inst[i].failed \in BOOLEAN
      /\ inst[i].hit \in BOOLEAN /\ inst[i].now \in Nat
      /\ InputShape(inst[i].kind, inst[i].evidence, inst[i].expected)
  BY <1>1, TdxWorking
<1>4. /\ Kept(c, Host) /\ clock \in Nat /\ inst[i].now <= clock
      /\ ~inst[i].failed => CollateralFits(e.quote, c) \/ (inst[i].hit /\ Framed(c))
      /\ inst[i].hit => c.tcb.next # None /\ inst[i].now <= c.tcb.next
  BY <1>1, <1>2, <1>3, BoundsAssumption DEF InstInv, Holds, IndInv, Times
<1>5. PICK pc : pc = IF TdxVerifies(e, c, expected) THEN "accepted" ELSE "refused"
  OBVIOUS
<1>6. Judges(i, pc, TdxClaims(e, c, clock))
  BY <1>2, <1>5 DEF TdxVerify, Judges
<1>7. /\ inst' = [inst EXCEPT ![i] = inst'[i]]
      /\ Becomes(inst'[i], inst[i], pc, inst[i].got, inst[i].failed, TdxClaims(e, c, clock))
  BY <1>6, JudgesSets
<1>8. PICK b : b = inst'[i]
  OBVIOUS
<1>9. /\ Fields(b) /\ b.kind = "tdx" /\ b.failed \in BOOLEAN /\ b.failed = inst[i].failed
      /\ InputShape(b.kind, b.evidence, b.expected) /\ b.pc = pc /\ b.evidence = e
      /\ b.claims = TdxClaims(e, c, clock) /\ b.expected = expected /\ b.got = c
      /\ b.hit = inst[i].hit /\ b.hit \in BOOLEAN /\ b.now = inst[i].now /\ b.now \in Nat
  BY <1>1, <1>2, <1>3, <1>7, <1>8 DEF Becomes
<1>10. Begun(b, Host)
  BY <1>5, <1>9 DEF Begun, Pcs, Cached, Working
<1>11. Holds(b, Host)
  BY <1>5, <1>9 DEF Holds
<1>12. Answers(b, Host)
  <2>1. b.pc = "accepted" => Bound(b)
    BY <1>5, <1>9 DEF Bound, TdxVerifies, TdxClaims
  <2>2. ASSUME b.pc = "refused", ~b.failed PROVE Healed(b, Host)
    <3>1. ~TdxVerifies(e, c, expected)
      BY <1>5, <1>9, <2>2
    <3>2. ASSUME TdxVerifies(e, Fitting(e.quote), expected) PROVE ~CollateralFits(e.quote, c)
      BY <3>1, <3>2 DEF TdxVerifies, QuoteVerifies
    <3>3. CASE TdxVerifies(e, Fitting(e.quote), expected)
      <4>1. inst[i].hit /\ Framed(c)
        BY <1>4, <1>9, <2>2, <3>2, <3>3
      <4> QED BY <1>4, <1>9, <3>2, <3>3, <4>1 DEF Healed
    <3> QED BY <1>9, <3>3 DEF Healed
  <2>3. Current(b)
    <3>1. c.tcb.next \in Nat \cup {None} /\ c.qe.next \in Nat \cup {None}
      BY <1>4 DEF Kept, Collateral
    <3>2. ASSUME ~b.claims.collateral_expired, NEW next \in {c.tcb.next, c.qe.next}, next # None
          PROVE  b.now <= next
      <4>1. ~collateral_expired(c, clock)
        BY <1>9, <3>2 DEF TdxClaims
      <4>2. next \in Nat /\ ~(clock > next)
        BY <3>1, <3>2, <4>1 DEF collateral_expired
      <4> QED BY <1>4, <1>9, <4>2
    <3> QED BY <1>4, <1>9, <3>2 DEF Current
  <2> QED BY <1>9, <2>1, <2>2, <2>3 DEF Answers
<1>13. UNCHANGED env /\ UNCHANGED file
  BY DEF TdxVerify
<1>14. InstInv(inst'[i], Host)
  BY <1>8, <1>10, <1>11, <1>12 DEF InstInv
<1> QED BY <1>7, <1>13, <1>14, OneBecomes

-----------------------------------------------------------------------------
(* The cache directory *)

\* A file is written: nothing that parses, or what an instance holds.
LEMMA StoreInv ==
  ASSUME IndInv, NEW i \in Instances, inst[i].pc \in {"open", "write", "late"}, UNCHANGED env,
         NEW content \in {Torn, inst[i].got}, Store(inst[i].key, content)
  PROVE  FileInv'
<1>1. /\ InstInv(inst[i], Host) /\ Host.cached /\ inst[i].got # None
      /\ inst[i].pc \in Working /\ Host' = Host
  BY DEF IndInv, InstInv, Begun, Holds, Working, Cached, env, Host
<1>2. PICK key : key = inst[i].key
  OBVIOUS
<1>3. content # None
  BY <1>1, SetupAssumption
<1>4. "hwid" \notin DOMAIN key => content = Torn \/ Kept(content, Host)
  <2>1. CASE inst[i].kind = "snp"
    BY <1>1, <1>2, <2>1 DEF InstInv, Begun, VcekUrl
  <2>2. CASE inst[i].kind = "tdx"
    <3>1. inst[i].got = Torn \/ Kept(inst[i].got, Host)
      BY <1>1, <2>2 DEF InstInv, Holds
    <3> QED BY <3>1
  <2>3. inst[i].kind \in {"snp", "tdx"}
    BY <1>1 DEF InstInv, Begun, InputShape, Working
  <2> QED BY <2>1, <2>2, <2>3
<1>5. /\ DOMAIN file' = DOMAIN file \cup {key} /\ file'[key] = content
      /\ \A k \in DOMAIN file \ {key} : file'[k] = file[k]
  BY <1>2 DEF Store
<1>6. ASSUME NEW k \in DOMAIN file'
      PROVE  /\ file'[k] # None
             /\ "hwid" \notin DOMAIN k => file'[k] = Torn \/ Kept(file'[k], Host)
  <2>1. CASE k = key
    BY <1>3, <1>4, <1>5, <2>1
  <2>2. CASE k # key
    BY <1>5, <2>2 DEF IndInv, FileInv
  <2> QED BY <2>1, <2>2
<1>7. \A k \in DOMAIN file' :
         /\ file'[k] # None
         /\ "hwid" \notin DOMAIN k => file'[k] = Torn \/ Kept(file'[k], Host')
  BY <1>1, <1>6
<1>8. ~Host'.cached => DOMAIN file' = {}
  BY <1>1
<1> QED BY <1>7, <1>8 DEF FileInv, Kept

\* An instance that goes on with what it has keeps the invariant.
LEMMA KeepsInv ==
  ASSUME IndInv, NEW i \in Instances, inst[i].pc \in {"open", "write"}, NEW pc \in {"write", "verify"},
         Goto(i, pc)
  PROVE  inst' = [inst EXCEPT ![i] = inst'[i]] /\ InstInv(inst'[i], Host)
<1>1. /\ InstInv(inst[i], Host) /\ Host.cached /\ inst[i].failed \in BOOLEAN
      /\ inst[i].pc \in Working /\ pc \in Working
  BY DEF IndInv, InstInv, Begun, Working, Cached
<1>2. /\ inst' = [inst EXCEPT ![i] = inst'[i]]
      /\ Becomes(inst'[i], inst[i], pc, inst[i].got, inst[i].failed, inst[i].claims)
  BY GotoSets
<1>3. Holds(inst'[i], Host)
  BY <1>1, <1>2 DEF InstInv, Holds, Becomes
<1>4. InstInv(inst'[i], Host)
  <2>1. pc \in Cached => Host.cached
    BY <1>1
  <2>2. PICK a, b, failed : a = inst[i] /\ b = inst'[i] /\ failed = inst[i].failed
    OBVIOUS
  <2>3. Becomes(b, a, pc, a.got, failed, a.claims) /\ Holds(b, Host) /\ InstInv(a, Host)
    BY <1>1, <1>2, <1>3, <2>2
  <2>4. InstInv(b, Host)
    BY <1>1, <2>1, <2>2, <2>3, GoesOn
  <2> QED BY <2>2, <2>4
<1> QED BY <1>2, <1>4

\* The file is emptied.
LEMMA OpenInv ==
  ASSUME IndInv, NEW i \in Instances, Open(i)
  PROVE  IndInv'
<1>1. inst[i].pc = "open" /\ Goto(i, "write") /\ Store(inst[i].key, Torn) /\ UNCHANGED env
  BY DEF Open
<1>2. FileInv'
  BY <1>1, StoreInv
<1>3. inst' = [inst EXCEPT ![i] = inst'[i]] /\ InstInv(inst'[i], Host)
  BY <1>1, KeepsInv
<1> QED BY <1>1, <1>2, <1>3, GotoSets, OneBecomes

\* And filled, or left with a mixture that does not parse.
LEMMA WriteInv ==
  ASSUME IndInv, NEW i \in Instances, Write(i)
  PROVE  IndInv'
<1>1. inst[i].pc = "write" /\ Goto(i, "verify") /\ UNCHANGED env
  BY DEF Write
<1>2. PICK content \in {Torn, inst[i].got} : Store(inst[i].key, content)
  BY DEF Write
<1>3. FileInv'
  BY <1>1, <1>2, StoreInv
<1>4. inst' = [inst EXCEPT ![i] = inst'[i]] /\ InstInv(inst'[i], Host)
  BY <1>1, KeepsInv
<1> QED BY <1>1, <1>3, <1>4, GotoSets, OneBecomes

\* The file cannot be written.
LEMMA WriteFailsInv ==
  ASSUME IndInv, NEW i \in Instances, WriteFails(i)
  PROVE  IndInv'
<1>1. /\ InstInv(inst[i], Host) /\ inst[i].pc \in {"open", "write"} /\ inst[i].pc \in Working
      /\ InputShape(inst[i].kind, inst[i].evidence, inst[i].expected)
  BY DEF IndInv, InstInv, Begun, WriteFails, Working
<1>2. UNCHANGED env /\ UNCHANGED file
  BY DEF WriteFails
<1>3. CASE inst[i].kind = "snp"
  <2>1. Fails(i, "verify")
    BY <1>3 DEF WriteFails, Fails
  <2>2. /\ inst' = [inst EXCEPT ![i] = inst'[i]]
        /\ Becomes(inst'[i], inst[i], "verify", inst[i].got, TRUE, inst[i].claims)
    BY <2>1, FailsSets
  <2>3. Holds(inst'[i], Host)
    BY <1>3, <2>2 DEF Holds, Becomes
  <2>4. "verify" \in Working /\ "verify" \notin Cached /\ TRUE \in BOOLEAN
    BY DEF Working, Cached
  <2>5. InstInv(inst'[i], Host)
    BY <1>1, <2>2, <2>3, <2>4, GoesOn
  <2> QED BY <1>2, <2>2, <2>5, OneBecomes
<1>4. CASE inst[i].kind = "tdx"
  <2>1. Fails(i, "refused")
    BY <1>4 DEF WriteFails, Fails
  <2>2. /\ inst' = [inst EXCEPT ![i] = inst'[i]]
        /\ Becomes(inst'[i], inst[i], "refused", inst[i].got, TRUE, inst[i].claims)
    BY <2>1, FailsSets
  <2>3. Begun(inst'[i], Host)
    BY <1>1, <2>2 DEF InstInv, Begun, Becomes, Working, Pcs, Cached
  <2>4. Holds(inst'[i], Host) /\ Answers(inst'[i], Host)
    BY <2>2 DEF Holds, Answers, Becomes
  <2>5. InstInv(inst'[i], Host)
    BY <2>3, <2>4 DEF InstInv
  <2> QED BY <1>2, <2>2, <2>5, OneBecomes
<1> QED BY <1>1, <1>3, <1>4 DEF InputShape

-----------------------------------------------------------------------------
(* The invariant holds *)

\* An instance that has not begun.
LEMMA IdleInv ==
  ASSUME NEW host
  PROVE  InstInv(Idle, host)
<1>1. /\ Idle.pc = "idle" /\ Idle.failed = FALSE /\ Idle.hit = FALSE /\ Idle.now = 0 /\ Fields(Idle)
      /\ Idle.failed \in BOOLEAN /\ Idle.hit \in BOOLEAN /\ Idle.now \in Nat
  BY DEF Idle, Fields
<1> QED BY <1>1 DEF InstInv, Begun, Holds, Answers, Pcs, Working, Cached

\* An instance goes while the host opens or writes its file.
LEMMA OrphanedInv ==
  ASSUME IndInv, NEW i \in Instances, Orphaned(i)
  PROVE  IndInv'
<1>1. /\ InstInv(inst[i], Host) /\ inst[i].pc \in {"open", "write"} /\ inst[i].pc \in Working
      /\ inst[i].failed \in BOOLEAN /\ Host.cached /\ inst[i].got # None
  BY DEF IndInv, InstInv, Begun, Holds, Orphaned, Working, Cached
<1>2. PICK got \in {Torn, inst[i].got} : Got(i, "late", got)
  BY DEF Orphaned
<1>3. UNCHANGED env /\ UNCHANGED file
  BY DEF Orphaned
<1>4. /\ inst' = [inst EXCEPT ![i] = inst'[i]]
      /\ Becomes(inst'[i], inst[i], "late", got, inst[i].failed, inst[i].claims)
  BY <1>2, GotSets
<1>5. Holds(inst'[i], Host)
  <2>1. got # None
    BY <1>1, SetupAssumption
  <2>2. inst[i].kind = "tdx" => got = Torn \/ Kept(got, Host)
    BY <1>1 DEF InstInv, Holds
  <2> QED BY <1>4, <2>1, <2>2 DEF Holds, Becomes
<1>6. InstInv(inst'[i], Host)
  <2>1. PICK a, b, failed, claims :
           a = inst[i] /\ b = inst'[i] /\ failed = inst[i].failed /\ claims = inst[i].claims
    OBVIOUS
  <2>2. Becomes(b, a, "late", got, failed, claims) /\ Holds(b, Host) /\ InstInv(a, Host)
    BY <1>1, <1>4, <1>5, <2>1
  <2>3. "late" \in Working /\ failed \in BOOLEAN /\ a.pc \in Working
    BY <1>1, <2>1 DEF Working
  <2>4. InstInv(b, Host)
    BY <1>1, <2>2, <2>3, GoesOn
  <2> QED BY <2>1, <2>4
<1> QED BY <1>3, <1>4, <1>6, OneBecomes

\* The thread of the host ends after the instance.
LEMMA LateWriteInv ==
  ASSUME IndInv, NEW i \in Instances, LateWrite(i)
  PROVE  IndInv'
<1>1. inst[i].pc = "late" /\ inst' = [inst EXCEPT ![i] = Idle] /\ UNCHANGED env /\ Idle.now = 0
  BY DEF LateWrite, Idle
<1>2. UNCHANGED file \/ FileInv'
  <2>1. ASSUME NEW content \in {inst[i].got, Torn}, Store(inst[i].key, content) PROVE FileInv'
    BY <1>1, <2>1, StoreInv
  <2> QED BY <2>1 DEF LateWrite
<1> QED BY <1>1, <1>2, IdleInv, OneMoves

\* Nothing has begun and nothing is cached at first.
LEMMA InitInv == Init => IndInv
<1> SUFFICES ASSUME Init PROVE IndInv
  OBVIOUS
<1>1. /\ setup \in DOMAIN Setups /\ inst = [i \in Instances |-> Idle] /\ clock = 0
      /\ DOMAIN file = {}
  BY DEF Init
<1>2. \A i \in Instances : InstInv(inst[i], Host)
  BY <1>1, IdleInv
<1>3. FileInv
  BY <1>1 DEF FileInv
<1>4. Times
  BY <1>1 DEF Times, Idle
<1> QED BY <1>1, <1>2, <1>3, <1>4, BoundsAssumption DEF IndInv

\* What a step leaves alone keeps the invariant.
LEMMA SameInv ==
  ASSUME IndInv, UNCHANGED <<setup, file>>, clock' \in 0 .. MaxTime, clock <= clock',
         inst' = [i \in Instances |-> inst'[i]],
         \A i \in Instances : inst'[i] \in {inst[i], Idle}
  PROVE  IndInv'
<1>1. Host' = Host
  BY DEF Host
<1>2. ASSUME NEW i \in Instances PROVE InstInv(inst'[i], Host)
  BY IdleInv DEF IndInv
<1>3. \A i \in Instances : InstInv(inst[i], Host)'
  BY <1>1, <1>2
<1>4. FileInv'
  BY <1>1 DEF IndInv, FileInv
<1>5. Times'
  <2>1. ASSUME NEW i \in Instances PROVE inst'[i].now <= clock'
    <3>1. inst[i].now \in Nat /\ inst[i].now <= clock /\ clock \in Nat /\ clock' \in Nat /\ Idle.now = 0
      BY BoundsAssumption DEF IndInv, Times, InstInv, Begun, Idle
    <3> QED BY <3>1
  <2> QED BY <2>1 DEF Times
<1> QED BY <1>3, <1>4, <1>5 DEF IndInv

\* Every step keeps the invariant.
LEMMA NextInv == IndInv /\ [Next]_vars => IndInv'
<1> SUFFICES ASSUME IndInv, [Next]_vars PROVE IndInv'
  OBVIOUS
<1>1. inst = [i \in Instances |-> inst[i]] /\ clock \in 0 .. MaxTime /\ setup \in DOMAIN Setups
  BY DEF IndInv
<1>2. ASSUME NEW i \in Instances, Start(i) PROVE IndInv'
  <2>1. PICK input \in Host.inputs :
           IF input.kind = "snp" THEN SnpStart(i, input) ELSE TdxStart(i, input)
    BY <1>2 DEF Start
  <2>2. InputShape(input.kind, input.evidence, input.expected)
    BY <1>1, SetupAssumption DEF Host
  <2>3. input.kind \in {"snp", "tdx"}
    BY <2>2 DEF InputShape
  <2> QED BY <2>1, <2>2, <2>3, SnpStartInv, TdxStartInv
<1>3. ASSUME NEW i \in Instances, SnpRead(i) \/ SnpFetch(i) \/ SnpFetchFails(i) \/ SnpVerify(i)
      PROVE  IndInv'
  BY <1>3, SnpReadInv, SnpFetchInv, SnpFetchFailsInv, SnpVerifyInv
<1>4. ASSUME NEW i \in Instances,
             TdxRead(i) \/ TdxVerify(i) \/ \E reply \in Host.replies : TdxFetch(i, reply)
      PROVE  IndInv'
  BY <1>4, TdxReadInv, TdxVerifyInv, TdxFetchInv
<1>5. ASSUME NEW i \in Instances, Open(i) \/ Write(i) \/ WriteFails(i) PROVE IndInv'
  BY <1>5, OpenInv, WriteInv, WriteFailsInv
<1>6. ASSUME NEW i \in Instances, Dropped(i) PROVE IndInv'
  <2>1. inst' = [inst EXCEPT ![i] = Idle] /\ UNCHANGED env /\ UNCHANGED file
    BY <1>6 DEF Dropped
  <2>2. Idle.now = 0
    BY DEF Idle
  <2> QED BY <2>1, <2>2, IdleInv, OneMoves
<1>7. CASE Crash
  <2>1. inst' = [i \in Instances |-> Idle] /\ UNCHANGED <<setup, file, clock>>
    BY <1>7 DEF Crash
  <2>2. clock <= clock'
    BY <1>1, <2>1, BoundsAssumption
  <2> QED BY <1>1, <2>1, <2>2, SameInv
<1>8. CASE Tick
  <2>1. clock' \in 0 .. MaxTime /\ clock <= clock' /\ UNCHANGED <<setup, inst, file>>
    BY <1>1, <1>8, BoundsAssumption DEF Tick
  <2> QED BY <1>1, <2>1, SameInv
<1>9. CASE UNCHANGED vars
  <2>1. UNCHANGED <<setup, inst, file, clock>>
    BY <1>9 DEF vars
  <2>2. clock <= clock'
    BY <1>1, <2>1, BoundsAssumption
  <2> QED BY <1>1, <2>1, <2>2, SameInv
<1>10. ASSUME NEW i \in Instances, Orphaned(i) \/ LateWrite(i) PROVE IndInv'
  BY <1>10, OrphanedInv, LateWriteInv
<1> QED BY <1>2, <1>3, <1>4, <1>5, <1>6, <1>7, <1>8, <1>9, <1>10 DEF Next

\* The invariant, of whatever instances and inputs.
THEOREM Invariance == Spec => []IndInv
BY InitInv, NextInv, PTL DEF Spec

-----------------------------------------------------------------------------
(* What the components promise *)

\* An SNP report is accepted only under a key that the ARK compiled in for
\* its generation certifies, through one intermediate and for its very TCB
\* and chip, whatever bodies are answered in the place of VCEKs.
THEOREM SnpIsEndorsed == Spec => []SnpEndorsed
<1>1. IndInv => SnpEndorsed
  <2> SUFFICES ASSUME IndInv, NEW i \in Instances, inst[i].kind = "snp", inst[i].pc = "accepted"
               PROVE  LET report == inst[i].evidence.report
                          root == [gen |-> Generation(i), role |-> "ARK"]
                      IN  \E vek, ask \in Seen(i) :
                            /\ report.signer = vek.subject /\ vek.signer = ask.subject
                            /\ ask.signer = root
                            /\ \A oid \in SplOids : vek.spl[oid] = report.tcb[oid]
                            /\ vek.cn = "VCEK" => vek.hwid = report.chip
    BY DEF SnpEndorsed
  <2>1. Endorsed(inst[i])
    BY DEF IndInv, InstInv, Answers
  <2>2. Seen(i) = SeenBy(inst[i]) /\ Generation(i) = Gen(inst[i])
    BY DEF Seen, SeenBy, Generation, Gen
  <2> QED BY <2>1, <2>2 DEF Endorsed
<1> QED BY <1>1, Invariance, PTL

\* No other datum of the same length would have been accepted in the place of
\* the one that was.
THEOREM AcceptedForOneDatum == Spec => []AcceptedAreBound
<1>1. IndInv => TypeOK
  <2> SUFFICES ASSUME IndInv PROVE TypeOK
    OBVIOUS
  <2>1. ASSUME NEW i \in Instances
        PROVE  /\ DOMAIN inst[i] = DOMAIN Idle /\ inst[i].pc \in Pcs
               /\ inst[i].pc = "idle" <=> inst[i].evidence = None
               /\ inst[i].pc = "trapped" =>
                     /\ inst[i].kind = "snp" /\ Generation(i) = "Turin"
                     /\ inst[i].evidence.report.tcb.fmc = None
    <3>1. Begun(inst[i], Host)
      BY DEF IndInv, InstInv
    <3>2. DOMAIN inst[i] = DOMAIN Idle
      BY <3>1 DEF Begun, Fields, Idle
    <3>3. inst[i].pc = "idle" <=> inst[i].evidence = None
      BY <3>1 DEF Begun, InputShape, Idle
    <3> QED BY <3>1, <3>2, <3>3 DEF Begun, Generation, Gen
  <2>2. \A k \in DOMAIN file : file[k] # None
    BY DEF IndInv, FileInv
  <2>3. setup \in DOMAIN Setups /\ clock \in 0 .. MaxTime
    BY DEF IndInv
  <2> QED BY <2>1, <2>2, <2>3 DEF TypeOK
<1>2. IndInv => Binding
  <2> SUFFICES ASSUME IndInv, NEW i \in Instances, inst[i].pc = "accepted",
                      NEW datum \in {"report_data", "init_data"}, inst[i].expected[datum] # None,
                      NEW other \in Others(inst[i].expected[datum]),
                      Len(inst[i].expected[datum]) <= BoundLen(inst[i].kind, datum)
               PROVE  IF inst[i].kind = "snp"
                      THEN ~SnpBinds(other, inst[i].claims[datum], BoundLen(inst[i].kind, datum))
                      ELSE ~TdxBinds(other, inst[i].claims[datum], BoundLen(inst[i].kind, datum))
    BY DEF Binding
  <2>1. PICK a, data, field, len :
           /\ a = inst[i] /\ data = a.expected[datum] /\ field = a.claims[datum]
           /\ len = BoundLen(a.kind, datum)
    OBVIOUS
  <2>2. Bound(a) /\ InputShape(a.kind, a.evidence, a.expected)
    BY <2>1 DEF IndInv, InstInv, Answers, Begun
  <2>3. data \in Seq({0, 1}) /\ len \in Nat /\ Len(data) <= len /\ other \in Others(data)
    BY <2>1, <2>2, BoundsAssumption DEF InputShape, BoundLen
  <2>4. [j \in 1 .. len |-> IF j <= Len(other) THEN other[j] ELSE 0]
           # [j \in 1 .. len |-> IF j <= Len(data) THEN data[j] ELSE 0]
    BY <2>3, PaddingIsInjective
  <2>5. other # None
    <3>1. data \in [1 .. Len(data) -> {0, 1}] /\ Len(data) \in Nat
      BY <2>3
    <3>2. other \in [1 .. Len(data) -> {0, 1}]
      BY <2>3, <3>1 DEF Others
    <3>3. other \in Seq({0, 1})
      BY <3>1, <3>2
    <3> QED BY <3>3, SetupAssumption
  <2>6. CASE a.kind = "snp"
    <3>1. SnpBinds(data, field, len)
      BY <2>1, <2>2, <2>6 DEF Bound, BoundLen
    <3>2. [j \in 1 .. len |-> IF j <= Len(data) THEN data[j] ELSE 0] = field
      BY <2>1, <3>1 DEF SnpBinds, RegularizeSnp
    <3> QED BY <2>1, <2>4, <2>5, <2>6, <3>2 DEF SnpBinds, RegularizeSnp
  <2>7. CASE a.kind = "tdx"
    <3>1. TdxBinds(data, field, len)
      BY <2>1, <2>2, <2>7 DEF Bound, BoundLen
    <3>2. [j \in 1 .. len |-> IF j <= Len(data) THEN data[j] ELSE 0] = field
      BY <2>1, <3>1 DEF TdxBinds, RegularizeTdx
    <3> QED BY <2>1, <2>4, <2>5, <2>7, <3>2 DEF TdxBinds, RegularizeTdx
  <2> QED BY <2>1, <2>2, <2>6, <2>7 DEF InputShape
<1> QED BY <1>1, <1>2, Invariance, PTL DEF AcceptedAreBound

\* A genuine quote that says what is expected is refused only for a failure
\* of this evaluation, or for a misleading reply that the cache holds whole.
THEOREM TdxCacheHeals == Spec => []TdxHeals
<1>1. IndInv => TdxHeals
  <2> SUFFICES ASSUME IndInv, NEW i \in Instances, inst[i].kind = "tdx", inst[i].pc = "refused",
                      ~inst[i].failed, TdxParses(inst[i].evidence),
                      TdxVerifies(inst[i].evidence, Fitting(inst[i].evidence.quote), inst[i].expected)
               PROVE  inst[i].hit /\ inst[i].got \in Misleading(inst[i].evidence.quote)
    BY DEF TdxHeals
  <2>1. Healed(inst[i], Host)
    BY DEF IndInv, InstInv, Answers
  <2>2. /\ inst[i].hit /\ Kept(inst[i].got, Host) /\ Framed(inst[i].got)
        /\ ~CollateralFits(inst[i].evidence.quote, inst[i].got)
    BY <2>1 DEF Healed
  <2> QED BY <2>2 DEF Kept, Misleading
<1> QED BY <1>1, Invariance, PTL

\* A quote is accepted by a collateral whose TCB info, if it is from the
\* cache, was current when the evaluation took the time, and both of whose
\* documents were if the claims do not say collateral_expired.
THEOREM AcceptedByCurrent == Spec => []AcceptedAreCurrent
<1>1. IndInv => AcceptedAreCurrent
  BY DEF IndInv, InstInv, Answers, Current, AcceptedAreCurrent
<1> QED BY <1>1, Invariance, PTL

-----------------------------------------------------------------------------
(* What a step may never do *)

\* Where an instance may not be with a key that is settled.
Replacing == {"fetch", "open", "write", "late"}

\* What is left to show of a step of one instance that leaves the file alone.
LEMMA StaysSettled ==
  ASSUME IndInv, NEW i \in Instances, NEW key \in DOMAIN file, Settled(key),
         NEW b, inst' = [inst EXCEPT ![i] = b], b.key = key => b.pc \notin Replacing,
         file'[key] = file[key]
  PROVE  file'[key] = file[key] /\ Settled(key)'
<1>1. inst'[i] = b /\ \A j \in Instances \ {i} : inst'[j] = inst[j]
  BY DEF IndInv
<1> QED BY <1>1 DEF Settled, Replacing

\* A step of one instance from which it does not go and replace the file.
LEMMA LeavesSettled ==
  ASSUME IndInv, NEW i \in Instances, NEW key \in DOMAIN file, Settled(key),
         NEW pc, NEW got, NEW failed, NEW claims, inst' = [inst EXCEPT ![i] = inst'[i]],
         Becomes(inst'[i], inst[i], pc, got, failed, claims),
         pc \notin Replacing \/ inst[i].pc \in Replacing,
         file'[key] = file[key]
  PROVE  file'[key] = file[key] /\ Settled(key)'
<1>1. inst'[i].key = inst[i].key /\ inst'[i].pc = pc
  BY DEF Becomes
<1>2. inst'[i].key = key => inst'[i].pc \notin Replacing
  BY <1>1 DEF Settled, Replacing
<1> QED BY <1>2, StaysSettled

\* A request finds the file and reads it.
LEMMA StartLeaves ==
  ASSUME IndInv, NEW i \in Instances, NEW key \in DOMAIN file, Settled(key),
         Start(i)
  PROVE  file'[key] = file[key] /\ Settled(key)'
<1>1. Lookup = "read"
  BY DEF IndInv, FileInv, Lookup
<1>2. PICK input \in Host.inputs :
         IF input.kind = "snp" THEN SnpStart(i, input) ELSE TdxStart(i, input)
  BY DEF Start
<1>3. file' = file
  BY <1>2 DEF SnpStart, TdxStart
<1>4. \E b : inst' = [inst EXCEPT ![i] = b] /\ b.pc \notin Replacing
  <2>1. CASE SnpStart(i, input)
    <3>1. PICK report, gen, vek, begun, pc :
            /\ report = input.evidence.report
            /\ gen = IF report = None THEN None ELSE ProcessorGeneration(report)
            /\ vek = ProvidedVek(input.evidence.chain)
            /\ begun = [Idle EXCEPT !.kind = "snp", !.evidence = input.evidence,
                                    !.expected = input.expected]
            /\ pc = SnpVerdict(report, vek, gen, input.expected)
      OBVIOUS
    <3>2. "pc" \in DOMAIN begun /\ pc \in {"accepted", "refused", "trapped"}
      BY <3>1 DEF Idle, SnpVerdict
    <3>3. \/ inst' = [inst EXCEPT ![i] = [begun EXCEPT !.pc = "refused"]]
          \/ inst' = [inst EXCEPT ![i] = [begun EXCEPT !.pc = pc, !.got = vek,
                                                       !.claims = parse_tee_evidence(report)]]
          \/ inst' = [inst EXCEPT ![i] = [begun EXCEPT !.pc = Lookup, !.key = VcekUrl(report, gen)]]
      BY <2>1, <3>1 DEF SnpStart
    <3>4. /\ [begun EXCEPT !.pc = "refused"].pc = "refused"
          /\ [begun EXCEPT !.pc = pc, !.got = vek, !.claims = parse_tee_evidence(report)].pc = pc
          /\ [begun EXCEPT !.pc = Lookup, !.key = VcekUrl(report, gen)].pc = "read"
      BY <1>1, <3>2
    <3> QED BY <3>2, <3>3, <3>4 DEF Replacing
  <2>2. CASE TdxStart(i, input)
    <3>1. PICK begun :
            /\ begun = [Idle EXCEPT !.kind = "tdx", !.evidence = input.evidence,
                                    !.expected = input.expected]
            /\ \/ inst' = [inst EXCEPT ![i] = [begun EXCEPT !.pc = "refused"]]
               \/ inst' = [inst EXCEPT ![i] = [begun EXCEPT !.pc = Lookup, !.now = clock,
                                                            !.key = cache_key(input.evidence.quote)]]
      BY <2>2 DEF TdxStart
    <3>2. "pc" \in DOMAIN begun
      BY <3>1 DEF Idle
    <3>3. /\ [begun EXCEPT !.pc = "refused"].pc = "refused"
          /\ [begun EXCEPT !.pc = Lookup, !.now = clock, !.key = cache_key(input.evidence.quote)].pc = "read"
      BY <1>1, <3>2
    <3> QED BY <3>1, <3>3 DEF Replacing
  <2> QED BY <1>2, <2>1, <2>2
<1> QED BY <1>3, <1>4, StaysSettled

\* Whoever reads the file of a VCEK takes it as it is.
LEMMA ReadLeaves ==
  ASSUME IndInv, NEW i \in Instances, NEW key \in DOMAIN file, Settled(key),
         "hwid" \in DOMAIN key, SnpRead(i) \/ TdxRead(i)
  PROVE  file'[key] = file[key] /\ Settled(key)'
<1>1. file' = file
  BY DEF SnpRead, TdxRead
<1>2. CASE SnpRead(i)
  <2>1. CASE File(inst[i].key) = None
    <3>1. Goto(i, "fetch")
      BY <1>2, <2>1 DEF SnpRead
    <3>2. inst[i].key # key
      BY <2>1 DEF File, IndInv, FileInv
    <3>3. inst' = [inst EXCEPT ![i] = inst'[i]] /\ inst'[i].key = inst[i].key
      BY <3>1, GotoSets DEF Becomes
    <3> QED BY <1>1, <3>2, <3>3, StaysSettled
  <2>2. CASE File(inst[i].key) # None
    <3>1. Got(i, "verify", File(inst[i].key))
      BY <1>2, <2>2 DEF SnpRead
    <3>2. "verify" \notin Replacing
      BY DEF Replacing
    <3> QED BY <1>1, <3>1, <3>2, GotSets, LeavesSettled
  <2> QED BY <2>1, <2>2
<1>3. CASE TdxRead(i)
  <2>1. inst[i].kind = "tdx" /\ inst[i].pc \in Working
    BY <1>3 DEF TdxRead, Working
  <2>2. inst[i].key = [fmspc |-> inst[i].evidence.quote.fmspc, ca |-> inst[i].evidence.quote.ca]
    BY <2>1, TdxWorking
  <2>3. inst[i].key # key
    BY <2>2
  <2>4. inst' = [inst EXCEPT ![i] = inst'[i]] /\ inst'[i].key = inst[i].key
    <3>1. CASE Goto(i, "fetch")
      BY <3>1, GotoSets DEF Becomes
    <3>2. CASE \E c : Hits(i, c)
      BY <3>2, HitsSets
    <3> QED BY <1>3, <3>1, <3>2 DEF TdxRead, Hits
  <2> QED BY <1>1, <2>3, <2>4, StaysSettled
<1> QED BY <1>2, <1>3

\* Whoever is past the file leaves it alone.
LEMMA OthersLeave ==
  ASSUME IndInv, NEW i \in Instances, NEW key \in DOMAIN file, Settled(key),
         \/ SnpFetch(i) \/ SnpFetchFails(i) \/ SnpVerify(i) \/ TdxVerify(i) \/ WriteFails(i)
         \/ \E reply \in Host.replies : TdxFetch(i, reply)
  PROVE  file'[key] = file[key] /\ Settled(key)'
<1>1. file' = file
  BY DEF SnpFetch, SnpFetchFails, SnpVerify, TdxVerify, WriteFails, TdxFetch
<1>2. CASE SnpFetch(i) \/ SnpFetchFails(i)
  <2>1. inst[i].pc \in Replacing
    BY <1>2 DEF SnpFetch, SnpFetchFails, Replacing
  <2>2. (\E pc, got : Got(i, pc, got)) \/ \E pc : Goto(i, pc)
    BY <1>2 DEF SnpFetch, SnpFetchFails
  <2> QED BY <1>1, <2>1, <2>2, GotSets, GotoSets, LeavesSettled
<1>3. CASE SnpVerify(i)
  <2>1. PICK pc, claims : Judges(i, pc, claims) /\ pc \in {"accepted", "refused", "trapped"}
    <3>1. \A report, vek, gen, expected :
             SnpVerdict(report, vek, gen, expected) \in {"accepted", "refused", "trapped"}
      BY DEF SnpVerdict
    <3> QED BY <1>3, <3>1 DEF SnpVerify, Judges
  <2>2. pc \notin Replacing
    BY <2>1 DEF Replacing
  <2> QED BY <1>1, <2>1, <2>2, JudgesSets, LeavesSettled
<1>4. CASE TdxVerify(i)
  <2>1. PICK pc, claims : Judges(i, pc, claims) /\ pc \in {"accepted", "refused"}
    BY <1>4 DEF TdxVerify, Judges
  <2>2. pc \notin Replacing
    BY <2>1 DEF Replacing
  <2> QED BY <1>1, <2>1, <2>2, JudgesSets, LeavesSettled
<1>5. CASE WriteFails(i)
  <2>1. inst[i].pc \in Replacing /\ \E pc : Fails(i, pc)
    BY <1>5 DEF WriteFails, Fails, Replacing
  <2> QED BY <1>1, <2>1, FailsSets, LeavesSettled
<1>6. ASSUME NEW reply \in Host.replies, TdxFetch(i, reply) PROVE file'[key] = file[key] /\ Settled(key)'
  <2>1. inst[i].pc \in Replacing /\ \E pc, got, failed : Fetches(i, pc, got, failed)
    BY <1>6 DEF TdxFetch, Fetches, Replacing
  <2> QED BY <1>1, <2>1, FetchesSets, LeavesSettled
<1> QED BY <1>2, <1>3, <1>4, <1>5, <1>6

\* Files are written under other keys only.
LEMMA WritersLeave ==
  ASSUME IndInv, NEW i \in Instances, NEW key \in DOMAIN file, Settled(key),
         Open(i) \/ Write(i)
  PROVE  file'[key] = file[key] /\ Settled(key)'
<1>1. inst[i].pc \in {"open", "write"} /\ inst[i].pc \in Replacing
  BY DEF Open, Write, Replacing
<1>2. inst[i].key # key
  BY <1>1 DEF Settled
<1>3. \E content : Store(inst[i].key, content)
  BY DEF Open, Write
<1>4. file'[key] = file[key]
  BY <1>2, <1>3 DEF Store
<1>5. PICK pc : Goto(i, pc)
  BY DEF Open, Write
<1> QED BY <1>1, <1>4, <1>5, GotoSets, LeavesSettled

\* And so do instances that are gone.
LEMMA LateOnesLeave ==
  ASSUME IndInv, NEW i \in Instances, NEW key \in DOMAIN file, Settled(key),
         Orphaned(i) \/ LateWrite(i)
  PROVE  file'[key] = file[key] /\ Settled(key)'
<1>1. inst[i].pc \in {"open", "write", "late"} /\ inst[i].pc \in Replacing
  BY DEF Orphaned, LateWrite, Replacing
<1>2. inst[i].key # key
  BY <1>1 DEF Settled
<1>3. file' = file \/ \E content : Store(inst[i].key, content)
  BY DEF Orphaned, LateWrite
<1>4. file'[key] = file[key]
  BY <1>2, <1>3 DEF Store
<1>5. CASE Orphaned(i)
  <2>1. PICK got : Got(i, "late", got)
    BY <1>5 DEF Orphaned
  <2> QED BY <1>1, <1>4, <2>1, GotSets, LeavesSettled
<1>6. CASE LateWrite(i)
  <2>1. inst' = [inst EXCEPT ![i] = Idle] /\ Idle.pc \notin Replacing
    BY <1>6 DEF LateWrite, Idle, Replacing
  <2> QED BY <1>4, <2>1, StaysSettled
<1> QED BY <1>5, <1>6

\* A VCEK file, once nobody who could replace it is under way, stays what it
\* is, right or wrong, and nobody asks AMD again.
THEOREM VcekFilesAreStuck == Spec => VcekFilesStay
<1>1. IndInv /\ [Next]_vars =>
        [\A key \in DOMAIN file :
           "hwid" \in DOMAIN key /\ Settled(key) =>
              file'[key] = file[key] /\ Settled(key)']_vars
  <2> SUFFICES ASSUME IndInv, Next, NEW key \in DOMAIN file, "hwid" \in DOMAIN key,
                      Settled(key)
               PROVE  file'[key] = file[key] /\ Settled(key)'
    OBVIOUS
  <2>1. ASSUME NEW i \in Instances, Start(i) PROVE file'[key] = file[key] /\ Settled(key)'
    BY <2>1, StartLeaves
  <2>2. ASSUME NEW i \in Instances, SnpRead(i) \/ TdxRead(i) PROVE file'[key] = file[key] /\ Settled(key)'
    BY <2>2, ReadLeaves
  <2>3. ASSUME NEW i \in Instances,
               \/ SnpFetch(i) \/ SnpFetchFails(i) \/ SnpVerify(i) \/ TdxVerify(i) \/ WriteFails(i)
               \/ \E reply \in Host.replies : TdxFetch(i, reply)
        PROVE  file'[key] = file[key] /\ Settled(key)'
    BY <2>3, OthersLeave
  <2>4. ASSUME NEW i \in Instances, Open(i) \/ Write(i) PROVE file'[key] = file[key] /\ Settled(key)'
    BY <2>4, WritersLeave
  <2>5. Idle.pc \notin Replacing
    BY DEF Idle, Replacing
  <2>6. ASSUME NEW i \in Instances, Dropped(i) PROVE file'[key] = file[key] /\ Settled(key)'
    <3>1. inst' = [inst EXCEPT ![i] = Idle] /\ file' = file
      BY <2>6 DEF Dropped
    <3> QED BY <2>5, <3>1, StaysSettled
  <2>7. CASE Crash
    BY <2>5, <2>7 DEF Crash, Settled, Replacing
  <2>8. CASE Tick
    BY <2>8 DEF Tick, Settled
  <2>9. ASSUME NEW i \in Instances, Orphaned(i) \/ LateWrite(i)
        PROVE  file'[key] = file[key] /\ Settled(key)'
    BY <2>9, LateOnesLeave
  <2> QED BY <2>1, <2>2, <2>3, <2>4, <2>6, <2>7, <2>8, <2>9 DEF Next
<1> QED BY <1>1, Invariance, PTL DEF Spec, VcekFilesStay

=============================================================================
