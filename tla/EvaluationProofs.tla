-------------------------- MODULE EvaluationProofs --------------------------
(***************************************************************************)
(* One attestation from end to end, for every set of requests, policies    *)
(* and components and for every range of the index.                        *)
(***************************************************************************)
EXTENDS Evaluation, FiniteSetTheorems, SequenceTheorems, WellFoundedInduction,
        TLAPS

-----------------------------------------------------------------------------
(* The inductive invariant. *)

\* Where a request is, and what is there at that point.
PhaseInv ==
    /\ request \in Requests /\ pc \in Pcs
    /\ pc \in {"received", "verify", "collect"} => appraised = <<>>
    /\ pc = "verify" => todo # <<>>
    /\ pc = "issue" => Len(appraised) < Len(claims)
    /\ pc = "sign" => Len(appraised) = Len(claims)
    /\ pc \in {"verify", "issue", "sign"} =>
          request.entry \in Entries \ {"kbs_ita"}
    /\ pc = "collect" => /\ request.entry = "kbs_ita"
                         /\ request.additional # Bad
    /\ pc = "deliver" => IsKbs /\ "keys" \in DOMAIN token
    /\ pc \in {"received", "verify", "issue", "sign", "collect"} =>
          token = NoToken
    /\ pc # "done" => message = NoMessage
    /\ pc = "done" => IF request.entry \in {"rest", "grpc"} THEN Ear
                      ELSE message # NoMessage

\* The pieces of evidence that a KBS request consists of.
More == IF request.additional = None THEN {} ELSE DOMAIN request.additional
PrimaryPiece == Piece(request.tee, request.evidence,
                      Structured(PrimaryData(request)), request.init)
AskedPieces ==
    {PrimaryPiece} \cup {AdditionalPiece(request, t) : t \in More}

\* A piece is what was asked for; a back end only changes its init data.
SamePiece(p, q) ==
    /\ p.tee = q.tee /\ p.evidence = q.evidence
    /\ p.runtime = q.runtime /\ p.alg = q.alg
    /\ p.component = q.component

PieceInv(p) ==
    /\ p.alg \in HashAlgorithms /\ EvidenceShape(p.evidence)
    /\ p.evidence \in AskedEvidence
    /\ p.component = None \/ p.component.tee \in ComponentTees
    /\ IsKbs => \E q \in AskedPieces : SamePiece(p, q)

TodoInv ==
    /\ IsSeq(todo)
    /\ \A i \in DOMAIN todo : PieceInv(todo[i])

\* A CPU of the request signed its key and its nonce, if all TEEs that it has
\* evidence of are asked to.
SignedKey ==
    AskedTees \cap IgnoresReport = {} =>
        \E d \in Signers : Class(d.tee) = "cpu"

\* Data that the caller provided and that will be shown for a device was
\* signed by the device.
ReportBound(report, shown) ==
    \E d \in Devices, alg \in HashAlgorithms :
        report = d.report /\ d.report = Digest(alg, shown)
InitBound(data, shown) ==
    \E d \in Devices :
        /\ data = d.init /\ "data" \in DOMAIN d.init
        /\ shown = InitClaims(d.init.data.data)

ClaimInv(c) ==
    /\ c.claims.report_data # None /\ c.runtime_data_claims # None =>
          /\ c.tee \notin IgnoresReport =>
                ReportBound(c.claims.report_data, c.runtime_data_claims)
          /\ IsKbs => /\ "key" \in DOMAIN c.runtime_data_claims
                      /\ c.runtime_data_claims.key = request.key
                      /\ SignedKey
    /\ (c.claims.init_data # None /\ c.init_data_claims # None
           /\ c.tee # "sample")
       => InitBound(c.claims.init_data, c.init_data_claims)

ClaimsInv ==
    /\ IsSeq(claims)
    /\ \A i \in DOMAIN claims : ClaimInv(claims[i])

\* A submod is about the device at its place.
AppraisedOf(a, i) ==
    LET c == claims[i]
    IN  /\ a.name = <<c.tee_class, Number(i) % IndexMod>>
        /\ a.appraisal.evidence =
              transform_claims(c.claims, c.init_data_claims,
                               c.runtime_data_claims, c.tee)

AppraisedInv ==
    /\ IsSeq(appraised) /\ Len(appraised) <= Len(claims)
    /\ \A i \in DOMAIN appraised : AppraisedOf(appraised[i], i)

\* The first piece of a KBS request is the primary evidence.
PrimaryDone ==
    \A i \in DOMAIN request.evidence :
        request.evidence[i].report = Digest("sha384", PrimaryData(request))

PrimaryInv ==
    IsKbs /\ (pc \in {"verify", "issue", "sign"} \/ Ear) =>
        \/ request.tee \in IgnoresReport
        \/ pc = "verify" /\ SamePiece(todo[1], PrimaryPiece)
        \/ PrimaryDone

\* A slot holds the entry of a piece that was asked for and that it is for.
SlotsInv ==
    \A s \in DOMAIN slots :
        \E q \in AskedPieces :
            /\ slots[s] = ItaEntry(q) /\ s = ItaSlot(q.tee) /\ s \in ItaSlots
            /\ q.evidence # Bad /\ ~ItaDrops(q)

\* No two pieces claim one slot.
ItaKind(t) == IF t = "az-tdx-vtpm" THEN "tdx" ELSE t
DifferentKinds ==
    /\ \A t \in More : ItaKind(t) # ItaKind(request.tee)
    /\ \A t, u \in More : t # u => ItaKind(t) # ItaKind(u)

\* A piece has its slot, unless it was dropped or another piece claims it.
Collected(q) ==
    /\ q.evidence # Bad
    /\ ~ItaDrops(q) /\ DifferentKinds =>
          ItaSlot(q.tee) \in DOMAIN slots /\ slots[ItaSlot(q.tee)] = ItaEntry(q)

CollectInv ==
    pc = "collect" =>
        \A q \in AskedPieces :
            (\E i \in DOMAIN todo : SamePiece(todo[i], q)) \/ Collected(q)

\* A token is about the submods that were made, and every key in it is the
\* key of the request.
TokenInv ==
    /\ Ear => token.submods = Submods /\ Len(appraised) = Len(claims)
    /\ IsKbs /\ "keys" \in DOMAIN token =>
          \A p \in DOMAIN token.keys : token.keys[p] # None =>
              token.keys[p] = request.key /\ SignedKey

IndInv ==
    /\ PhaseInv /\ TodoInv /\ ClaimsInv /\ AppraisedInv /\ PrimaryInv
    /\ SlotsInv /\ CollectInv /\ TokenInv /\ KeyAttested /\ ItaSeesAll

-----------------------------------------------------------------------------
(* Sequences of whatever elements. *)

\* A sequence over any set is one.
LEMMA SeqOver ==
  ASSUME NEW S, NEW s \in Seq(S)
  PROVE  IsSeq(s)
<1>1. /\ Len(s) \in Nat /\ s \in [1 .. Len(s) -> S] /\ DOMAIN s = 1 .. Len(s)
  BY LenProperties
<1>2. PICK T : T = {s[i] : i \in DOMAIN s}
  OBVIOUS
<1>3. s \in [1 .. Len(s) -> T]
  BY <1>1, <1>2
<1>4. s \in Seq(T)
  BY <1>1, <1>3, SeqDef
<1> QED BY <1>2, <1>4 DEF IsSeq

\* The places of a sequence are numbered from 1.
LEMMA Places ==
  ASSUME NEW s, IsSeq(s)
  PROVE  /\ Len(s) \in Nat /\ DOMAIN s = 1 .. Len(s)
         /\ s = <<>> <=> Len(s) = 0
<1>1. PICK T : s \in Seq(T)
  BY DEF IsSeq
<1> QED BY <1>1, LenProperties, EmptySeq

\* The empty sequence.
LEMMA NoElements == IsSeq(<<>>) /\ Len(<<>>) = 0 /\ DOMAIN <<>> = {}
<1>1. <<>> \in Seq({}) /\ Len(<<>>) = 0
  BY EmptySeq
<1>2. IsSeq(<<>>)
  BY <1>1, SeqOver
<1> QED BY <1>1, <1>2, Places

\* A function on the places of a sequence is one.
LEMMA Mapped ==
  ASSUME NEW s, IsSeq(s), NEW f, DOMAIN f = DOMAIN s,
         f = [i \in DOMAIN f |-> f[i]]
  PROVE  IsSeq(f) /\ Len(f) = Len(s)
<1>1. Len(s) \in Nat /\ DOMAIN s = 1 .. Len(s)
  BY Places
<1>2. PICK T : T = {f[i] : i \in DOMAIN f}
  OBVIOUS
<1>3. f \in [1 .. Len(s) -> T]
  BY <1>1, <1>2
<1>4. f \in Seq(T)
  BY <1>1, <1>3, SeqDef
<1>5. IsSeq(f) /\ DOMAIN f = 1 .. Len(f) /\ Len(f) \in Nat
  BY <1>4, SeqOver, LenProperties
<1> QED BY <1>1, <1>5

\* One element more.
LEMMA Longer ==
  ASSUME NEW s, IsSeq(s), NEW e
  PROVE  /\ IsSeq(Append(s, e)) /\ Len(Append(s, e)) = Len(s) + 1
         /\ \A i \in 1 .. Len(s) : Append(s, e)[i] = s[i]
         /\ Append(s, e)[Len(s) + 1] = e
<1>1. PICK T : s \in Seq(T) /\ T = {s[i] : i \in DOMAIN s}
  BY DEF IsSeq
<1>2. s \in Seq(T \cup {e}) /\ e \in T \cup {e}
  BY <1>1, SeqMonotonic
<1>3. Append(s, e) \in Seq(T \cup {e})
  BY <1>2, AppendProperties
<1>4. IsSeq(Append(s, e))
  BY <1>3, SeqOver
<1>5. /\ Len(Append(s, e)) = Len(s) + 1
      /\ \A i \in 1 .. Len(s) : Append(s, e)[i] = s[i]
      /\ Append(s, e)[Len(s) + 1] = e
  BY <1>2, AppendProperties
<1> QED BY <1>4, <1>5

\* One element less.
LEMMA Shorter ==
  ASSUME NEW s, IsSeq(s), s # <<>>
  PROVE  /\ IsSeq(Tail(s)) /\ Len(Tail(s)) = Len(s) - 1
         /\ \A i \in 1 .. (Len(s) - 1) : Tail(s)[i] = s[i + 1]
         /\ Head(s) = s[1] /\ 1 \in DOMAIN s /\ Len(s) \in Nat \ {0}
<1>1. PICK T : s \in Seq(T)
  BY DEF IsSeq
<1>2. Tail(s) \in Seq(T)
  BY <1>1, HeadTailProperties
<1>3. Len(s) \in Nat \ {0} /\ DOMAIN s = 1 .. Len(s)
  BY Places
<1>4. 1 \in DOMAIN s
  BY <1>3
<1>5. /\ Len(Tail(s)) = Len(s) - 1 /\ Head(s) = s[1]
      /\ \A i \in 1 .. (Len(s) - 1) : Tail(s)[i] = s[i + 1]
  BY <1>1, <1>3, HeadTailProperties
<1> QED BY <1>2, <1>3, <1>4, <1>5, SeqOver

\* Two sequences, one after the other.
LEMMA Joined ==
  ASSUME NEW s, IsSeq(s), NEW t, IsSeq(t)
  PROVE  /\ IsSeq(s \o t) /\ Len(s \o t) = Len(s) + Len(t)
         /\ \A i \in 1 .. Len(s) : (s \o t)[i] = s[i]
         /\ \A i \in 1 .. Len(t) : (s \o t)[Len(s) + i] = t[i]
<1>1. PICK S : s \in Seq(S)
  BY DEF IsSeq
<1>2. PICK T : t \in Seq(T)
  BY DEF IsSeq
<1>3. s \in Seq(S \cup T) /\ t \in Seq(S \cup T)
  BY <1>1, <1>2, SeqMonotonic
<1>4. /\ s \o t \in Seq(S \cup T) /\ Len(s \o t) = Len(s) + Len(t)
      /\ \A i \in 1 .. Len(s) + Len(t) :
            (s \o t)[i] = IF i <= Len(s) THEN s[i] ELSE t[i - Len(s)]
  BY <1>3, ConcatProperties
<1>5. Len(s) \in Nat /\ Len(t) \in Nat
  BY Places
<1>6. IsSeq(s \o t)
  BY <1>4, SeqOver
<1>7. \A i \in 1 .. Len(s) : (s \o t)[i] = s[i]
  BY <1>4, <1>5
<1>8. ASSUME NEW i \in 1 .. Len(t) PROVE (s \o t)[Len(s) + i] = t[i]
  <2>1. PICK k : k = Len(s) + i
    OBVIOUS
  <2>2. k \in 1 .. Len(s) + Len(t) /\ ~(k <= Len(s)) /\ k - Len(s) = i
    BY <1>5, <2>1
  <2> QED BY <1>4, <2>1, <2>2
<1> QED BY <1>4, <1>6, <1>7, <1>8

\* The first of some places of a sequence is one of them.
LEMMA FirstPlace ==
  ASSUME NEW n \in Nat, NEW S, S \subseteq 1 .. n, S # {}
  PROVE  Min(S) \in S
<1>1. S \subseteq Nat
  OBVIOUS
<1>2. PICK x \in S : \A y \in S : ~(<<y, x>> \in OpToRel(<, Nat))
  BY <1>1, NatLessThanWellFounded, WFMin
<1>3. ASSUME NEW y \in S PROVE x <= y
  <2>1. x \in Nat /\ y \in Nat
    BY <1>1
  <2>2. ~(y < x)
    BY <1>2, <2>1 DEF OpToRel
  <2> QED BY <2>1, <2>2
<1> QED BY <1>3 DEF Min

\* Some places of a sequence have a last one.
LEMMA LastPlace ==
  ASSUME NEW n \in Nat, NEW S, S \subseteq 1 .. n, S # {}
  PROVE  \E x \in S : \A y \in S : y <= x
<1>1. PICK T : T = {n - y : y \in S}
  OBVIOUS
<1>2. T \subseteq Nat /\ T # {}
  <2>1. \A y \in S : n - y \in Nat
    OBVIOUS
  <2> QED BY <1>1, <2>1
<1>3. PICK z \in T : \A y \in T : ~(<<y, z>> \in OpToRel(<, Nat))
  BY <1>2, NatLessThanWellFounded, WFMin
<1>4. PICK x \in S : z = n - x
  BY <1>1
<1>5. ASSUME NEW y \in S PROVE y <= x
  <2>1. n - y \in T /\ n - y \in Nat /\ z \in Nat
    BY <1>1, <1>2
  <2>2. ~(n - y < z)
    BY <1>3, <2>1 DEF OpToRel
  <2> QED BY <1>4, <2>2
<1> QED BY <1>5

-----------------------------------------------------------------------------
(* The operators. *)

\* Structured runtime data is expected by its digest; only such data is shown.
LEMMA RuntimeExpected ==
  ASSUME NEW data, NEW alg, NEW r, r = parse_runtime_data(data, alg)
  PROVE  /\ r.claims # None =>
               data # None /\ r.expected = {Digest(alg, r.claims)}
         /\ data # None /\ data.form = "structured" =>
               r.claims = data.data /\ r.expected = {Digest(alg, data.data)}
BY DEF parse_runtime_data

\* Likewise for init data, of which some files are shown parsed.
LEMMA InitExpected ==
  ASSUME NEW data, NEW r, r = parse_init_data(data), r.claims # None
  PROVE  \E doc : /\ r.expected = {doc} /\ "data" \in DOMAIN doc
                  /\ r.claims = InitClaims(doc.data.data)
<1>1. data # None /\ data.form # "digest"
  BY DEF parse_init_data
<1>2. PICK doc : doc = Digest(data.data.algorithm, data.data)
  OBVIOUS
<1>3. "data" \in DOMAIN doc /\ doc.data = data.data
  BY <1>2 DEF Digest
<1>4. r.expected = {doc} /\ r.claims = InitClaims(data.data.data)
  BY <1>1, <1>2 DEF parse_init_data
<1> QED BY <1>3, <1>4

\* A front end fills in the hash algorithm and keeps the evidence.
LEMMA FrontEndKeeps ==
  ASSUME NEW p, PieceFields \subseteq DOMAIN p,
         p.alg \in HashAlgorithms \cup {None, Bad},
         p.component \in {None, Bad} \/ p.component.tee \in ComponentTees,
         NEW e, e # Bad, e = RestPiece(p) \/ e = GrpcPiece(p)
  PROVE  /\ e.alg \in HashAlgorithms /\ e.evidence = p.evidence
         /\ e.component = None \/ e.component.tee \in ComponentTees
<1>1. CASE e = RestPiece(p)
  <2>1. e = DefaultAlgorithm(p) /\ Decodes(p)
    BY <1>1 DEF RestPiece
  <2>2. /\ e.evidence = p.evidence /\ e.component = p.component
        /\ e.alg = IF p.alg = None THEN "sha384" ELSE p.alg
    BY <2>1 DEF DefaultAlgorithm, PieceFields
  <2>3. p.alg # Bad /\ p.component # Bad
    BY <2>1 DEF Decodes
  <2> QED BY <2>2, <2>3 DEF HashAlgorithms
<1>2. CASE e = GrpcPiece(p)
  <2>1. PICK s : s = [p EXCEPT !.component = None, !.id = None]
    OBVIOUS
  <2>2. e = DefaultAlgorithm(s) /\ Decodes(s)
    BY <1>2, <2>1 DEF GrpcPiece
  <2>3. /\ s.alg = p.alg /\ s.evidence = p.evidence /\ s.component = None
        /\ PieceFields \subseteq DOMAIN s
    BY <2>1 DEF PieceFields
  <2>4. /\ e.evidence = s.evidence /\ e.component = s.component
        /\ e.alg = IF s.alg = None THEN "sha384" ELSE s.alg
    BY <2>2, <2>3 DEF DefaultAlgorithm, PieceFields
  <2>5. s.alg # Bad
    BY <2>2 DEF Decodes
  <2> QED BY <2>3, <2>4, <2>5 DEF HashAlgorithms
<1> QED BY <1>1, <1>2

\* A back end of the KBS keeps the TEE, the evidence and what it is to be
\* evidence of.
LEMMA BackEndKeeps ==
  ASSUME NEW entry \in KbsEntries, NEW p, PieceFields \subseteq DOMAIN p,
         p.alg = "sha384", p.component = None,
         NEW e, e # Bad, e = Entered(entry, p)
  PROVE  SamePiece(e, p)
<1>1. ASSUME NEW c, c # Bad, c = CocoPiece(p)
      PROVE  SamePiece(c, p) /\ PieceFields \subseteq DOMAIN c
  <2>1. PICK x : c = [p EXCEPT !.init = x]
    BY <1>1 DEF CocoPiece
  <2> QED BY <2>1 DEF SamePiece, PieceFields
<1>2. CASE entry = "kbs_builtin"
  <2>1. e = CocoPiece(p)
    BY <1>2 DEF Entered
  <2> QED BY <1>1, <2>1
<1>3. CASE entry = "kbs_grpc"
  <2>1. e = CocoGrpcPiece(p)
    BY <1>3 DEF Entered
  <2>2. PICK c : c = CocoPiece(p)
    OBVIOUS
  <2>3. c # Bad /\ e = GrpcPiece(c)
    BY <2>1, <2>2 DEF CocoGrpcPiece
  <2>4. SamePiece(c, p) /\ PieceFields \subseteq DOMAIN c
    BY <1>1, <2>2, <2>3
  <2>5. PICK s : s = [c EXCEPT !.component = None, !.id = None]
    OBVIOUS
  <2>6. SamePiece(s, c) /\ PieceFields \subseteq DOMAIN s
    <3>1. c.component = None
      BY <2>4 DEF SamePiece
    <3> QED BY <2>4, <2>5, <3>1 DEF SamePiece, PieceFields
  <2>7. e = DefaultAlgorithm(s)
    BY <2>3, <2>5 DEF GrpcPiece
  <2>8. PICK x : x = IF s.alg = None THEN "sha384" ELSE s.alg
    OBVIOUS
  <2>9. e = [s EXCEPT !.alg = x]
    BY <2>7, <2>8 DEF DefaultAlgorithm
  <2>10. s.alg = "sha384" /\ x = "sha384"
    BY <2>4, <2>6, <2>8 DEF SamePiece
  <2>11. SamePiece(e, s)
    BY <2>6, <2>9, <2>10 DEF SamePiece, PieceFields
  <2> QED BY <2>4, <2>6, <2>11 DEF SamePiece
<1>4. CASE entry = "kbs_ita"
  <2>1. e = p
    BY <1>4 DEF Entered
  <2> QED BY <2>1 DEF SamePiece
<1> QED BY <1>2, <1>3, <1>4 DEF KbsEntries

\* A list of all of a finite set has each of its elements.
LEMMA ListsAreComplete ==
  ASSUME NEW S, IsFiniteSet(S), NEW o \in SetToSeqs(S)
  PROVE  /\ IsSeq(o) /\ \A i \in DOMAIN o : o[i] \in S
         /\ \A x \in S : \E i \in DOMAIN o : o[i] = x
<1>1. Cardinality(S) \in Nat
  BY FS_CardinalityType
<1>2. /\ o \in [1 .. Cardinality(S) -> S]
      /\ \A i, j \in 1 .. Cardinality(S) : i # j => o[i] # o[j]
  BY DEF SetToSeqs
<1>3. o \in Seq(S)
  BY <1>1, <1>2, SeqDef
<1>4. IsSeq(o)
  BY <1>3, SeqOver
<1>5. o \in Injection(1 .. Cardinality(S), S)
  BY <1>2 DEF Injection, IsInjective
<1>6. Cardinality(1 .. Cardinality(S)) = Cardinality(S)
  <2>1. Cardinality(1 .. Cardinality(S)) =
          IF 1 > Cardinality(S) THEN 0 ELSE Cardinality(S) - 1 + 1
    BY <1>1, FS_Interval
  <2> QED BY <1>1, <2>1
<1>7. o \in Surjection(1 .. Cardinality(S), S)
  BY <1>5, <1>6, FS_Injection
<1> QED BY <1>2, <1>4, <1>7 DEF Surjection

\* What a device must have signed for a verifier to accept it.
LEMMA AcceptedSigned ==
  ASSUME NEW p, NEW report, NEW init, PieceVerifies(p, report, init),
         NEW i \in DOMAIN p.evidence
  PROVE  /\ p.evidence # Bad /\ p.evidence[i].tee = VerifierTee(p)
         /\ p.evidence[i].genuine \/ p.evidence[i].tee \in Emulated
         /\ VerifierTee(p) \notin IgnoresReport =>
               \A r \in report : p.evidence[i].report = r
         /\ VerifierTee(p) \in ChecksInit =>
               \A x \in init : p.evidence[i].init = x
BY DEF PieceVerifies, Accepts, Attests, Parses

\* The verifier is the one of the TEE of the piece, or a component.
LEMMA VerifierIs ==
  ASSUME NEW p, PieceInv(p), VerifierTee(p) # None
  PROVE  VerifierTee(p) = p.tee \/ VerifierTee(p) \in ComponentTees
<1>1. CASE ~request.wasm
  BY <1>1 DEF VerifierTee
<1>2. CASE request.wasm
  <2>1. PICK c : c = ResolvedComponent(p)
    OBVIOUS
  <2>2. c # None /\ VerifierTee(p) = c.tee
    BY <1>2, <2>1 DEF VerifierTee
  <2>3. (c = p.component /\ p.component # None) \/ \E id \in DOMAIN Registered : c = Registered[id]
    BY <2>1, <2>2 DEF ResolvedComponent
  <2> QED BY <2>2, <2>3, RegisteredAssumption DEF PieceInv
<1> QED BY <1>1, <1>2

\* So what is true of the TEE of a piece and of the components is true of
\* the verifier.
LEMMA VerifierLooks ==
  ASSUME NEW p, PieceInv(p), VerifierTee(p) # None
  PROVE  /\ p.tee \notin IgnoresReport => VerifierTee(p) \notin IgnoresReport
         /\ p.tee # "sample" => VerifierTee(p) # "sample"
BY VerifierIs DEF ComponentTees, IgnoresReport

\* The verifiers that show report data look at CPUs.
LEMMA ShownByCpus ==
  ASSUME NEW t \in ShowsReport
  PROVE  Class(t) = "cpu"
BY DEF ShowsReport, Class

-----------------------------------------------------------------------------
(* Steps. *)

\* A request is never changed, and what depends on it alone is not either.
LEMMA SameRequest ==
  ASSUME request' = request
  PROVE  /\ IsKbs' <=> IsKbs
         /\ More' = More /\ AskedPieces' = AskedPieces
         /\ PrimaryPiece' = PrimaryPiece
         /\ Signers' = Signers /\ (SignedKey' <=> SignedKey)
         /\ Devices' = Devices /\ AskedEvidence' = AskedEvidence
         /\ AskedTees' = AskedTees
         /\ DifferentKinds' <=> DifferentKinds
         /\ PrimaryDone' <=> PrimaryDone
         /\ \A p : PieceInv(p)' <=> PieceInv(p)
         /\ \A c : ClaimInv(c)' <=> ClaimInv(c)
<1>1. /\ IsKbs' <=> IsKbs
      /\ More' = More /\ PrimaryPiece' = PrimaryPiece
      /\ AskedEvidence' = AskedEvidence /\ AskedTees' = AskedTees
      /\ PrimaryDone' <=> PrimaryDone
  BY DEF IsKbs, More, PrimaryPiece, AskedEvidence, AskedTees, PrimaryDone
<1>7. Devices' = Devices
  BY <1>1 DEF Devices
<1>8. Signers' = Signers
  BY <1>7 DEF Signers
<1>2. AskedPieces' = AskedPieces
  BY <1>1 DEF AskedPieces
<1>3. SignedKey' <=> SignedKey
  BY <1>1, <1>8 DEF SignedKey
<1>4. DifferentKinds' <=> DifferentKinds
  BY <1>1 DEF DifferentKinds
<1>5. \A p : PieceInv(p)' <=> PieceInv(p)
  BY <1>1, <1>2 DEF PieceInv
<1>6. \A c : ClaimInv(c)' <=> ClaimInv(c)
  BY <1>1, <1>3, <1>7 DEF ClaimInv, ReportBound, InitBound
<1> QED BY <1>1, <1>2, <1>3, <1>4, <1>5, <1>6, <1>7, <1>8

\* What was made of the devices stays as it is.
LEMMA SameAppraised ==
  ASSUME AppraisedInv, UNCHANGED <<request, claims, appraised>>
  PROVE  AppraisedInv' /\ Submods' = Submods
<1>2. \A i : Number(i)' = Number(i)
  BY DEF Number, OfClass
<1>3. ASSUME NEW i \in DOMAIN appraised'
      PROVE  AppraisedOf(appraised[i], i)'
  <2>1. AppraisedOf(appraised[i], i)
    BY <1>3 DEF AppraisedInv
  <2> QED BY <1>2, <2>1 DEF AppraisedOf
<1>4. Submods' = Submods
  BY DEF Submods
<1> QED BY <1>3, <1>4 DEF AppraisedInv

\* A token and its keys stay as they are.
LEMMA SameToken ==
  ASSUME TokenInv, AppraisedInv, UNCHANGED <<request, claims, appraised, token>>
  PROVE  TokenInv'
<1>1. (IsKbs' <=> IsKbs) /\ (SignedKey' <=> SignedKey)
  BY SameRequest
<1>2. Submods' = Submods
  BY SameAppraised
<1>3. Ear' <=> Ear
  BY DEF Ear
<1> QED BY <1>1, <1>2, <1>3 DEF TokenInv

\* What Intel Trust Authority has seen stays seen.
LEMMA SameSeen ==
  ASSUME ItaSeesAll, UNCHANGED <<request, token>>
  PROVE  ItaSeesAll'
<1>1. Signers' = Signers
  BY SameRequest
<1> QED BY <1>1 DEF ItaSeesAll

\* The slots stay as they are.
LEMMA SameSlots ==
  ASSUME SlotsInv, UNCHANGED <<request, slots>>
  PROVE  SlotsInv'
<1>1. AskedPieces' = AskedPieces
  BY SameRequest
<1> QED BY <1>1 DEF SlotsInv

\* There is no token before it is signed.
LEMMA NoTokenYet ==
  ASSUME token = NoToken
  PROVE  ~Ear /\ "keys" \notin DOMAIN token /\ "slots" \notin DOMAIN token
BY DEF Ear, NoToken

\* The invariant holds of a request that was received.
LEMMA InitIndInv == ASSUME Init PROVE IndInv
<1>1. IsSeq(<<>>) /\ Len(<<>>) = 0 /\ DOMAIN <<>> = {}
  BY NoElements
<1>2. ~Ear /\ "keys" \notin DOMAIN token /\ "slots" \notin DOMAIN token
  BY NoTokenYet DEF Init
<1>3. PhaseInv
  BY DEF Init, PhaseInv, Pcs
<1>4. TodoInv /\ ClaimsInv /\ AppraisedInv
  BY <1>1 DEF Init, TodoInv, ClaimsInv, AppraisedInv
<1>5. PrimaryInv /\ CollectInv /\ TokenInv /\ KeyAttested /\ ItaSeesAll
  BY <1>2 DEF Init, PrimaryInv, CollectInv, TokenInv, KeyAttested, ItaSeesAll
<1>6. SlotsInv
  BY DEF Init, SlotsInv, NoSlots
<1> QED BY <1>3, <1>4, <1>5, <1>6 DEF IndInv

\* An error or a panic changes nothing else.
LEMMA EndIndInv ==
  ASSUME IndInv, pc # "done", NEW how \in {"failed", "panicked"}, End(how)
  PROVE  IndInv'
<1>1. /\ pc' = how
      /\ UNCHANGED <<request, todo, claims, appraised, slots, azure, token,
                     message>>
  BY DEF End
<1>2. PhaseInv'
  BY <1>1 DEF IndInv, PhaseInv, Pcs
<1>3. TodoInv' /\ ClaimsInv'
  BY <1>1, SameRequest DEF IndInv, TodoInv, ClaimsInv
<1>4. AppraisedInv' /\ TokenInv' /\ ItaSeesAll' /\ SlotsInv'
  BY <1>1, SameAppraised, SameToken, SameSeen, SameSlots DEF IndInv
<1>5. PrimaryInv'
  <2>1. (IsKbs' <=> IsKbs) /\ (PrimaryDone' <=> PrimaryDone)
    BY <1>1, SameRequest
  <2>2. Ear' <=> Ear
    BY <1>1 DEF Ear
  <2>3. Ear => pc # "verify"
    BY NoTokenYet DEF IndInv, PhaseInv
  <2> QED BY <1>1, <2>1, <2>2, <2>3 DEF IndInv, PrimaryInv
<1>6. CollectInv' /\ KeyAttested'
  BY <1>1 DEF CollectInv, KeyAttested
<1> QED BY <1>2, <1>3, <1>4, <1>5, <1>6 DEF IndInv

\* The pieces a KBS request consists of are pieces.
LEMMA AskedShape ==
  ASSUME NEW q \in AskedPieces
  PROVE  /\ PieceFields \subseteq DOMAIN q /\ q.alg = "sha384"
         /\ q.component = None
BY DEF AskedPieces, PrimaryPiece, AdditionalPiece, Piece, PieceFields

\* The evidence of the pieces is what the request has evidence of.
LEMMA AskedIsThere ==
  ASSUME IsKbs, NEW q \in AskedPieces
  PROVE  q.evidence \in AskedEvidence /\ q.tee \in AskedTees
BY DEF AskedEvidence, AskedTees, AskedPieces, PrimaryPiece, AdditionalPiece,
       Piece, More

\* The evidence of the pieces has its shape.
LEMMA AskedEvidenceShape ==
  ASSUME request \in Requests, IsKbs, request.additional # Bad,
         NEW q \in AskedPieces
  PROVE  /\ EvidenceShape(q.evidence)
         /\ request.entry = "kbs_ita" /\ q.tee # "nvidia" /\ q.evidence # Bad
               => Len(q.evidence) = 1
<1>1. KbsRequestShape(request)
  BY RequestAssumption DEF IsKbs
<1>2. CASE q = PrimaryPiece
  <2>1. q.evidence = request.evidence /\ q.tee = request.tee
    BY <1>2 DEF PrimaryPiece, Piece
  <2> QED BY <1>1, <2>1 DEF KbsRequestShape
<1>3. CASE \E t \in More : q = AdditionalPiece(request, t)
  <2>1. PICK t \in More : q = AdditionalPiece(request, t)
    BY <1>3
  <2>2. q.evidence = request.additional[t] /\ q.tee = t
    BY <2>1 DEF AdditionalPiece, Piece
  <2>3. request.additional # None /\ t \in DOMAIN request.additional
    BY DEF More
  <2> QED BY <1>1, <2>2, <2>3 DEF KbsRequestShape
<1> QED BY <1>2, <1>3 DEF AskedPieces

\* A request is looked at once all of its pieces could be decoded.
LEMMA BeginIndInv ==
  ASSUME IndInv, pc = "received", request.entry \in Entries,
         NEW pieces, IsSeq(pieces), Begin(pieces),
         \A i \in DOMAIN pieces : \A e :
            e # Bad /\ e = Entered(request.entry, pieces[i]) => PieceInv(e),
         IsKbs => /\ request.additional # Bad
                  /\ pieces # <<>> => pieces[1] = PrimaryPiece
                  /\ \A q \in AskedPieces :
                        \E i \in DOMAIN pieces : pieces[i] = q
  PROVE  IndInv'
<1>1. PICK entered : entered = [i \in DOMAIN pieces |->
                                  Entered(request.entry, pieces[i])]
  OBVIOUS
<1>2. CASE End("failed")
  BY <1>2, EndIndInv
<1>3. CASE ~End("failed")
  <2>1. /\ pieces # <<>> /\ \A i \in DOMAIN entered : entered[i] # Bad
        /\ todo' = entered
        /\ pc' = IF request.entry = "kbs_ita" THEN "collect" ELSE "verify"
        /\ UNCHANGED <<request, claims, appraised, slots, azure, token, message>>
    BY <1>1, <1>3 DEF Begin
  <2>2. IsSeq(entered) /\ Len(entered) = Len(pieces) /\ DOMAIN entered = DOMAIN pieces
    BY <1>1, Mapped
  <2>3. entered # <<>> /\ 1 \in DOMAIN pieces
    BY <2>1, <2>2, Places
  <2>4. ~Ear /\ "slots" \notin DOMAIN token /\ token = NoToken
    BY NoTokenYet DEF IndInv, PhaseInv
  <2>5. PhaseInv'
    BY <2>1, <2>3 DEF IndInv, PhaseInv, Pcs, IsKbs, KbsEntries
  <2>6. TodoInv'
    <3>1. ASSUME NEW i \in DOMAIN pieces PROVE PieceInv(entered[i])
      BY <1>1, <2>1, <2>2
    <3>2. ASSUME NEW i \in DOMAIN entered PROVE PieceInv(entered[i])'
      BY <2>1, <2>2, <3>1, SameRequest
    <3> QED BY <2>1, <2>2, <3>2 DEF TodoInv
  <2>7. ClaimsInv'
    BY <2>1, SameRequest DEF IndInv, ClaimsInv
  <2>8. AppraisedInv' /\ TokenInv' /\ ItaSeesAll' /\ SlotsInv'
    BY <2>1, SameAppraised, SameToken, SameSeen, SameSlots DEF IndInv
  <2>9. ASSUME IsKbs, NEW i \in DOMAIN pieces, pieces[i] \in AskedPieces
        PROVE  SamePiece(entered[i], pieces[i])
    <3>1. entered[i] = Entered(request.entry, pieces[i]) /\ entered[i] # Bad
      BY <1>1, <2>1, <2>2
    <3> QED BY <2>9, <3>1, AskedShape, BackEndKeeps DEF IsKbs
  <2>10. PrimaryInv'
    <3>1. CASE ~IsKbs
      BY <2>1, <3>1, SameRequest DEF PrimaryInv
    <3>2. CASE IsKbs
      <4>1. pieces[1] = PrimaryPiece /\ PrimaryPiece \in AskedPieces
        BY <2>1, <3>2 DEF AskedPieces
      <4>2. SamePiece(entered[1], PrimaryPiece)
        BY <2>3, <2>9, <3>2, <4>1
      <4>3. ~Ear'
        BY <2>1, <2>4 DEF Ear
      <4>4. PrimaryPiece' = PrimaryPiece
        BY <2>1, SameRequest
      <4> QED BY <2>1, <4>2, <4>3, <4>4 DEF PrimaryInv
    <3> QED BY <3>1, <3>2
  <2>11. CollectInv'
    <3>1. SUFFICES ASSUME pc' = "collect", NEW q \in AskedPieces'
                   PROVE  \E i \in DOMAIN todo' : SamePiece(todo'[i], q)
      BY DEF CollectInv
    <3>2. q \in AskedPieces /\ IsKbs
      BY <2>1, <3>1, SameRequest DEF IsKbs, KbsEntries
    <3>3. PICK i \in DOMAIN pieces : pieces[i] = q
      BY <3>2
    <3> QED BY <2>1, <2>2, <2>9, <3>2, <3>3
  <2>12. KeyAttested'
    BY <2>1 DEF KeyAttested
  <2> QED BY <2>5, <2>6, <2>7, <2>8, <2>10, <2>11, <2>12 DEF IndInv
<1> QED BY <1>2, <1>3

\* The pieces of a KBS request are all of its evidence, the primary first.
LEMMA KbsPiecesAre ==
  ASSUME request \in Requests, IsKbs, request.additional # Bad, NEW order,
         IsSeq(order), \A i \in DOMAIN order : order[i] \in More,
         \A t \in More : \E i \in DOMAIN order : order[i] = t,
         NEW pieces, pieces = KbsPieces(request, order)
  PROVE  /\ IsSeq(pieces) /\ pieces[1] = PrimaryPiece
         /\ \A i \in DOMAIN pieces : pieces[i] \in AskedPieces
         /\ \A q \in AskedPieces : \E i \in DOMAIN pieces : pieces[i] = q
<1>1. PICK rest : rest = [i \in DOMAIN order |-> AdditionalPiece(request, order[i])]
  OBVIOUS
<1>2. IsSeq(rest) /\ Len(rest) = Len(order) /\ DOMAIN rest = DOMAIN order
  BY <1>1, Mapped
<1>3. PICK first : first = <<PrimaryPiece>>
  OBVIOUS
<1>4. IsSeq(first) /\ Len(first) = 1 /\ first[1] = PrimaryPiece
  <2>1. first \in Seq({PrimaryPiece}) /\ Len(first) = 1 /\ first[1] = PrimaryPiece
    BY <1>3
  <2> QED BY <2>1, SeqOver
<1>5. pieces = first \o rest
  BY <1>1, <1>3 DEF KbsPieces, PrimaryPiece
<1>6. /\ IsSeq(pieces) /\ Len(pieces) = 1 + Len(rest)
      /\ pieces[1] = first[1]
      /\ \A i \in 1 .. Len(rest) : pieces[1 + i] = rest[i]
  <2>1. /\ IsSeq(first \o rest) /\ Len(first \o rest) = Len(first) + Len(rest)
        /\ \A i \in 1 .. Len(first) : (first \o rest)[i] = first[i]
        /\ \A i \in 1 .. Len(rest) : (first \o rest)[Len(first) + i] = rest[i]
    <3> HIDE <1>1, <1>3, <1>5
    <3>1. IsSeq(first) /\ IsSeq(rest)
      BY <1>2, <1>4
    <3> QED BY <3>1, Joined
  <2>2. 1 \in 1 .. Len(first)
    BY <1>4
  <2> QED BY <1>4, <1>5, <2>1, <2>2
<1>7. /\ Len(rest) \in Nat /\ DOMAIN rest = 1 .. Len(rest)
      /\ DOMAIN pieces = 1 .. (1 + Len(rest))
  BY <1>2, <1>6, Places
<1>8. pieces[1] = PrimaryPiece
  BY <1>4, <1>6
<1>9. ASSUME NEW i \in DOMAIN pieces PROVE pieces[i] \in AskedPieces
  <2>1. CASE i = 1
    BY <1>8, <2>1 DEF AskedPieces
  <2>2. CASE i # 1
    <3>1. i - 1 \in 1 .. Len(rest) /\ 1 + (i - 1) = i
      BY <1>7, <2>2
    <3>2. pieces[i] = rest[i - 1] /\ i - 1 \in DOMAIN order
      BY <1>2, <1>6, <1>7, <3>1
    <3> QED BY <1>1, <3>2 DEF AskedPieces
  <2> QED BY <2>1, <2>2
<1>10. ASSUME NEW q \in AskedPieces PROVE \E i \in DOMAIN pieces : pieces[i] = q
  <2>1. CASE q = PrimaryPiece
    <3>1. 1 \in DOMAIN pieces
      BY <1>7
    <3> QED BY <1>8, <2>1, <3>1
  <2>2. CASE \E t \in More : q = AdditionalPiece(request, t)
    <3>1. PICK t \in More : q = AdditionalPiece(request, t)
      BY <2>2
    <3>2. PICK i \in DOMAIN order : order[i] = t
      OBVIOUS
    <3>3. rest[i] = q /\ i \in 1 .. Len(rest)
      BY <1>1, <1>2, <1>7, <3>1, <3>2
    <3>4. 1 + i \in DOMAIN pieces
      BY <1>7, <3>3
    <3> QED BY <1>6, <3>3, <3>4
  <2> QED BY <2>1, <2>2 DEF AskedPieces
<1> QED BY <1>6, <1>8, <1>9, <1>10

\* Every entry.
LEMMA ReceiveIndInv == ASSUME IndInv, Receive PROVE IndInv'
<1>1. pc = "received" /\ request.entry \in Entries /\ request \in Requests
  BY DEF Receive, IndInv, PhaseInv
<1>2. CASE End("failed")
  BY <1>1, <1>2, EndIndInv
<1>3. CASE ~IsKbs /\ ~End("failed")
  <2>1. Begin(request.pieces)
    BY <1>3 DEF Receive
  <2>2. request.entry \in {"rest", "grpc"}
    BY <1>1, <1>3 DEF Entries, IsKbs, KbsEntries
  <2>3. AsRequestShape(request)
    BY <1>1, <2>2, RequestAssumption
  <2>4. ASSUME NEW i \in DOMAIN request.pieces, NEW e, e # Bad,
               e = Entered(request.entry, request.pieces[i])
        PROVE  PieceInv(e)
    <3>1. PICK p : p = request.pieces[i]
      OBVIOUS
    <3>2. /\ PieceFields \subseteq DOMAIN p /\ EvidenceShape(p.evidence)
          /\ p.alg \in HashAlgorithms \cup {None, Bad}
          /\ p.component \in {None, Bad} \/ p.component.tee \in ComponentTees
      BY <2>3, <3>1 DEF AsRequestShape
    <3>3. e = RestPiece(p) \/ e = GrpcPiece(p)
      BY <2>2, <2>4, <3>1 DEF Entered
    <3>4. /\ e.alg \in HashAlgorithms /\ e.evidence = p.evidence
          /\ e.component = None \/ e.component.tee \in ComponentTees
      BY <2>4, <3>2, <3>3, FrontEndKeeps
    <3>5. p.evidence \in AskedEvidence
      BY <1>3, <3>1 DEF AskedEvidence
    <3> QED BY <1>3, <3>2, <3>4, <3>5 DEF PieceInv
  <2>5. IsSeq(request.pieces)
    BY <2>3 DEF AsRequestShape
  <2> QED BY <1>1, <1>3, <2>1, <2>4, <2>5, BeginIndInv
<1>4. CASE IsKbs /\ ~End("failed")
  <2>1. request.additional # Bad
    BY <1>4 DEF Receive
  <2>2. KbsRequestShape(request)
    BY <1>1, <1>4, RequestAssumption DEF IsKbs
  <2>3. ASSUME NEW order, IsSeq(order), \A i \in DOMAIN order : order[i] \in More,
               \A t \in More : \E i \in DOMAIN order : order[i] = t,
               Begin(KbsPieces(request, order))
        PROVE  IndInv'
    <3>1. PICK pieces : pieces = KbsPieces(request, order)
      OBVIOUS
    <3>2. /\ IsSeq(pieces) /\ pieces[1] = PrimaryPiece
          /\ \A i \in DOMAIN pieces : pieces[i] \in AskedPieces
          /\ \A q \in AskedPieces : \E i \in DOMAIN pieces : pieces[i] = q
      BY <1>1, <1>4, <2>1, <2>3, <3>1, KbsPiecesAre
    <3>3. ASSUME NEW i \in DOMAIN pieces, NEW e, e # Bad,
                 e = Entered(request.entry, pieces[i])
          PROVE  PieceInv(e)
      <4>1. PICK q \in AskedPieces : q = pieces[i]
        BY <3>2
      <4>2. SamePiece(e, q) /\ q.alg = "sha384" /\ q.component = None
        BY <1>4, <3>3, <4>1, AskedShape, BackEndKeeps DEF IsKbs
      <4>3. EvidenceShape(q.evidence)
        BY <1>1, <1>4, <2>1, AskedEvidenceShape
      <4>4. q.evidence \in AskedEvidence
        BY <1>4, AskedIsThere
      <4> QED BY <4>2, <4>3, <4>4 DEF PieceInv, SamePiece, HashAlgorithms
    <3> QED BY <1>1, <2>1, <2>3, <3>1, <3>2, <3>3, BeginIndInv
  <2>4. CASE request.additional = None
    <3>1. Begin(KbsPieces(request, <<>>))
      BY <1>4, <2>1, <2>4 DEF Receive
    <3>2. More = {}
      BY <2>4 DEF More
    <3> QED BY <2>3, <3>1, <3>2, NoElements
  <2>5. CASE request.additional # None
    <3>1. PICK order \in SetToSeqs(DOMAIN request.additional) :
            Begin(KbsPieces(request, order))
      BY <1>4, <2>1, <2>5 DEF Receive
    <3>2. IsFiniteSet(DOMAIN request.additional) /\ More = DOMAIN request.additional
      BY <2>1, <2>2, <2>5 DEF KbsRequestShape, More
    <3>3. /\ IsSeq(order) /\ \A i \in DOMAIN order : order[i] \in More
          /\ \A t \in More : \E i \in DOMAIN order : order[i] = t
      BY <3>2, ListsAreComplete
    <3> QED BY <2>3, <3>1, <3>3
  <2> QED BY <2>4, <2>5
<1> QED BY <1>2, <1>3, <1>4

\* A challenge.
LEMMA ChallengeIndInv == ASSUME IndInv, Challenge PROVE IndInv'
<1>1. pc = "received" /\ request.entry = "challenge"
  BY DEF Challenge
<1>2. CASE End("failed")
  BY <1>1, <1>2, EndIndInv
<1>3. CASE ~End("failed")
  <2>1. PICK from, algorithm :
          /\ message' = [nonce |-> from, algorithm |-> algorithm]
          /\ pc' = "done"
          /\ UNCHANGED <<request, todo, claims, appraised, slots, azure, token>>
    BY <1>3 DEF Challenge
  <2>2. message' # NoMessage
    <3>1. "nonce" \in DOMAIN message' /\ "nonce" \notin DOMAIN NoMessage
      BY <2>1 DEF NoMessage
    <3> QED BY <3>1
  <2>3. ~IsKbs
    BY <1>1 DEF IsKbs, KbsEntries
  <2>4. PhaseInv'
    BY <1>1, <2>1, <2>2 DEF IndInv, PhaseInv, Pcs
  <2>5. TodoInv' /\ ClaimsInv'
    BY <2>1, SameRequest DEF IndInv, TodoInv, ClaimsInv
  <2>6. AppraisedInv' /\ TokenInv' /\ ItaSeesAll' /\ SlotsInv'
    BY <2>1, SameAppraised, SameToken, SameSeen, SameSlots DEF IndInv
  <2>7. PrimaryInv' /\ CollectInv' /\ KeyAttested'
    BY <2>1, <2>3, SameRequest DEF PrimaryInv, CollectInv, KeyAttested
  <2> QED BY <2>4, <2>5, <2>6, <2>7 DEF IndInv
<1> QED BY <1>2, <1>3

\* The data that a device of a KBS request must have signed.
LEMMA AskedRuntime ==
  ASSUME NEW q \in AskedPieces
  PROVE  /\ q.runtime.form = "structured" /\ "key" \in DOMAIN q.runtime.data
         /\ q.runtime.data.key = request.key
         /\ q.runtime.data.nonce = request.nonce
<1>1. q.runtime \in {Structured(PrimaryData(request)), Structured(DeviceData(request))}
  BY DEF AskedPieces, PrimaryPiece, AdditionalPiece, Piece
<1> QED BY <1>1 DEF Structured, PrimaryData, DeviceData

\* A device of the evidence is a device of the request.
LEMMA DeviceIs ==
  ASSUME NEW e \in AskedEvidence, e # Bad, NEW i \in DOMAIN e,
         e[i].genuine \/ e[i].tee \in Emulated
  PROVE  e[i] \in Devices
<1>1. e[i] \in ToSet(e)
  BY DEF ToSet
<1>2. e[i] \in UNION {ToSet(x) : x \in AskedEvidence \ {Bad}}
  BY <1>1
<1> QED BY <1>2 DEF Devices

\* A device of a piece that signed its data signed the key and the nonce of
\* the request.
LEMMA AskedSigner ==
  ASSUME IsKbs, NEW q \in AskedPieces, q.evidence # Bad,
         NEW i \in DOMAIN q.evidence, NEW alg,
         q.evidence[i].genuine \/ q.evidence[i].tee \in Emulated,
         q.evidence[i].report = Digest(alg, q.runtime.data)
  PROVE  q.evidence[i] \in Signers
<1>1. PICK d : d = q.evidence[i]
  OBVIOUS
<1>2. "data" \in DOMAIN d.report /\ d.report.data = q.runtime.data
  BY <1>1 DEF Digest
<1>3. d.report.data.key = request.key /\ d.report.data.nonce = request.nonce
  BY <1>2, AskedRuntime
<1>4. d \in Devices
  BY <1>1, AskedIsThere, DeviceIs
<1> QED BY <1>1, <1>2, <1>3, <1>4 DEF Signers

\* The claims of a device that was verified.
LEMMA VerifiedClaim ==
  ASSUME NEW p, PieceInv(p), NEW runtime, NEW init, NEW c,
         runtime = parse_runtime_data(p.runtime, p.alg),
         init = parse_init_data(p.init),
         PieceVerifies(p, runtime.expected, init.expected),
         NEW i \in DOMAIN p.evidence,
         c = [tee |-> p.tee,
              tee_class |-> IF request.wasm THEN "cpu" ELSE Class(VerifierTee(p)),
              claims |-> VerifierClaims(VerifierTee(p), p.evidence[i], init.expected),
              init_data_claims |-> init.claims,
              runtime_data_claims |-> runtime.claims]
  PROVE  ClaimInv(c)
<1>1. PICK d, tee : d = p.evidence[i] /\ tee = VerifierTee(p)
  OBVIOUS
<1>2. /\ p.evidence # Bad /\ d.tee = tee
      /\ d.genuine \/ d.tee \in Emulated
      /\ tee \notin IgnoresReport => \A r \in runtime.expected : d.report = r
      /\ tee \in ChecksInit => \A x \in init.expected : d.init = x
  BY <1>1, AcceptedSigned
<1>3. /\ c.tee = p.tee
      /\ c.claims = VerifierClaims(tee, d, init.expected)
      /\ c.init_data_claims = init.claims
      /\ c.runtime_data_claims = runtime.claims
  BY <1>1
<1>4. d \in Devices
  BY <1>1, <1>2, DeviceIs DEF PieceInv
<1>5. /\ p.tee \notin IgnoresReport => tee \notin IgnoresReport
      /\ p.tee # "sample" => tee # "sample"
  <2>1. tee # None
    BY <1>1 DEF PieceVerifies, Parses
  <2> QED BY <1>1, <2>1, VerifierLooks
<1>6. ASSUME c.claims.report_data # None, c.runtime_data_claims # None
      PROVE  /\ c.tee \notin IgnoresReport =>
                   ReportBound(c.claims.report_data, c.runtime_data_claims)
             /\ IsKbs => /\ "key" \in DOMAIN c.runtime_data_claims
                         /\ c.runtime_data_claims.key = request.key
                         /\ SignedKey
  <2>1. tee \in ShowsReport /\ c.claims.report_data = d.report
    BY <1>3, <1>6 DEF VerifierClaims
  <2>2. p.runtime # None /\ runtime.expected = {Digest(p.alg, runtime.claims)}
    BY <1>3, <1>6, RuntimeExpected
  <2>3. tee \notin IgnoresReport => d.report = Digest(p.alg, runtime.claims)
    BY <1>2, <2>2
  <2>4. p.alg \in HashAlgorithms
    BY DEF PieceInv
  <2>5. ASSUME c.tee \notin IgnoresReport
        PROVE  ReportBound(c.claims.report_data, c.runtime_data_claims)
    BY <1>3, <1>4, <1>5, <2>1, <2>3, <2>4, <2>5 DEF ReportBound
  <2>6. ASSUME IsKbs
        PROVE  /\ "key" \in DOMAIN c.runtime_data_claims
               /\ c.runtime_data_claims.key = request.key
               /\ SignedKey
    <3>1. PICK q \in AskedPieces : SamePiece(p, q)
      BY <2>6 DEF PieceInv
    <3>2. p.runtime = q.runtime /\ p.evidence = q.evidence /\ p.tee = q.tee
      BY <3>1 DEF SamePiece
    <3>3. runtime.claims = q.runtime.data
      BY <2>2, <3>2, AskedRuntime, RuntimeExpected
    <3>4. ASSUME AskedTees \cap IgnoresReport = {}
          PROVE  \E x \in Signers : Class(x.tee) = "cpu"
      <4>1. p.tee \notin IgnoresReport
        BY <2>6, <3>2, <3>4, AskedIsThere
      <4>2. d.report = Digest(p.alg, q.runtime.data)
        BY <1>5, <2>3, <3>3, <4>1
      <4>3. d \in Signers
        BY <1>1, <1>2, <2>6, <3>2, <4>2, AskedSigner
      <4>4. Class(d.tee) = "cpu"
        BY <1>2, <2>1, ShownByCpus
      <4> QED BY <4>3, <4>4
    <3> QED BY <1>3, <3>3, <3>4, AskedRuntime DEF SignedKey
  <2> QED BY <2>5, <2>6
<1>7. ASSUME c.claims.init_data # None, c.init_data_claims # None, c.tee # "sample"
      PROVE  InitBound(c.claims.init_data, c.init_data_claims)
  <2>1. tee \in ChecksInit /\ c.claims.init_data = d.init
    BY <1>3, <1>5, <1>7 DEF VerifierClaims
  <2>2. PICK doc : /\ init.expected = {doc} /\ "data" \in DOMAIN doc
                   /\ init.claims = InitClaims(doc.data.data)
    BY <1>3, <1>7, InitExpected
  <2>3. d.init = doc
    BY <1>2, <2>1, <2>2
  <2> QED BY <1>3, <1>4, <2>1, <2>2, <2>3 DEF InitBound
<1> QED BY <1>6, <1>7 DEF ClaimInv

\* The primary evidence of a KBS request is verified against the additional
\* evidence.
LEMMA PrimaryVerified ==
  ASSUME request \in Requests, IsKbs, NEW p, SamePiece(p, PrimaryPiece),
         NEW runtime, runtime = parse_runtime_data(p.runtime, p.alg),
         NEW init, PieceVerifies(p, runtime.expected, init), PieceInv(p),
         request.tee \notin IgnoresReport
  PROVE  PrimaryDone
<1>1. /\ p.runtime = Structured(PrimaryData(request)) /\ p.alg = "sha384"
      /\ p.evidence = request.evidence /\ p.tee = request.tee
  BY DEF SamePiece, PrimaryPiece, Piece
<1>2. p.runtime # None
  BY <1>1, RequestAssumption DEF IsKbs, KbsRequestShape
<1>3. p.runtime.form = "structured" /\ p.runtime.data = PrimaryData(request)
  BY <1>1 DEF Structured
<1>4. runtime.expected = {Digest("sha384", PrimaryData(request))}
  BY <1>1, <1>2, <1>3, RuntimeExpected
<1>5. VerifierTee(p) \notin IgnoresReport
  <2>1. VerifierTee(p) # None
    BY DEF PieceVerifies, Parses
  <2> QED BY <1>1, <2>1, VerifierLooks
<1>6. ASSUME NEW i \in DOMAIN request.evidence
      PROVE  request.evidence[i].report = Digest("sha384", PrimaryData(request))
  BY <1>1, <1>4, <1>5, AcceptedSigned
<1> QED BY <1>6 DEF PrimaryDone

\* A piece of evidence is verified.
LEMMA VerifyIndInv == ASSUME IndInv, VerifyNext PROVE IndInv'
<1>1. /\ pc = "verify" /\ todo # <<>> /\ appraised = <<>> /\ token = NoToken
      /\ request \in Requests /\ request.entry \in Entries \ {"kbs_ita"}
      /\ message = NoMessage
  BY DEF VerifyNext, IndInv, PhaseInv
<1>2. CASE \E how \in {"failed", "panicked"} : End(how)
  BY <1>1, <1>2, EndIndInv
<1>3. CASE ~(\E how \in {"failed", "panicked"} : End(how))
  <2>1. PICK p : p = Head(todo)
    OBVIOUS
  <2>2. PICK runtime : runtime = parse_runtime_data(p.runtime, p.alg)
    OBVIOUS
  <2>3. PICK init : init = parse_init_data(p.init)
    OBVIOUS
  <2>4. PICK claimed :
          claimed = [i \in DOMAIN p.evidence |->
                      [tee |-> p.tee,
                       tee_class |-> IF request.wasm THEN "cpu"
                                     ELSE Class(VerifierTee(p)),
                       claims |-> VerifierClaims(VerifierTee(p), p.evidence[i],
                                                 init.expected),
                       init_data_claims |-> init.claims,
                       runtime_data_claims |-> runtime.claims]]
    OBVIOUS
  <2>5. InitDataParses(p.init)
    BY <1>3, <2>1 DEF VerifyNext
  <2>6. PieceVerifies(p, runtime.expected, init.expected)
    BY <1>3, <2>1, <2>2, <2>3, <2>5 DEF VerifyNext
  <2>7. /\ claims' = claims \o claimed
        /\ todo' = Tail(todo)
        /\ pc' = IF Len(todo) > 1 THEN "verify"
                 ELSE IF claims' = <<>> THEN "sign" ELSE "issue"
        /\ UNCHANGED <<request, appraised, slots, azure, token, message>>
    BY <1>3, <2>1, <2>2, <2>3, <2>4, <2>5 DEF VerifyNext
  <2>8. /\ IsSeq(Tail(todo)) /\ Len(Tail(todo)) = Len(todo) - 1
        /\ \A i \in 1 .. (Len(todo) - 1) : Tail(todo)[i] = todo[i + 1]
        /\ p = todo[1] /\ 1 \in DOMAIN todo /\ Len(todo) \in Nat \ {0}
    BY <1>1, <2>1, Shorter DEF IndInv, TodoInv
  <2>9. PieceInv(p) /\ p.evidence # Bad
    BY <2>6, <2>8 DEF IndInv, TodoInv, PieceVerifies, Parses
  <2>10. IsSeq(claimed) /\ Len(claimed) = Len(p.evidence)
    <3>1. IsSeq(p.evidence)
      BY <2>9 DEF PieceInv, EvidenceShape
    <3> QED BY <2>4, <3>1, Mapped
  <2>11. ASSUME NEW i \in DOMAIN claimed PROVE ClaimInv(claimed[i])
    BY <2>2, <2>3, <2>4, <2>6, <2>9, <2>11, VerifiedClaim
  <2>12. /\ IsSeq(claims') /\ Len(claims') = Len(claims) + Len(claimed)
         /\ \A i \in 1 .. Len(claims) : claims'[i] = claims[i]
         /\ \A i \in 1 .. Len(claimed) : claims'[Len(claims) + i] = claimed[i]
    <3>1. IsSeq(claims) /\ IsSeq(claimed)
      BY <2>10 DEF IndInv, ClaimsInv
    <3> HIDE <2>4
    <3>2. /\ IsSeq(claims \o claimed)
          /\ Len(claims \o claimed) = Len(claims) + Len(claimed)
          /\ \A i \in 1 .. Len(claims) : (claims \o claimed)[i] = claims[i]
          /\ \A i \in 1 .. Len(claimed) :
                (claims \o claimed)[Len(claims) + i] = claimed[i]
      BY <3>1, Joined
    <3> QED BY <2>7, <3>2
  <2>13. /\ Len(claims) \in Nat /\ DOMAIN claims = 1 .. Len(claims)
         /\ Len(claimed) \in Nat /\ DOMAIN claimed = 1 .. Len(claimed)
    BY <2>10, Places DEF IndInv, ClaimsInv
  <2>14. /\ Len(claims') \in Nat /\ DOMAIN claims' = 1 .. Len(claims')
         /\ claims' = <<>> <=> Len(claims') = 0
    BY <2>12, Places
  <2>15. PhaseInv'
    <3>1. Tail(todo) # <<>> <=> Len(todo) > 1
      BY <2>8, Places
    <3>2. Len(appraised') = 0 /\ appraised' = <<>>
      BY <1>1, <2>7, NoElements
    <3> QED BY <1>1, <2>7, <2>14, <3>1, <3>2 DEF PhaseInv, Pcs
  <2>16. TodoInv'
    <3>1. DOMAIN Tail(todo) = 1 .. (Len(todo) - 1) /\ DOMAIN todo = 1 .. Len(todo)
      BY <2>8, Places DEF IndInv, TodoInv
    <3>2. ASSUME NEW i \in DOMAIN Tail(todo) PROVE PieceInv(Tail(todo)[i])
      <4>1. i + 1 \in DOMAIN todo /\ Tail(todo)[i] = todo[i + 1]
        BY <2>8, <3>1
      <4> QED BY <4>1 DEF IndInv, TodoInv
    <3>3. \A i \in DOMAIN todo' : PieceInv(todo'[i])
      BY <2>7, <3>2
    <3>4. \A x : PieceInv(x)' <=> PieceInv(x)
      BY <2>7, SameRequest
    <3> QED BY <2>7, <2>8, <3>3, <3>4 DEF TodoInv
  <2>17. ClaimsInv'
    <3>1. ASSUME NEW i \in DOMAIN claims' PROVE ClaimInv(claims'[i])
      <4>1. CASE i \in DOMAIN claims
        BY <2>12, <2>13, <4>1 DEF IndInv, ClaimsInv
      <4>2. CASE i \notin DOMAIN claims
        <5>1. PICK k : k = i - Len(claims)
          OBVIOUS
        <5>2. k \in DOMAIN claimed /\ Len(claims) + k = i
          BY <2>12, <2>13, <2>14, <4>2, <5>1
        <5> QED BY <2>11, <2>12, <2>13, <5>2
      <4> QED BY <4>1, <4>2
    <3>2. \A x : ClaimInv(x)' <=> ClaimInv(x)
      BY <2>7, SameRequest
    <3> QED BY <2>12, <3>1, <3>2 DEF ClaimsInv
  <2>18. AppraisedInv'
    BY <1>1, <2>7, <2>14, NoElements DEF AppraisedInv
  <2>19. ItaSeesAll' /\ SlotsInv'
    BY <2>7, SameSeen, SameSlots DEF IndInv
  <2>20. ~Ear' /\ "keys" \notin DOMAIN token' /\ TokenInv'
    BY <1>1, <2>7, NoTokenYet DEF TokenInv, Ear
  <2>21. PrimaryInv'
    <3>1. ~Ear
      BY <1>1, NoTokenYet
    <3>2. IsKbs => request.tee \in IgnoresReport \/ PrimaryDone
      BY <1>1, <2>2, <2>6, <2>8, <2>9, PrimaryVerified DEF IndInv, PrimaryInv
    <3>3. (IsKbs' <=> IsKbs) /\ (PrimaryDone' <=> PrimaryDone)
      BY <2>7, SameRequest
    <3> QED BY <2>7, <3>2, <3>3 DEF PrimaryInv
  <2>22. CollectInv' /\ KeyAttested'
    BY <2>7 DEF CollectInv, KeyAttested
  <2> QED BY <2>15, <2>16, <2>17, <2>18, <2>19, <2>20, <2>21, <2>22 DEF IndInv
<1> QED BY <1>2, <1>3

\* The places in appraised are places in claims, and a class has as many
\* submods as devices that were appraised.
LEMMA CountOfClass ==
  ASSUME ClaimsInv, AppraisedInv, NEW n, n = Len(appraised) + 1, n <= Len(claims)
  PROVE  SubmodName(claims[n].tee_class) =
            <<claims[n].tee_class, Number(n) % IndexMod>>
<1>1. PICK c : c = claims[n].tee_class
  OBVIOUS
<1>2. /\ Len(claims) \in Nat /\ DOMAIN claims = 1 .. Len(claims)
      /\ Len(appraised) \in Nat /\ DOMAIN appraised = 1 .. Len(appraised)
  BY Places DEF ClaimsInv, AppraisedInv
<1>3. ASSUME NEW i \in DOMAIN appraised PROVE appraised[i].name[1] = claims[i].tee_class
  <2>1. AppraisedOf(appraised[i], i)
    BY DEF AppraisedInv
  <2> QED BY <2>1 DEF AppraisedOf
<1>4. InClass(c) = {j \in OfClass(c) : j < n}
  <2>1. \A j \in DOMAIN appraised : j \in DOMAIN claims /\ j < n
    BY <1>2
  <2>2. \A j \in DOMAIN claims : j < n => j \in DOMAIN appraised
    BY <1>2
  <2> QED BY <1>3, <2>1, <2>2 DEF InClass, OfClass
<1> QED BY <1>1, <1>4 DEF SubmodName, Number

\* A device is appraised.
LEMMA IssueIndInv ==
  ASSUME IndInv, NEW result \in PolicyResults, IssueNext(result)
  PROVE  IndInv'
<1>1. /\ pc = "issue" /\ Len(appraised) < Len(claims) /\ token = NoToken
      /\ request \in Requests /\ request.entry \in Entries \ {"kbs_ita"}
      /\ message = NoMessage
  BY DEF IssueNext, IndInv, PhaseInv
<1>2. CASE \E how \in {"failed", "panicked"} : End(how)
  BY <1>1, <1>2, EndIndInv
<1>3. CASE ~(\E how \in {"failed", "panicked"} : End(how))
  <2>1. PICK n : n = Len(appraised) + 1
    OBVIOUS
  <2>2. PICK c : c = claims[n]
    OBVIOUS
  <2>3. PICK annotated :
          annotated = transform_claims(c.claims, c.init_data_claims,
                                       c.runtime_data_claims, c.tee)
    OBVIOUS
  <2>4. PICK a : a = [name |-> SubmodName(c.tee_class),
                      policy |-> <<PolicyId, c.tee_class>>,
                      appraisal |-> Appraisal(result, annotated)]
    OBVIOUS
  <2>5. AppraisalOutcome(result) \in {"ok", "failed", "panicked"}
    BY DEF AppraisalOutcome, Settable
  <2>6. ~TransformPanics(c.claims) /\ AppraisalOutcome(result) = "ok"
    BY <1>3, <2>1, <2>2, <2>5 DEF IssueNext
  <2>8. /\ appraised' = Append(appraised, a)
        /\ pc' = IF Len(appraised') < Len(claims) THEN "issue" ELSE "sign"
        /\ UNCHANGED <<request, todo, claims, slots, azure, token, message>>
    BY <1>3, <2>1, <2>2, <2>3, <2>4, <2>6 DEF IssueNext
  <2>9. /\ IsSeq(appraised') /\ Len(appraised') = n
        /\ \A i \in 1 .. Len(appraised) : appraised'[i] = appraised[i]
        /\ appraised'[n] = a
    <3>1. IsSeq(appraised)
      BY DEF IndInv, AppraisedInv
    <3> HIDE <2>4
    <3> QED BY <2>1, <2>8, <3>1, Longer
  <2>10. /\ Len(claims) \in Nat /\ DOMAIN claims = 1 .. Len(claims)
         /\ Len(appraised) \in Nat /\ DOMAIN appraised = 1 .. Len(appraised)
         /\ DOMAIN appraised' = 1 .. n
    BY <2>9, Places DEF IndInv, ClaimsInv, AppraisedInv
  <2>11. n \in DOMAIN claims /\ n <= Len(claims)
    BY <1>1, <2>1, <2>10
  <2>12. AppraisedOf(a, n)
    <3>1. a.name = <<c.tee_class, Number(n) % IndexMod>>
      BY <2>1, <2>2, <2>4, <2>11, CountOfClass DEF IndInv
    <3>2. a.appraisal = Appraisal(result, annotated)
      BY <2>4
    <3>3. a.appraisal.evidence = annotated
      BY <3>2 DEF Appraisal
    <3> QED BY <2>2, <2>3, <3>1, <3>3 DEF AppraisedOf
  <2>13. AppraisedInv'
    <3>2. \A i : Number(i)' = Number(i)
      BY <2>8 DEF Number, OfClass
    <3>3. ASSUME NEW i \in DOMAIN appraised' PROVE AppraisedOf(appraised'[i], i)
      <4>1. CASE i = n
        BY <2>9, <2>12, <4>1
      <4>2. CASE i # n
        <5>1. i \in DOMAIN appraised /\ appraised'[i] = appraised[i]
          BY <2>1, <2>9, <2>10, <4>2
        <5> QED BY <5>1 DEF IndInv, AppraisedInv
      <4> QED BY <4>1, <4>2
    <3>4. \A x, i : AppraisedOf(x, i)' <=> AppraisedOf(x, i)
      BY <2>8, <3>2 DEF AppraisedOf
    <3> QED BY <2>8, <2>9, <2>11, <3>3, <3>4 DEF AppraisedInv
  <2>14. PhaseInv'
    BY <1>1, <2>8, <2>9, <2>10, <2>11 DEF PhaseInv, Pcs
  <2>15. TodoInv' /\ ClaimsInv'
    BY <2>8, SameRequest DEF IndInv, TodoInv, ClaimsInv
  <2>16. ItaSeesAll' /\ SlotsInv'
    BY <2>8, SameSeen, SameSlots DEF IndInv
  <2>17. TokenInv'
    BY <1>1, <2>8, NoTokenYet DEF TokenInv, Ear
  <2>18. PrimaryInv'
    <3>1. IsKbs => request.tee \in IgnoresReport \/ PrimaryDone
      BY <1>1 DEF IndInv, PrimaryInv
    <3>2. (IsKbs' <=> IsKbs) /\ (PrimaryDone' <=> PrimaryDone)
      BY <2>8, SameRequest
    <3> QED BY <2>8, <3>1, <3>2 DEF PrimaryInv
  <2>19. CollectInv' /\ KeyAttested'
    BY <2>8 DEF CollectInv, KeyAttested
  <2> QED BY <2>13, <2>14, <2>15, <2>16, <2>17, <2>18, <2>19 DEF IndInv
<1> QED BY <1>2, <1>3

\* A submod is the appraisal of a device that was given its name.
LEMMA SubmodIs ==
  ASSUME AppraisedInv, NEW n \in DOMAIN Submods
  PROVE  \E i \in DOMAIN appraised : appraised[i].name = n
                                     /\ Submods[n] = appraised[i].appraisal
<1>1. PICK S : S = {i \in DOMAIN appraised : appraised[i].name = n}
  OBVIOUS
<1>2. Len(appraised) \in Nat /\ DOMAIN appraised = 1 .. Len(appraised)
  BY Places DEF AppraisedInv
<1>3. S # {} /\ S \subseteq 1 .. Len(appraised)
  BY <1>1, <1>2 DEF Submods
<1>4. \E x \in S : \A y \in S : y <= x
  BY <1>2, <1>3, LastPlace
<1>5. PICK i : i = CHOOSE k \in DOMAIN appraised :
                     /\ appraised[k].name = n
                     /\ \A j \in DOMAIN appraised :
                           appraised[j].name = n => j <= k
  OBVIOUS
<1>6. \E x \in DOMAIN appraised :
         /\ appraised[x].name = n
         /\ \A j \in DOMAIN appraised : appraised[j].name = n => j <= x
  BY <1>1, <1>4
<1>7. i \in DOMAIN appraised /\ appraised[i].name = n
  BY <1>5, <1>6
<1>8. Submods[n] = appraised[i].appraisal
  BY <1>5 DEF Submods
<1> QED BY <1>7, <1>8

\* A key that a submod shows is the key of the KBS request.
LEMMA SubmodKeyIs ==
  ASSUME ClaimsInv, AppraisedInv, IsKbs, NEW n, SubmodKey(Submods, n) # None
  PROVE  SubmodKey(Submods, n) = request.key /\ SignedKey
<1>1. PICK data : data = Submods[n].evidence.runtime_data_claims
  OBVIOUS
<1>2. n \in DOMAIN Submods /\ data # None /\ SubmodKey(Submods, n) = data.key
  BY <1>1 DEF SubmodKey
<1>3. PICK i \in DOMAIN appraised : Submods[n] = appraised[i].appraisal
  BY <1>2, SubmodIs
<1>4. PICK c : c = claims[i]
  OBVIOUS
<1>5. AppraisedOf(appraised[i], i)
  BY DEF AppraisedInv
<1>6. Submods[n].evidence = transform_claims(c.claims, c.init_data_claims,
                                             c.runtime_data_claims, c.tee)
  BY <1>3, <1>4, <1>5 DEF AppraisedOf
<1>7. c.claims.report_data # None /\ data = c.runtime_data_claims
  BY <1>1, <1>2, <1>6 DEF transform_claims
<1>8. i \in DOMAIN claims
  <2>1. /\ Len(claims) \in Nat /\ DOMAIN claims = 1 .. Len(claims)
        /\ Len(appraised) \in Nat /\ DOMAIN appraised = 1 .. Len(appraised)
    BY Places DEF ClaimsInv, AppraisedInv
  <2> QED BY <2>1 DEF AppraisedInv
<1>9. ClaimInv(c)
  BY <1>4, <1>8 DEF ClaimsInv
<1> QED BY <1>2, <1>7, <1>9 DEF ClaimInv

\* The token is signed, or cannot be.
LEMMA SignIndInv == ASSUME IndInv, Sign PROVE IndInv'
<1>1. /\ pc = "sign" /\ Len(appraised) = Len(claims) /\ token = NoToken
      /\ request \in Requests /\ request.entry \in Entries \ {"kbs_ita"}
      /\ message = NoMessage
  BY DEF Sign, IndInv, PhaseInv
<1>2. CASE End("failed")
  BY <1>1, <1>2, EndIndInv
<1>3. CASE ~End("failed")
  <2>1. /\ token' = [submods |-> Submods,
                     keys |-> [EAR |-> SubmodKey(Submods, <<"cpu", 0>>),
                               CPU1 |-> SubmodKey(Submods, <<"cpu", 1>>)]]
        /\ pc' = IF IsKbs THEN "deliver" ELSE "done"
        /\ UNCHANGED <<request, todo, claims, appraised, slots, azure, message>>
    BY <1>3 DEF Sign
  <2>2. /\ Ear' /\ "keys" \in DOMAIN token' /\ "slots" \notin DOMAIN token'
        /\ token'.submods = Submods
    BY <2>1 DEF Ear
  <2>3. /\ IsKbs' <=> IsKbs
        /\ PrimaryDone' <=> PrimaryDone
        /\ SignedKey' <=> SignedKey
    BY <2>1, SameRequest
  <2>4. PhaseInv'
    <3>1. CASE IsKbs
      BY <1>1, <2>1, <2>2, <2>3, <3>1 DEF PhaseInv, Pcs
    <3>2. CASE ~IsKbs
      <4>1. request.entry \in {"rest", "grpc"}
        BY <1>1, <3>2 DEF IsKbs, KbsEntries, Entries
      <4> QED BY <1>1, <2>1, <2>2, <3>2, <4>1 DEF PhaseInv, Pcs
    <3> QED BY <3>1, <3>2
  <2>5. TodoInv' /\ ClaimsInv'
    BY <2>1, SameRequest DEF IndInv, TodoInv, ClaimsInv
  <2>6. AppraisedInv' /\ SlotsInv' /\ Submods' = Submods
    BY <2>1, SameAppraised, SameSlots DEF IndInv
  <2>7. TokenInv'
    <3>1. ASSUME IsKbs, NEW p \in DOMAIN token'.keys, token'.keys[p] # None
          PROVE  token'.keys[p] = request.key /\ SignedKey
      <4>1. \/ token'.keys[p] = SubmodKey(Submods, <<"cpu", 0>>)
            \/ token'.keys[p] = SubmodKey(Submods, <<"cpu", 1>>)
        BY <2>1
      <4> QED BY <3>1, <4>1, SubmodKeyIs DEF IndInv
    <3> QED BY <1>1, <2>1, <2>2, <2>3, <2>6, <3>1 DEF TokenInv
  <2>8. PrimaryInv'
    BY <1>1, <2>1, <2>3 DEF IndInv, PrimaryInv
  <2>9. CollectInv' /\ KeyAttested' /\ ItaSeesAll'
    BY <2>1, <2>2, <2>3 DEF CollectInv, KeyAttested, ItaSeesAll
  <2> QED BY <2>4, <2>5, <2>6, <2>7, <2>8, <2>9 DEF IndInv
<1> QED BY <1>2, <1>3

\* A TEE that has a slot has one of the slots there are.
LEMMA SlotOf ==
  ASSUME NEW t, ItaSlot(t) # None
  PROVE  ItaSlot(t) \in ItaSlots
BY DEF ItaSlot, ItaSlots

\* If no two pieces are of a kind, none can take the slot of another.
LEMMA OneSlotEach ==
  ASSUME DifferentKinds, NEW q \in AskedPieces, NEW r \in AskedPieces,
         ItaSlot(q.tee) = ItaSlot(r.tee), ItaSlot(q.tee) # None
  PROVE  q = r
<1>1. ItaKind(q.tee) = ItaKind(r.tee)
  BY DEF ItaSlot, ItaKind
<1>2. PrimaryPiece.tee = request.tee
  BY DEF PrimaryPiece, Piece
<1>3. \A t : AdditionalPiece(request, t).tee = t
  BY DEF AdditionalPiece, Piece
<1> QED BY <1>1, <1>2, <1>3 DEF DifferentKinds, AskedPieces

\* An entry is made of the parts that do not change.
LEMMA SameEntry ==
  ASSUME NEW p, NEW q, SamePiece(p, q)
  PROVE  /\ ItaEntry(p) = ItaEntry(q) /\ (ItaDrops(p) <=> ItaDrops(q))
         /\ p.tee = q.tee /\ p.evidence = q.evidence
BY DEF SamePiece, ItaEntry, ItaDrops

\* A piece is put into its slot.
LEMMA ItaCollectIndInv == ASSUME IndInv, ItaCollect PROVE IndInv'
<1>1. /\ pc = "collect" /\ todo # <<>> /\ appraised = <<>> /\ token = NoToken
      /\ request \in Requests /\ request.entry = "kbs_ita"
      /\ message = NoMessage /\ IsKbs
  BY DEF ItaCollect, IndInv, PhaseInv, IsKbs, KbsEntries
<1>2. CASE End("failed")
  BY <1>1, <1>2, EndIndInv
<1>3. CASE ~End("failed")
  <2>1. PICK p : p = Head(todo)
    OBVIOUS
  <2>2. PICK slot : slot = ItaSlot(p.tee)
    OBVIOUS
  <2>3. slot # None /\ p.evidence # Bad
    BY <1>3, <2>1, <2>2 DEF ItaCollect, ItaRefuses
  <2>4. /\ slots' = IF ItaDrops(p) THEN slots ELSE Filled(slots, slot, ItaEntry(p))
        /\ todo' = Tail(todo)
        /\ UNCHANGED <<request, pc, claims, appraised, token, message>>
    BY <1>3, <2>1, <2>2 DEF ItaCollect
  <2>5. /\ IsSeq(Tail(todo)) /\ Len(Tail(todo)) = Len(todo) - 1
        /\ \A i \in 1 .. (Len(todo) - 1) : Tail(todo)[i] = todo[i + 1]
        /\ p = todo[1] /\ 1 \in DOMAIN todo /\ Len(todo) \in Nat \ {0}
    BY <1>1, <2>1, Shorter DEF IndInv, TodoInv
  <2>6. DOMAIN Tail(todo) = 1 .. (Len(todo) - 1) /\ DOMAIN todo = 1 .. Len(todo)
    BY <2>5, Places DEF IndInv, TodoInv
  <2>7. PICK r \in AskedPieces : SamePiece(p, r)
    BY <1>1, <2>5 DEF IndInv, TodoInv, PieceInv
  <2>8. /\ ItaEntry(p) = ItaEntry(r) /\ (ItaDrops(p) <=> ItaDrops(r))
        /\ p.tee = r.tee /\ p.evidence = r.evidence
    BY <2>7, SameEntry
  <2>9. PhaseInv'
    BY <1>1, <2>4 DEF IndInv, PhaseInv
  <2>10. TodoInv'
    <3>1. ASSUME NEW i \in DOMAIN Tail(todo) PROVE PieceInv(Tail(todo)[i])
      <4>1. i + 1 \in DOMAIN todo /\ Tail(todo)[i] = todo[i + 1]
        BY <2>5, <2>6
      <4> QED BY <4>1 DEF IndInv, TodoInv
    <3>2. \A i \in DOMAIN todo' : PieceInv(todo'[i])
      BY <2>4, <3>1
    <3>3. \A x : PieceInv(x)' <=> PieceInv(x)
      BY <2>4, SameRequest
    <3> QED BY <2>4, <2>5, <3>2, <3>3 DEF TodoInv
  <2>11. ClaimsInv'
    BY <2>4, SameRequest DEF IndInv, ClaimsInv
  <2>12. AppraisedInv' /\ TokenInv' /\ ItaSeesAll'
    BY <2>4, SameAppraised, SameToken, SameSeen DEF IndInv
  <2>13. PrimaryInv' /\ KeyAttested'
    <3>1. ~Ear'
      BY <1>1, <2>4, NoTokenYet DEF Ear
    <3> QED BY <1>1, <2>4, <3>1 DEF PrimaryInv, KeyAttested
  <2>14. SlotsInv'
    <3>1. CASE ItaDrops(p)
      BY <2>4, <3>1, SameSlots DEF IndInv
    <3>2. CASE ~ItaDrops(p)
      <4>1. /\ DOMAIN slots' = DOMAIN slots \cup {slot}
            /\ \A s \in DOMAIN slots' :
                  slots'[s] = IF s = slot THEN ItaEntry(p) ELSE slots[s]
        BY <2>4, <3>2 DEF Filled
      <4>2. slot \in ItaSlots /\ slot = ItaSlot(r.tee)
        BY <2>2, <2>3, <2>8, SlotOf
      <4>3. AskedPieces' = AskedPieces
        BY <2>4, SameRequest
      <4>4. ASSUME NEW s \in DOMAIN slots'
            PROVE  \E q \in AskedPieces :
                     /\ slots'[s] = ItaEntry(q) /\ s = ItaSlot(q.tee)
                     /\ s \in ItaSlots /\ q.evidence # Bad /\ ~ItaDrops(q)
        <5>1. CASE s = slot
          BY <2>3, <2>8, <3>2, <4>1, <4>2, <5>1
        <5>2. CASE s # slot
          BY <4>1, <5>2 DEF IndInv, SlotsInv
        <5> QED BY <5>1, <5>2
      <4> QED BY <4>3, <4>4 DEF SlotsInv
    <3> QED BY <3>1, <3>2
  <2>15. CollectInv'
    <3>1. AskedPieces' = AskedPieces /\ (DifferentKinds' <=> DifferentKinds)
      BY <2>4, SameRequest
    <3>2. ASSUME NEW q \in AskedPieces, ~ItaDrops(q), DifferentKinds,
                 \/ q = r
                 \/ ItaSlot(q.tee) \in DOMAIN slots
                    /\ slots[ItaSlot(q.tee)] = ItaEntry(q)
          PROVE  /\ ItaSlot(q.tee) \in DOMAIN slots'
                 /\ slots'[ItaSlot(q.tee)] = ItaEntry(q)
      <4>1. CASE ItaDrops(p)
        <5>1. q # r
          BY <2>8, <3>2, <4>1
        <5> QED BY <2>4, <3>2, <4>1, <5>1
      <4>2. CASE ~ItaDrops(p)
        <5>1. /\ DOMAIN slots' = DOMAIN slots \cup {slot}
              /\ \A s \in DOMAIN slots' :
                    slots'[s] = IF s = slot THEN ItaEntry(p) ELSE slots[s]
          BY <2>4, <4>2 DEF Filled
        <5>2. ItaSlot(q.tee) = slot => q = r
          BY <2>2, <2>3, <2>8, <3>2, OneSlotEach
        <5>3. q = r => ItaSlot(q.tee) = slot
          BY <2>2, <2>8
        <5> QED BY <2>8, <3>2, <5>1, <5>2, <5>3
      <4> QED BY <4>1, <4>2
    <3>3. ASSUME NEW q \in AskedPieces, Collected(q) PROVE Collected(q)'
      BY <3>1, <3>2, <3>3 DEF Collected
    <3>4. ASSUME NEW q \in AskedPieces, SamePiece(p, q) PROVE Collected(q)'
      <4>1. /\ q.evidence # Bad /\ q.tee = p.tee /\ ItaEntry(q) = ItaEntry(p)
            /\ ItaDrops(p) <=> ItaDrops(q)
        BY <2>3, <3>4, SameEntry
      <4>2. DifferentKinds => q = r
        BY <2>2, <2>3, <2>8, <4>1, OneSlotEach
      <4> QED BY <3>1, <3>2, <4>1, <4>2 DEF Collected
    <3>5. ASSUME NEW q \in AskedPieces
          PROVE  (\E i \in DOMAIN todo' : SamePiece(todo'[i], q)) \/ Collected(q)'
      <4>1. CASE Collected(q)
        BY <3>3, <4>1
      <4>2. CASE \E i \in DOMAIN todo : SamePiece(todo[i], q)
        <5>1. PICK i \in DOMAIN todo : SamePiece(todo[i], q)
          BY <4>2
        <5>2. CASE i = 1
          BY <2>5, <3>4, <5>1, <5>2
        <5>3. CASE i # 1
          <6>1. i - 1 \in DOMAIN Tail(todo) /\ (i - 1) + 1 = i
            BY <2>5, <2>6, <5>3
          <6>2. Tail(todo)[i - 1] = todo[i]
            BY <2>5, <2>6, <6>1
          <6> QED BY <2>4, <5>1, <6>1, <6>2
        <5> QED BY <5>2, <5>3
      <4> QED BY <1>1, <4>1, <4>2 DEF IndInv, CollectInv
    <3> QED BY <3>1, <3>5 DEF CollectInv
  <2> QED BY <2>9, <2>10, <2>11, <2>12, <2>13, <2>14, <2>15 DEF IndInv
<1> QED BY <1>2, <1>3

\* The device of an entry that Intel Trust Authority found genuine.
LEMMA GenuineEntry ==
  ASSUME IsKbs, NEW q \in AskedPieces, q.evidence # Bad, IsSeq(q.evidence),
         q.evidence # <<>>, ItaGenuine(ItaEntry(q))
  PROVE  Head(q.evidence) \in Signers /\ Head(q.evidence).tee = q.tee
<1>1. Head(q.evidence) = q.evidence[1] /\ 1 \in DOMAIN q.evidence
  BY Shorter
<1>2. PICK entry : entry = ItaEntry(q)
  OBVIOUS
<1>3. entry.tee = q.tee /\ entry.evidence = q.evidence
  BY <1>2 DEF ItaEntry
<1>4. GivenData(entry) = q.runtime.data
  BY <1>2 DEF ItaEntry, GivenData
<1>5. PICK alg : /\ q.evidence[1].tee = q.tee /\ q.evidence[1].genuine
                 /\ q.evidence[1].report = Digest(alg, q.runtime.data)
  BY <1>1, <1>2, <1>3, <1>4 DEF ItaGenuine
<1>6. q.evidence[1] \in Signers
  BY <1>1, <1>5, AskedSigner
<1> QED BY <1>1, <1>5, <1>6

\* The KBS takes a token of Intel Trust Authority.
LEMMA ItaPostIndInv == ASSUME IndInv, ItaPost PROVE IndInv'
<1>1. /\ pc = "collect" /\ todo = <<>> /\ appraised = <<>> /\ token = NoToken
      /\ request \in Requests /\ request.entry = "kbs_ita"
      /\ message = NoMessage /\ IsKbs /\ request.additional # Bad
  BY DEF ItaPost, IndInv, PhaseInv, IsKbs, KbsEntries
<1>2. CASE End("failed")
  BY <1>1, <1>2, EndIndInv
<1>3. CASE ~End("failed")
  <2>1. PICK must_match, tdx, vtpm :
          /\ token' = [slots |-> slots, must_match |-> must_match,
                       keys |-> [ITA |-> tdx, ITA_VTPM |-> vtpm]]
          /\ tdx = IF "tdx" \notin DOMAIN slots THEN None
                   ELSE IF slots["tdx"].tee = "tdx"
                   THEN GivenData(slots["tdx"]).key ELSE None
          /\ vtpm = IF "tdx" \notin DOMAIN slots THEN None
                    ELSE IF slots["tdx"].tee = "az-tdx-vtpm"
                    THEN GivenData(slots["tdx"]).key ELSE None
    BY <1>3 DEF ItaPost
  <2>2. /\ ItaAccepts /\ pc' = "deliver"
        /\ UNCHANGED <<request, todo, claims, appraised, slots, azure, message>>
    BY <1>3 DEF ItaPost
  <2>3. "keys" \in DOMAIN token' /\ ~Ear' /\ DOMAIN token'.keys = {"ITA", "ITA_VTPM"}
    BY <2>1 DEF Ear
  <2>4. token'.keys["ITA"] = tdx /\ token'.keys["ITA_VTPM"] = vtpm
    BY <2>1
  <2>5. /\ IsKbs' <=> IsKbs
        /\ SignedKey' <=> SignedKey
        /\ Signers' = Signers
    BY <2>2, SameRequest
  <2>6. \A s \in DOMAIN slots : ItaGenuine(slots[s])
    BY <2>2 DEF ItaAccepts
  <2>7. PhaseInv'
    BY <1>1, <2>2, <2>3, <2>5 DEF PhaseInv, Pcs
  <2>8. TodoInv' /\ ClaimsInv'
    BY <2>2, SameRequest DEF IndInv, TodoInv, ClaimsInv
  <2>9. AppraisedInv' /\ SlotsInv'
    BY <2>2, SameAppraised, SameSlots DEF IndInv
  <2>10. ASSUME "tdx" \in DOMAIN slots, slots["tdx"].tee \in {"tdx", "az-tdx-vtpm"}
         PROVE  GivenData(slots["tdx"]).key = request.key /\ SignedKey
    <3>1. PICK q \in AskedPieces : slots["tdx"] = ItaEntry(q) /\ q.evidence # Bad
      BY <2>10 DEF IndInv, SlotsInv
    <3>2. q.tee \in {"tdx", "az-tdx-vtpm"}
      BY <2>10, <3>1 DEF ItaEntry
    <3>3. EvidenceShape(q.evidence) /\ Len(q.evidence) = 1
      BY <1>1, <3>1, <3>2, AskedEvidenceShape
    <3>4. IsSeq(q.evidence)
      BY <3>1, <3>3 DEF EvidenceShape
    <3>5. q.evidence # <<>>
      BY <3>3, <3>4, Places
    <3>6. Head(q.evidence) \in Signers /\ Head(q.evidence).tee = q.tee
      BY <1>1, <2>6, <2>10, <3>1, <3>4, <3>5, GenuineEntry
    <3>7. Class(q.tee) = "cpu"
      BY <3>2 DEF Class
    <3>8. GivenData(slots["tdx"]) = q.runtime.data
      BY <3>1 DEF ItaEntry, GivenData
    <3> QED BY <3>6, <3>7, <3>8, AskedRuntime DEF SignedKey
  <2>11. TokenInv'
    <3>1. ASSUME NEW p \in DOMAIN token'.keys, token'.keys[p] # None
          PROVE  token'.keys[p] = request.key /\ SignedKey
      BY <2>1, <2>3, <2>4, <2>10, <3>1
    <3> QED BY <2>2, <2>3, <2>5, <3>1 DEF TokenInv
  <2>12. PrimaryInv' /\ CollectInv' /\ KeyAttested'
    BY <2>2, <2>3 DEF PrimaryInv, CollectInv, KeyAttested
  <2>13. ItaSeesAll'
    <3>1. PICK evidence : evidence = {request.evidence} \cup
                                     {request.additional[t] : t \in More}
      OBVIOUS
    <3>2. ASSUME DifferentKinds, NEW e \in evidence, Len(e) = 1
          PROVE  Head(e) \in Signers
      <4>1. PICK q \in AskedPieces : q.evidence = e
        <5>1. PrimaryPiece.evidence = request.evidence
          BY DEF PrimaryPiece, Piece
        <5>2. \A t : AdditionalPiece(request, t).evidence = request.additional[t]
          BY DEF AdditionalPiece, Piece
        <5> QED BY <3>1, <5>1, <5>2 DEF AskedPieces
      <4>2. Collected(q)
        BY <1>1, NoElements DEF IndInv, CollectInv
      <4>3. e # <<>>
        BY <3>2, NoElements
      <4>4. /\ q.evidence # Bad /\ ItaSlot(q.tee) \in DOMAIN slots
            /\ slots[ItaSlot(q.tee)] = ItaEntry(q)
        BY <3>2, <4>1, <4>2, <4>3 DEF Collected, ItaDrops
      <4>5. IsSeq(q.evidence)
        BY <1>1, <4>4, AskedEvidenceShape DEF EvidenceShape
      <4> QED BY <1>1, <2>6, <4>1, <4>3, <4>4, <4>5, GenuineEntry
    <3>3. ItaSeesAll' <=>
            (request'.entry = "kbs_ita" /\ "slots" \in DOMAIN token' =>
                (DifferentKinds' /\ (\A e \in evidence : Len(e) = 1) =>
                    \A e \in evidence : Head(e) \in Signers'))
      BY <2>2, <3>1 DEF ItaSeesAll, DifferentKinds, ItaKind, More
    <3>4. DifferentKinds' <=> DifferentKinds
      BY <2>2, SameRequest
    <3> QED BY <2>5, <3>2, <3>3, <3>4
  <2> QED BY <2>7, <2>8, <2>9, <2>11, <2>12, <2>13 DEF IndInv
<1> QED BY <1>2, <1>3

\* The key that is found is at one of the places of the token.
LEMMA FoundKey ==
  ASSUME NEW tok, NEW key, key = extract_tee_public_key(ExtraPaths, tok),
         key # None
  PROVE  \E p \in DOMAIN tok.keys : key = tok.keys[p] /\ tok.keys[p] # None
<1>1. PICK paths : paths = ExtraPaths \o BuiltInPaths
  OBVIOUS
<1>2. IsSeq(paths)
  <2>1. BuiltInPaths \in Seq({"ITA", "ITA_VTPM", "COCO", "EAR", "VALUE"})
    BY DEF BuiltInPaths
  <2> QED BY <1>1, <2>1, EvaluationAssumption, SeqOver, Joined
<1>3. Len(paths) \in Nat /\ DOMAIN paths = 1 .. Len(paths)
  BY <1>2, Places
<1>4. PICK leading : leading = {i \in DOMAIN paths :
                                   /\ paths[i] \in DOMAIN tok.keys
                                   /\ tok.keys[paths[i]] # None}
  OBVIOUS
<1>5. leading # {} /\ key = tok.keys[paths[Min(leading)]]
  BY <1>1, <1>4 DEF extract_tee_public_key
<1>6. Min(leading) \in leading
  BY <1>3, <1>4, <1>5, FirstPlace
<1> QED BY <1>4, <1>5, <1>6

\* What is encrypted is encrypted to the key, by a header that fits it.
LEMMA SealedOpens ==
  ASSUME NEW key, NEW payload, NEW m, m = jwe(key, payload), m # None
  PROVE  m.to = key /\ Opens(key, m) /\ "to" \in DOMAIN m
<1>1. PICK alg, epk :
        /\ m = Sealed(key, alg, epk, payload) /\ alg = key.alg
        /\ key.kty = "EC" => epk = key.crv
  BY DEF jwe, rsa_1v15, rsa_oaep256, ecdh_es_a256kw_p256, ecdh_es_a256kw_p521
<1>2. m = [alg |-> alg, epk |-> epk, to |-> key, payload |-> payload]
  BY <1>1 DEF Sealed
<1> QED BY <1>1, <1>2 DEF Opens

\* A secret is released.
LEMMA DeliverIndInv == ASSUME IndInv, Deliver PROVE IndInv'
<1>1. /\ pc = "deliver" /\ IsKbs /\ "keys" \in DOMAIN token
      /\ request \in Requests
  BY DEF Deliver, IndInv, PhaseInv
<1>2. CASE End("failed")
  BY <1>1, <1>2, EndIndInv
<1>3. CASE ~End("failed")
  <2>1. PICK key : key = extract_tee_public_key(ExtraPaths, token)
    OBVIOUS
  <2>2. key # None
    BY <1>3, <2>1 DEF Deliver
  <2>3. PICK m : /\ m = jwe(key, request.secret) /\ m # None /\ message' = m
                 /\ pc' = "done"
                 /\ UNCHANGED <<request, todo, claims, appraised, slots, azure,
                                token>>
    BY <1>3, <2>1, <2>2 DEF Deliver
  <2>4. key = request.key /\ SignedKey
    <3>1. PICK p \in DOMAIN token.keys : key = token.keys[p] /\ token.keys[p] # None
      BY <2>1, <2>2, FoundKey
    <3> QED BY <1>1, <3>1 DEF IndInv, TokenInv
  <2>5. m.to = key /\ Opens(key, m) /\ "to" \in DOMAIN m
    BY <2>3, SealedOpens
  <2>6. message' # NoMessage
    <3>1. "to" \notin DOMAIN NoMessage
      BY DEF NoMessage
    <3> QED BY <2>3, <2>5, <3>1
  <2>7. /\ IsKbs' <=> IsKbs
        /\ PrimaryDone' <=> PrimaryDone
        /\ SignedKey' <=> SignedKey
        /\ Ear' <=> Ear
    BY <2>3, SameRequest DEF Ear
  <2>8. PhaseInv'
    <3>1. request.entry \notin {"rest", "grpc"}
      BY <1>1 DEF IsKbs, KbsEntries
    <3> QED BY <1>1, <2>3, <2>6, <3>1 DEF PhaseInv, Pcs
  <2>9. TodoInv' /\ ClaimsInv'
    BY <2>3, SameRequest DEF IndInv, TodoInv, ClaimsInv
  <2>10. AppraisedInv' /\ TokenInv' /\ ItaSeesAll' /\ SlotsInv'
    BY <2>3, SameAppraised, SameToken, SameSeen, SameSlots DEF IndInv
  <2>11. PrimaryInv'
    BY <1>1, <2>3, <2>7 DEF IndInv, PrimaryInv
  <2>12. CollectInv'
    BY <2>3 DEF CollectInv
  <2>13. KeyAttested'
    <3>1. message'.to = request'.key /\ Opens(request'.key, message')
      BY <2>3, <2>4, <2>5
    <3>2. AskedTees' = AskedTees /\ Signers' = Signers
      BY <2>3, SameRequest
    <3> QED BY <2>4, <3>1, <3>2 DEF KeyAttested, SignedKey
  <2> QED BY <2>8, <2>9, <2>10, <2>11, <2>12, <2>13 DEF IndInv
<1> QED BY <1>2, <1>3

\* Every step keeps the invariant.
LEMMA NextIndInv == ASSUME IndInv, [Next]_vars PROVE IndInv'
<1>1. CASE Next
  BY <1>1, ReceiveIndInv, ChallengeIndInv, VerifyIndInv, IssueIndInv, SignIndInv,
     ItaCollectIndInv, ItaPostIndInv, DeliverIndInv DEF Next
<1>2. CASE UNCHANGED vars
  <2>1. UNCHANGED <<request, pc, todo, claims, appraised, slots, azure, token,
                    message>>
    BY <1>2 DEF vars
  <2>2. PhaseInv'
    BY <2>1 DEF IndInv, PhaseInv, IsKbs, Ear
  <2>3. TodoInv' /\ ClaimsInv'
    BY <2>1, SameRequest DEF IndInv, TodoInv, ClaimsInv
  <2>4. AppraisedInv' /\ TokenInv' /\ ItaSeesAll' /\ SlotsInv'
    BY <2>1, SameAppraised, SameToken, SameSeen, SameSlots DEF IndInv
  <2>5. PrimaryInv'
    BY <2>1, SameRequest DEF IndInv, PrimaryInv, Ear
  <2>6. CollectInv'
    BY <2>1, SameRequest DEF IndInv, CollectInv, Collected
  <2>7. KeyAttested'
    BY <2>1, SameRequest DEF IndInv, KeyAttested
  <2> QED BY <2>2, <2>3, <2>4, <2>5, <2>6, <2>7 DEF IndInv
<1> QED BY <1>1, <1>2

-----------------------------------------------------------------------------
(* Numbers. *)

\* A later device of a class has a larger number.
LEMMA NumbersGrow ==
  ASSUME ClaimsInv, NEW i \in DOMAIN claims, NEW j \in DOMAIN claims, i < j,
         claims[i].tee_class = claims[j].tee_class
  PROVE  Number(i) \in Nat /\ Number(j) \in Nat /\ Number(i) < Number(j)
<1>1. PICK S, A, B : /\ S = OfClass(claims[i].tee_class)
                     /\ A = {k \in S : k < i} /\ B = {k \in S : k < j}
  OBVIOUS
<1>2. Number(i) = Cardinality(A) /\ Number(j) = Cardinality(B)
  BY <1>1 DEF Number
<1>3. Len(claims) \in Nat /\ DOMAIN claims = 1 .. Len(claims)
  BY Places DEF ClaimsInv
<1>4. IsFiniteSet(1 .. Len(claims))
  BY <1>3, FS_Interval
<1>5. B \in SUBSET (1 .. Len(claims)) /\ i \in B
  BY <1>1, <1>3 DEF OfClass
<1>6. IsFiniteSet(B)
  BY <1>4, <1>5, FS_Subset
<1>7. IsFiniteSet(B \ {i}) /\ Cardinality(B \ {i}) = Cardinality(B) - 1
  BY <1>5, <1>6, FS_RemoveElement
<1>8. A \in SUBSET (B \ {i})
  <2>1. \A k \in S : k \in Int
    BY <1>1, <1>3 DEF OfClass
  <2> QED BY <1>1, <1>3, <2>1
<1>9. IsFiniteSet(A) /\ Cardinality(A) <= Cardinality(B \ {i})
  BY <1>7, <1>8, FS_Subset
<1>10. Cardinality(A) \in Nat /\ Cardinality(B) \in Nat
  BY <1>6, <1>9, FS_CardinalityType
<1> QED BY <1>2, <1>7, <1>9, <1>10

\* The number of a device is less than the number of devices of its class.
LEMMA NumberFits ==
  ASSUME ClaimsInv, NEW i \in DOMAIN claims,
         Cardinality(OfClass(claims[i].tee_class)) <= IndexMod
  PROVE  Number(i) \in Nat /\ Number(i) % IndexMod = Number(i)
<1>1. PICK S, A : S = OfClass(claims[i].tee_class) /\ A = {k \in S : k < i}
  OBVIOUS
<1>2. Number(i) = Cardinality(A)
  BY <1>1 DEF Number
<1>3. Len(claims) \in Nat /\ DOMAIN claims = 1 .. Len(claims)
  BY Places DEF ClaimsInv
<1>4. IsFiniteSet(1 .. Len(claims))
  BY <1>3, FS_Interval
<1>5. S \in SUBSET (1 .. Len(claims)) /\ i \in S
  BY <1>1, <1>3 DEF OfClass
<1>6. IsFiniteSet(S)
  BY <1>4, <1>5, FS_Subset
<1>7. IsFiniteSet(S \ {i}) /\ Cardinality(S \ {i}) = Cardinality(S) - 1
  BY <1>5, <1>6, FS_RemoveElement
<1>8. A \in SUBSET (S \ {i})
  BY <1>1, <1>3
<1>9. IsFiniteSet(A) /\ Cardinality(A) <= Cardinality(S \ {i})
  BY <1>7, <1>8, FS_Subset
<1>10. Cardinality(A) \in Nat /\ Cardinality(S) \in Nat
  BY <1>6, <1>9, FS_CardinalityType
<1>11. IndexMod \in Nat \ {0} /\ Number(i) < IndexMod /\ Number(i) \in Nat
  BY <1>1, <1>2, <1>7, <1>9, <1>10, EvaluationAssumption
<1> QED BY <1>11

\* One submod for each device.
LEMMA AllAndEach == ASSUME IndInv PROVE OneSubmodPerDevice
<1>1. SUFFICES ASSUME Ear,
                      \A i \in DOMAIN claims :
                          Cardinality(OfClass(claims[i].tee_class)) <= IndexMod
               PROVE  /\ Cardinality(DOMAIN token.submods) = Len(claims)
                      /\ \A i \in DOMAIN claims :
                            LET name == <<claims[i].tee_class, Number(i)>>
                                evidence == token.submods[name].evidence
                            IN  /\ name \in DOMAIN token.submods
                                /\ evidence.tee = claims[i].tee
                                /\ evidence.report_data = claims[i].claims.report_data
                                /\ evidence.init_data = claims[i].claims.init_data
  BY DEF OneSubmodPerDevice
<1>2. token.submods = Submods /\ Len(appraised) = Len(claims)
  BY <1>1 DEF IndInv, TokenInv
<1>3. /\ Len(claims) \in Nat /\ DOMAIN claims = 1 .. Len(claims)
      /\ DOMAIN appraised = DOMAIN claims
  BY <1>2, Places DEF IndInv, ClaimsInv, AppraisedInv
<1>4. PICK name : name = [i \in DOMAIN claims |-> <<claims[i].tee_class, Number(i)>>]
  OBVIOUS
<1>5. ASSUME NEW i \in DOMAIN claims
      PROVE  Number(i) \in Nat /\ Number(i) % IndexMod = Number(i)
  BY <1>1, NumberFits DEF IndInv
<1>6. ASSUME NEW i \in DOMAIN claims
      PROVE  /\ appraised[i].name = name[i]
             /\ appraised[i].appraisal.evidence =
                  transform_claims(claims[i].claims, claims[i].init_data_claims,
                                   claims[i].runtime_data_claims, claims[i].tee)
  <2>1. AppraisedOf(appraised[i], i)
    BY <1>3 DEF IndInv, AppraisedInv
  <2> QED BY <1>4, <1>5, <2>1 DEF AppraisedOf
<1>7. ASSUME NEW i \in DOMAIN claims, NEW j \in DOMAIN claims, name[i] = name[j]
      PROVE  i = j
  <2>1. claims[i].tee_class = claims[j].tee_class /\ Number(i) = Number(j)
    BY <1>4, <1>7
  <2>2. ~(i < j) /\ ~(j < i)
    BY <1>5, <2>1, NumbersGrow DEF IndInv
  <2> QED BY <1>3, <2>2
<1>8. DOMAIN Submods = {appraised[i].name : i \in DOMAIN appraised}
  BY DEF Submods
<1>9. ASSUME NEW i \in DOMAIN claims
      PROVE  name[i] \in DOMAIN Submods /\ Submods[name[i]] = appraised[i].appraisal
  <2>1. name[i] \in DOMAIN Submods
    BY <1>3, <1>6, <1>8
  <2>2. PICK k \in DOMAIN appraised : appraised[k].name = name[i]
                                      /\ Submods[name[i]] = appraised[k].appraisal
    BY <2>1, SubmodIs DEF IndInv
  <2>3. k = i
    BY <1>3, <1>6, <1>7, <2>2
  <2> QED BY <2>1, <2>2, <2>3
<1>10. Cardinality(DOMAIN Submods) = Len(claims)
  <2>1. name \in Bijection(1 .. Len(claims), DOMAIN Submods)
    <3>1. name \in [1 .. Len(claims) -> DOMAIN Submods]
      BY <1>3, <1>4, <1>9
    <3>2. name \in Injection(1 .. Len(claims), DOMAIN Submods)
      BY <1>3, <1>7, <3>1 DEF Injection, IsInjective
    <3>3. name \in Surjection(1 .. Len(claims), DOMAIN Submods)
      BY <1>3, <1>6, <1>8, <3>1 DEF Surjection
    <3> QED BY <3>2, <3>3 DEF Bijection
  <2>2. ExistsBijection(1 .. Len(claims), DOMAIN Submods)
    BY <2>1 DEF ExistsBijection
  <2>3. IsFiniteSet(1 .. Len(claims)) /\ Cardinality(1 .. Len(claims)) = Len(claims)
    <3>1. /\ IsFiniteSet(1 .. Len(claims))
          /\ Cardinality(1 .. Len(claims)) =
                IF 1 > Len(claims) THEN 0 ELSE Len(claims) - 1 + 1
      BY <1>3, FS_Interval
    <3> QED BY <1>3, <3>1
  <2> QED BY <2>2, <2>3, FS_Bijection
<1>11. ASSUME NEW i \in DOMAIN claims
       PROVE  /\ name[i] \in DOMAIN token.submods
              /\ token.submods[name[i]].evidence.tee = claims[i].tee
              /\ token.submods[name[i]].evidence.report_data = claims[i].claims.report_data
              /\ token.submods[name[i]].evidence.init_data = claims[i].claims.init_data
  <2>1. PICK evidence : evidence = appraised[i].appraisal.evidence
    OBVIOUS
  <2>2. evidence = transform_claims(claims[i].claims, claims[i].init_data_claims,
                                    claims[i].runtime_data_claims, claims[i].tee)
    BY <1>6, <2>1
  <2>3. /\ evidence.tee = claims[i].tee
        /\ evidence.report_data = claims[i].claims.report_data
        /\ evidence.init_data = claims[i].claims.init_data
    BY <2>2 DEF transform_claims
  <2> QED BY <1>2, <1>9, <2>1, <2>3
<1> QED BY <1>2, <1>4, <1>10, <1>11

-----------------------------------------------------------------------------
(* The theorems. *)

\* The inductive invariant holds of every attestation.
THEOREM Invariance == Spec => []IndInv
<1>1. Init => IndInv
  BY InitIndInv
<1>2. IndInv /\ [Next]_vars => IndInv'
  BY NextIndInv
<1> QED BY <1>1, <1>2, PTL DEF Spec

\* A request that is done has its answer, there is none after an error, and a
\* token is about every device: none is left out or merged, and the k-th of a
\* class is number k - 1 (AttestationService::evaluate, issue).
THEOREM TokensAreComplete == Spec => []TokenComplete
<1>1. IndInv => TypeOK
  <2>1. SlotsInv => DOMAIN slots \subseteq ItaSlots
    BY DEF SlotsInv
  <2> QED BY <2>1 DEF IndInv, PhaseInv, AppraisedInv, TokenInv, TypeOK
<1>2. IndInv => OneSubmodPerDevice
  BY AllAndEach
<1>3. IndInv => TokenComplete
  BY <1>1, <1>2 DEF TokenComplete
<1> QED BY <1>3, Invariance, PTL

\* Claims of the caller that a token shows next to the claims of a device are
\* what a device of the request signed, but for the report data of IBM SE and
\* the init data of the sample (parse_runtime_data, parse_init_data, the
\* verifiers, transform_claims).
THEOREM CallersClaimsAreBound == Spec => []ClaimsAreBound
<1>1. ASSUME IndInv, Ear, NEW n \in DOMAIN token.submods, NEW evidence,
             evidence = token.submods[n].evidence
      PROVE  /\ evidence.runtime_data_claims # None
                    /\ evidence.tee \notin IgnoresReport =>
                   ReportBound(evidence.report_data, evidence.runtime_data_claims)
             /\ evidence.init_data_claims # None /\ evidence.tee # "sample" =>
                   InitBound(evidence.init_data, evidence.init_data_claims)
  <2>1. token.submods = Submods /\ Len(appraised) = Len(claims)
    BY <1>1 DEF IndInv, TokenInv
  <2>2. PICK i \in DOMAIN appraised : Submods[n] = appraised[i].appraisal
    BY <1>1, <2>1, SubmodIs DEF IndInv
  <2>3. i \in DOMAIN claims
    BY <1>1, <2>1, Places DEF IndInv, ClaimsInv, AppraisedInv
  <2>4. PICK c : c = claims[i]
    OBVIOUS
  <2>5. ClaimInv(c)
    BY <1>1, <2>3, <2>4 DEF IndInv, ClaimsInv
  <2>6. AppraisedOf(appraised[i], i)
    BY <1>1 DEF IndInv, AppraisedInv
  <2>7. evidence = transform_claims(c.claims, c.init_data_claims,
                                    c.runtime_data_claims, c.tee)
    BY <1>1, <2>1, <2>2, <2>4, <2>6 DEF AppraisedOf
  <2>8. /\ evidence.report_data = c.claims.report_data
        /\ evidence.init_data = c.claims.init_data /\ evidence.tee = c.tee
        /\ evidence.runtime_data_claims # None =>
              /\ c.claims.report_data # None
              /\ evidence.runtime_data_claims = c.runtime_data_claims
        /\ evidence.init_data_claims # None =>
              /\ c.claims.init_data # None
              /\ evidence.init_data_claims = c.init_data_claims
    BY <2>7 DEF transform_claims
  <2> QED BY <2>5, <2>8 DEF ClaimInv
<1>2. IndInv => ClaimsAreBound
  BY <1>1 DEF ClaimsAreBound, ReportBound, InitBound
<1> QED BY <1>2, Invariance, PTL

\* A secret is encrypted to the key of the request, in a way its owner can
\* open, and a CPU signed the key with the nonce of the session unless there
\* is evidence of IBM SE (extract_tee_public_key, jwe).
THEOREM KeysAreAttested == Spec => []KeyAttested
<1>1. IndInv => KeyAttested
  BY DEF IndInv
<1> QED BY <1>1, Invariance, PTL

\* Pieces of evidence of different machines do not add up to a token, unless
\* the primary one is of IBM SE (AttestationService::attest of the KBS).
THEOREM NothingIsMixedAndMatched == Spec => []NoMixAndMatch
<1>1. ASSUME IndInv, IsKbs, Ear, request.tee \notin IgnoresReport
      PROVE  PrimaryDone
  BY <1>1, NoTokenYet DEF IndInv, PrimaryInv, PhaseInv
<1>2. IndInv => NoMixAndMatch
  BY <1>1 DEF NoMixAndMatch, PrimaryDone, Digest
<1> QED BY <1>2, Invariance, PTL

\* Intel Trust Authority has seen every piece of evidence that has a slot of
\* its own (IntelTrustAuthority::verify).
THEOREM ItaHasSeenAll == Spec => []ItaSeesAll
<1>1. IndInv => ItaSeesAll
  BY DEF IndInv
<1> QED BY <1>1, Invariance, PTL

=============================================================================
