-------------------------- MODULE KbsPluginsProofs --------------------------
(***************************************************************************)
(* Proofs about KbsPlugins for any requests, queries and deployments, and  *)
(* any number of starts and changes by the operator.                       *)
(***************************************************************************)
EXTENDS KbsPlugins, FiniteSetTheorems, TLAPS

-----------------------------------------------------------------------------
(* The inductive invariant: one request *)

\* The fields of a request, whatever they hold.
Fields(a) ==
    a = [pc |-> a.pc, q |-> a.q, body |-> a.body, ok |-> a.ok, got |-> a.got,
         key |-> a.key, want |-> a.want]

\* Where a request is fits what it asks, its child and the broker.
Turn(r) ==
    LET a == req[r] IN
    /\ Fields(a) /\ a.pc \in Pc /\ a.ok \in BOOLEAN
    /\ a.ok => a.pc = "done"
    /\ a.pc = "signing" => child[r].run
    /\ a.pc \in {"verify", "read"} => ~child[r].run
    /\ a.pc \in {"handle", "vault", "found", "signing", "verify", "read"} => boot = Up
    /\ a.pc # "idle" => a.q \in Queries /\ Named(a.q.plugin) # {}
    /\ a.pc = "vault" => Resource(a.q) /\ a.q.method = "POST"
    /\ a.pc = "found" => WrapKey(a.q) /\ a.q.method \in {"GET", "POST"}
    /\ a.pc \in {"signing", "verify", "read"} => Credential(a.q)
    /\ a.pc # "idle" /\ ~(WrapKey(a.q) /\ a.q.method = "GET") => a.body = r

\* The `nebula-cert ca' of the start under way is running.
Making == starts \in Ca \ late /\ making[starts] # {}

\* Its key was there, and is, unless it was removed or lost to a late write;
\* while a request counts on it, only a late write may take its place.
Signer(n, live) ==
    /\ ca["key"] = n \/ <<"key", n>> \in gone
    /\ live => ca["key"] \in {None, n} \cup late

\* Both files of a CA were there; they are gone both, or no start replaces one.
Whole(n) ==
    /\ \A f \in Files : ca[f] = n \/ <<f, n>> \in gone
    /\ \/ \A f \in Files : <<f, n>> \in gone
       \/ ~Making /\ \A f \in Files : ca[f] \in {None, n} \cup late

\* The directory of a request is its own, holds its own key and certificate,
\* and whoever signs or has signed belongs to a CA that had a key, and to one
\* that was complete once its certificate was verified.
Credentials(r) ==
    LET a == req[r] IN
    /\ dir[r].state # "none" =>
          IF dir[r].state = "open" THEN a.pc \in {"signing", "verify", "read", "lost"}
                                   ELSE a.pc = "dropped"
    /\ dir[r].key \in {None, r}
    /\ dir[r].crt # None => /\ dir[r].crt.name = r
                            /\ Signer(dir[r].crt.ca, a.pc \in {"signing", "verify"})
    /\ child[r].ca # None => Signer(child[r].ca, a.pc = "signing")
    /\ a.pc = "read" =>
          /\ dir[r].crt # None /\ Whole(dir[r].crt.ca)
          /\ ca["crt"] \in {None, dir[r].crt.ca} \cup late
    /\ a.ok /\ Credential(a.q) =>
          /\ a.got.key = r /\ a.got.crt.name = r
          /\ a.got.crt.ca = a.got.ca \/ a.got.ca \in late
          /\ a.got.crt.ca \in Ca /\ Whole(a.got.crt.ca)

\* What a read has to find is what is kept until it is answered.
Reads(r) ==
    LET a == req[r] IN
    a.want # None =>
       /\ a.pc # "idle" /\ Resource(a.q) /\ a.q.method = "GET"
       /\ a.pc = "handle" => a.want = kept[a.q.path]
       /\ a.pc = "done" => a.got \in {a.want, BackendError}

\* A secret came with the token, or with a request that is known.
Sent(value, label) ==
    \/ value \in Imported(label)
    \/ /\ value \in Reqs /\ req[value].pc # "idle"
       /\ Pkcs11Resource(req[value].q) /\ req[value].q.method = "POST"
       /\ Label(Desc(req[value].q)) = label

Secrets(r) ==
    LET a == req[r] IN
    a.ok /\ Pkcs11Resource(a.q) /\ a.q.method = "GET" => Sent(a.got, Label(Desc(a.q)))

\* What is to be unwrapped was wrapped, or is nothing.
Wraps(r) ==
    LET a == req[r] IN
    /\ a.pc \in {"handle", "found"} /\ WrapKey(a.q) /\ a.q.method = "GET" =>
          a.body \in wrapped \cup {None}
    /\ a.pc \in {"done", "panic"} /\ WrapKey(a.q) /\ ~Refused(a.q) =>
          /\ stable /\ (a.q.method = "POST" \/ a.body # None) =>
                a.pc = "done" /\ (a.ok \/ a.got = BackendError)
          /\ a.ok /\ a.q.method = "GET" => a.got = a.body.plain

ReqInv(r) == Turn(r) /\ Credentials(r) /\ Reads(r) /\ Secrets(r) /\ Wraps(r)

-----------------------------------------------------------------------------
(* The inductive invariant: the rest *)

Types ==
    /\ config \in {d.config : d \in Deployments} /\ boot \in Down .. Up
    /\ starts \in 0 .. MaxStarts /\ making \in [Ca -> SUBSET Files]
    /\ \A o \in token : ObjectShape(o)
    /\ vault \in [VaultPaths -> Record] /\ kept \in [Descs -> Reqs \cup {None}]
    /\ \A w \in sent : w.desc \in Descs /\ w.data \in Reqs
    /\ ca \in [Files -> Ca \cup {None}]
    /\ dir \in [Reqs -> Dir] /\ child \in [Reqs -> Child]
    /\ ops \in 0 .. MaxOps
    /\ req = [r \in Reqs |-> req[r]]

\* `nebula-cert ca' runs for the start under way or has outlived its own; what
\* a start replaces, if anything, was written late.
CaInv ==
    /\ boot # Down => starts # 0
    /\ late \subseteq 1 .. starts
    /\ \A n \in Ca : making[n] # {} =>
          n \in late \/ (n = starts /\ Initialising("nebula-ca"))
    /\ Making => \A f \in making[starts] : ca[f] \in {None} \cup late

\* What is kept is in the vault, and no write of it is under way.
VaultInv ==
    /\ \A d \in Descs : kept[d] # None =>
          vault[VaultPath(d)] = Data(kept[d]) /\ \A w \in sent : w.desc # d
    /\ (sent # {} \/ \E d \in Descs : kept[d] # None) =>
          Plugin("resource").backend = "vault"

\* The secrets in the token.
TokenInv == \A o \in token : o.class = "secret" => Sent(o.value, o.label)

\* The pair that wraps and unwraps, while nobody changes it.
ThePair(public, private) ==
    LET l == Plugin("pkcs11").label IN
    /\ WrapKeys(token, l, "public") = {public}
    /\ WrapKeys(token, l, "private") = {private}
    /\ public.value = private.value
    /\ ~public.session /\ ~private.session /\ None \notin {public, private}
    /\ \A t \in wrapped : t.pair = public.value
    /\ \A r \in Reqs : req[r].pc = "found" =>
          req[r].key = IF req[r].q.method = "POST" THEN public ELSE private

PairInv ==
    stable /\ Named("pkcs11") # {} => \E public, private \in token : ThePair(public, private)

\* A request is counted once at most.
Past == {r \in Reqs : req[r].pc \notin {"idle", "handle"}}

CountInv ==
    /\ metric = [reads |-> metric.reads, writes |-> metric.writes]
    /\ metric.reads \in 0 .. Cardinality(Past) /\ metric.writes \in 0 .. Cardinality(Past)

IndInv ==
    /\ Types /\ (\A r \in Reqs : ReqInv(r))
    /\ CaInv /\ VaultInv /\ TokenInv /\ PairInv /\ CountInv

-----------------------------------------------------------------------------
(* Queries, plugins and records *)

\* A query asks one thing.
LEMMA KindsDiffer ==
  ASSUME NEW q
  PROVE  /\ Resource(q) => ~Pkcs11Resource(q) /\ ~WrapKey(q) /\ ~Credential(q)
         /\ Pkcs11Resource(q) => ~WrapKey(q) /\ ~Credential(q)
         /\ WrapKey(q) => ~Credential(q)
BY DEF Resource, Pkcs11Resource, WrapKey, Credential

\* Who is configured depends on the configuration only.
LEMMA PluginSame ==
  ASSUME UNCHANGED config
  PROVE  /\ Plugin("resource")' = Plugin("resource")
         /\ Plugin("pkcs11")' = Plugin("pkcs11")
BY DEF Plugin, Named

\* A broker that is up initialises nothing.
LEMMA UpIsUp ==
  ASSUME Types
  PROVE  /\ Len(config) \in Nat /\ Up \in Nat \ {Down} /\ Up \notin DOMAIN config
         /\ DOMAIN config = 1 .. Len(config)
<1>1. Len(config) \in Nat /\ DOMAIN config = 1 .. Len(config)
  BY PluginAssumption DEF Types, DeploymentShape
<1> QED BY <1>1 DEF Up, Down

\* An answer.
LEMMA Answers ==
  ASSUME req = [s \in Reqs |-> req[s]], NEW r \in Reqs, Fields(req[r]),
         NEW ok \in BOOLEAN, NEW got, req' = Answered(r, ok, got)
  PROVE  /\ req' = [s \in Reqs |-> req'[s]] /\ \A s \in Reqs \ {r} : req'[s] = req[s]
         /\ Fields(req'[r]) /\ req'[r].pc = "done" /\ req'[r].ok = ok
         /\ req'[r].got = got /\ req'[r].q = req[r].q /\ req'[r].body = req[r].body
         /\ req'[r].want = req[r].want
BY DEF Answered, Fields

\* A step of a handler.
LEMMA GoesOn ==
  ASSUME req = [s \in Reqs |-> req[s]], NEW r \in Reqs, Fields(req[r]),
         NEW pc, req' = [req EXCEPT ![r].pc = pc]
  PROVE  /\ req' = [s \in Reqs |-> req'[s]] /\ \A s \in Reqs \ {r} : req'[s] = req[s]
         /\ Fields(req'[r]) /\ req'[r].pc = pc /\ req'[r].ok = req[r].ok
         /\ req'[r].got = req[r].got /\ req'[r].q = req[r].q
         /\ req'[r].body = req[r].body /\ req'[r].want = req[r].want
         /\ req'[r].key = req[r].key
BY DEF Fields

-----------------------------------------------------------------------------
(* What a step leaves alone *)

\* The configuration is fixed, and so is what was asked.
Frame ==
    /\ UNCHANGED config
    /\ req' = [s \in Reqs |-> req'[s]]
    /\ \A s \in Reqs : req[s].pc # "idle" => req'[s].q = req[s].q /\ req'[s].pc # "idle"

\* What is known of a CA stays so; while requests are served only a late write
\* puts a file in its place.
CaGrows ==
    /\ \A n \in Ca : Signer(n, FALSE) => Signer(n, FALSE)'
    /\ \A n \in Ca : Whole(n) => Whole(n)'
    /\ late' = late
    /\ boot = Up => \A f \in Files : ca'[f] \in {None, ca[f]} \cup late

\* A request does not move; at most it is forgotten what it had to find.
Rests(s) ==
    /\ Fields(req'[s]) /\ req'[s].want \in {None, req[s].want}
    /\ req'[s].pc = req[s].pc /\ req'[s].q = req[s].q /\ req'[s].body = req[s].body
    /\ req'[s].ok = req[s].ok /\ req'[s].got = req[s].got /\ req'[s].key = req[s].key

\* A request that does not move, in a broker that goes on, keeps its part of
\* the invariant: wrapped texts are kept, and what is kept for a path changes
\* only where no read waits for it.
LEMMA Stays ==
  ASSUME IndInv, NEW s \in Reqs, Frame, UNCHANGED boot, CaGrows,
         Rests(s), dir'[s] = dir[s], child'[s] = child[s],
         wrapped \subseteq wrapped', stable' => stable,
         req'[s].want # None /\ req[s].pc = "handle" =>
            kept'[req[s].q.path] = kept[req[s].q.path]
  PROVE  ReqInv(s)'
<1>1. ReqInv(s) /\ UNCHANGED config
  BY DEF IndInv, Frame
<1>2. Turn(s)'
  BY <1>1 DEF Rests, ReqInv, Turn, Up, Named, Resource, WrapKey, Credential
<1>3. Credentials(s)'
  <2>1. dir[s] \in Dir /\ child[s] \in Child
    BY DEF IndInv, Types
  <2>2. dir[s].crt # None => dir[s].crt.ca \in Ca
    BY <2>1 DEF Dir
  <2>3. child[s].ca # None => child[s].ca \in Ca
    BY <2>1 DEF Child
  <2>4. req[s].pc \in {"signing", "verify", "read"} =>
           \A f \in Files : ca'[f] \in {None, ca[f]} \cup late
    BY <1>1 DEF ReqInv, Turn, CaGrows
  <2>5. \A n \in Ca : Signer(n, FALSE) => Signer(n, FALSE)'
    BY DEF CaGrows
  <2>6. \A n \in Ca : Whole(n) => Whole(n)'
    BY DEF CaGrows
  <2>7. Credential(req[s].q)' <=> Credential(req[s].q)
    BY DEF Rests, Credential
  <2>8. req'[s].pc = req[s].pc /\ UNCHANGED late
    BY DEF Rests, CaGrows
  <2>9. dir[s].crt # None =>
           Signer(dir[s].crt.ca, req[s].pc \in {"signing", "verify"})'
    BY <1>1, <2>2, <2>4, <2>5, <2>8 DEF ReqInv, Credentials, Signer, Files
  <2>10. child[s].ca # None => Signer(child[s].ca, req[s].pc = "signing")'
    BY <1>1, <2>3, <2>4, <2>5, <2>8 DEF ReqInv, Credentials, Signer, Files
  <2>11. req[s].pc = "read" =>
            /\ dir[s].crt # None /\ Whole(dir[s].crt.ca)'
            /\ ca'["crt"] \in {None, dir[s].crt.ca} \cup late'
    BY <1>1, <2>2, <2>4, <2>6, <2>8 DEF ReqInv, Credentials, Files
  <2>12. req[s].ok /\ Credential(req[s].q) => Whole(req[s].got.crt.ca)'
    BY <1>1, <2>6 DEF ReqInv, Credentials, Rests
  <2> QED BY <1>1, <2>7, <2>8, <2>9, <2>10, <2>11, <2>12 DEF Rests, ReqInv, Credentials
<1>4. Reads(s)'
  BY <1>1 DEF Rests, ReqInv, Reads, Resource
<1>5. Secrets(s)'
  BY <1>1 DEF Rests, ReqInv, Secrets, Sent, Frame, Imported
<1>6. Wraps(s)'
  BY <1>1 DEF Rests, ReqInv, Wraps
<1> QED BY <1>2, <1>3, <1>4, <1>5, <1>6 DEF ReqInv

\* The secrets in the token stay those that were sent.
LEMMA TokenKept ==
  ASSUME IndInv, Frame, token' \subseteq token
  PROVE  TokenInv'
BY DEF IndInv, TokenInv, Sent, Frame, Imported

\* The pair is kept while public and private keys stay in the token; a text is
\* wrapped, and a key is found, by the pair only.
LEMMA PairKept ==
  ASSUME IndInv, Frame, stable' => stable,
         \A o \in token : o.class # "secret" /\ ~o.session => o \in token',
         \A o \in token' : o.class # "secret" => o \in token,
         \A t \in wrapped' \ wrapped : \E r \in Reqs :
            req[r].pc = "found" /\ req[r].q.method = "POST" /\ t.pair = req[r].key.value,
         \A r \in Reqs : req'[r].pc = "found" =>
            \/ req[r].pc = "found" /\ req'[r].key = req[r].key
            \/ /\ req[r].pc = "handle" /\ req'[r].q.method \in {"GET", "POST"}
               /\ Template(req[r].q) # {} => req'[r].key \in Template(req[r].q)
  PROVE  PairInv'
<1> SUFFICES ASSUME stable', Named("pkcs11")' # {}
             PROVE  \E public, private \in token' : ThePair(public, private)'
  BY DEF PairInv
<1>1. UNCHANGED config /\ Named("pkcs11") # {} /\ PairInv
  BY DEF Frame, Named, IndInv
<1>2. PICK public \in token, private \in token : ThePair(public, private)
  BY <1>1 DEF PairInv
<1>3. PICK l : l = Plugin("pkcs11").label
  OBVIOUS
<1>4. Plugin("pkcs11")'.label = l
  BY <1>1, <1>3, PluginSame
<1>5. /\ WrapKeys(token, l, "public") = {public}
      /\ WrapKeys(token, l, "private") = {private}
      /\ public.value = private.value
      /\ ~public.session /\ ~private.session /\ None \notin {public, private}
      /\ \A t \in wrapped : t.pair = public.value
      /\ \A r \in Reqs : req[r].pc = "found" =>
            req[r].key = IF req[r].q.method = "POST" THEN public ELSE private
  BY <1>2, <1>3 DEF ThePair
<1>6. public \in token' /\ private \in token'
  BY <1>5 DEF WrapKeys
<1>7. /\ WrapKeys(token', l, "public") = {public}
      /\ WrapKeys(token', l, "private") = {private}
  BY <1>5, <1>6 DEF WrapKeys
<1>8. \A t \in wrapped' : t.pair = public.value
  BY <1>5
<1>9. ASSUME NEW r \in Reqs, req'[r].pc = "found"
      PROVE  req'[r].key = IF req'[r].q.method = "POST" THEN public ELSE private
  <2>1. CASE req[r].pc = "found" /\ req'[r].key = req[r].key
    BY <1>5, <1>9, <2>1 DEF Frame
  <2>2. CASE /\ req[r].pc = "handle" /\ req'[r].q.method \in {"GET", "POST"}
             /\ Template(req[r].q) # {} => req'[r].key \in Template(req[r].q)
    <3>1. req'[r].q = req[r].q
      BY <2>2 DEF Frame
    <3> QED BY <1>3, <1>5, <2>2, <3>1 DEF Template, Class
  <2> QED BY <1>9, <2>1, <2>2
<1>10. ThePair(public, private)'
  BY <1>4, <1>5, <1>7, <1>8, <1>9 DEF ThePair
<1> QED BY <1>6, <1>10

\* A step of one request counts it at most once.
LEMMA CountKept ==
  ASSUME IndInv, NEW r \in Reqs, req[r].pc # "idle", req'[r].pc \notin {"idle", "handle"},
         \A s \in Reqs \ {r} : req'[s].pc = req[s].pc,
         \/ UNCHANGED metric
         \/ req[r].pc = "handle" /\ (Counted("reads") \/ Counted("writes"))
  PROVE  CountInv'
<1>1. IsFiniteSet(Past) /\ Past \subseteq Reqs
  BY PluginAssumption, FS_Subset DEF Past
<1>2. Past' = Past \cup {r}
  BY DEF Past
<1>3. /\ IsFiniteSet(Past \cup {r}) /\ Cardinality(Past) \in Nat
      /\ Cardinality(Past \cup {r}) =
            IF r \in Past THEN Cardinality(Past) ELSE Cardinality(Past) + 1
  BY <1>1, FS_AddElement, FS_CardinalityType
<1>4. CountInv
  BY DEF IndInv
<1>5. CASE UNCHANGED metric
  BY <1>2, <1>3, <1>4, <1>5 DEF CountInv
<1>6. CASE req[r].pc = "handle" /\ (Counted("reads") \/ Counted("writes"))
  <2>1. Cardinality(Past') = Cardinality(Past) + 1
    BY <1>2, <1>3, <1>6 DEF Past
  <2>2. PICK a, b : metric = [reads |-> a, writes |-> b] /\ metric.reads = a /\ metric.writes = b
    BY <1>4 DEF CountInv
  <2>3. a \in 0 .. Cardinality(Past) /\ b \in 0 .. Cardinality(Past)
    BY <1>4, <2>2 DEF CountInv
  <2>4. \/ metric' = [reads |-> a + 1, writes |-> b]
        \/ metric' = [reads |-> a, writes |-> b + 1]
    BY <1>6, <2>2 DEF Counted
  <2> QED BY <1>3, <2>1, <2>3, <2>4 DEF CountInv
<1> QED BY <1>5, <1>6

\* A request moves, and with it at most its directory and its child.
LEMMA Moves ==
  ASSUME IndInv, NEW r \in Reqs, UNCHANGED <<server, store, ca, making, world>>,
         req' = [s \in Reqs |-> req'[s]], \A s \in Reqs \ {r} : req'[s] = req[s],
         req[r].pc # "idle", req'[r].pc \notin {"idle", "handle"}, req'[r].q = req[r].q,
         dir' \in [Reqs -> Dir], child' \in [Reqs -> Child],
         \A s \in Reqs \ {r} : dir'[s] = dir[s] /\ child'[s] = child[s],
         req'[r].pc = "found" =>
            /\ req[r].pc = "handle" /\ req'[r].q.method \in {"GET", "POST"}
            /\ Template(req[r].q) # {} => req'[r].key \in Template(req[r].q),
         \/ UNCHANGED metric
         \/ req[r].pc = "handle" /\ (Counted("reads") \/ Counted("writes")),
         ReqInv(r)'
  PROVE  IndInv'
<1>1. /\ UNCHANGED <<config, boot, starts, late, token, vault, sent, ops, kept, wrapped,
                     stable, gone>>
  BY DEF server, store, world
<1>2. Types /\ (\A s \in Reqs : ReqInv(s)) /\ CaInv /\ VaultInv
  BY DEF IndInv
<1>3. Frame
  BY <1>1 DEF Frame
<1>4. CaGrows
  BY <1>1 DEF CaGrows, Signer, Whole, Making
<1>5. ASSUME NEW s \in Reqs, s # r PROVE ReqInv(s)'
  <2>1. Rests(s)
    BY <1>2, <1>5 DEF Rests, ReqInv, Turn
  <2> QED BY <1>1, <1>3, <1>4, <1>5, <2>1, Stays
<1>6. Types'
  BY <1>1, <1>2 DEF Types, Up, ObjectShape, VaultPaths
<1>7. CaInv'
  BY <1>1, <1>2 DEF CaInv, Initialising, Making
<1>8. VaultInv'
  BY <1>1, <1>2, PluginSame DEF VaultInv
<1>9. TokenInv'
  BY <1>1, <1>3, TokenKept
<1>10. PairInv'
  BY <1>1, <1>3, PairKept
<1>11. CountInv'
  BY CountKept
<1> QED BY <1>5, <1>6, <1>7, <1>8, <1>9, <1>10, <1>11 DEF IndInv

\* A request that is answered, or cannot go on, without a credential, a wrapped
\* text or a write: what is left to show.
LEMMA Ends ==
  ASSUME IndInv, NEW r \in Reqs, UNCHANGED <<server, store, nebula, world>>,
         req' = [s \in Reqs |-> req'[s]], \A s \in Reqs \ {r} : req'[s] = req[s],
         Fields(req'[r]), req'[r].pc \in {"done", "panic"}, req'[r].q = req[r].q,
         req'[r].body = req[r].body, req'[r].want = req[r].want,
         req'[r].ok \in BOOLEAN, req'[r].ok => req'[r].pc = "done",
         req[r].pc \in {"handle", "found"},
         req[r].ok => FALSE, req'[r].ok => ~Credential(req[r].q),
         req[r].want # None =>
            req'[r].pc = "done" /\ req'[r].got \in {req[r].want, BackendError},
         req'[r].ok /\ Pkcs11Resource(req[r].q) /\ req[r].q.method = "GET" =>
            Sent(req'[r].got, Label(Desc(req[r].q))),
         WrapKey(req[r].q) /\ ~Refused(req[r].q) =>
            /\ stable /\ (req[r].q.method = "POST" \/ req[r].body # None) =>
                  req'[r].pc = "done" /\ (req'[r].ok \/ req'[r].got = BackendError)
            /\ req'[r].ok /\ req[r].q.method = "GET" => req'[r].got = req[r].body.plain,
         \/ UNCHANGED metric
         \/ req[r].pc = "handle" /\ (Counted("reads") \/ Counted("writes"))
  PROVE  IndInv'
<1>1. /\ UNCHANGED <<config, boot, starts, late, ca, dir, child, making, kept, wrapped, stable, gone>>
  BY DEF server, nebula, world
<1>2. ReqInv(r) /\ Types
  BY DEF IndInv
<1>3. Turn(r)'
  BY <1>1, <1>2 DEF ReqInv, Turn, Named, Pc, WrapKey
<1>4. Credentials(r)'
  <2>1. ~req[r].ok /\ dir[r].state = "none"
    BY <1>2 DEF ReqInv, Turn, Credentials
  <2> QED BY <1>1, <1>2, <2>1 DEF ReqInv, Credentials, Credential, Signer, Whole, Making
<1>5. Reads(r)'
  BY <1>1, <1>2 DEF ReqInv, Reads, Resource
<1>6. Secrets(r)'
  BY <1>1, <1>2 DEF Secrets, Sent, Imported
<1>7. Wraps(r)'
  BY <1>1, <1>2 DEF Wraps, WrapKey, Refused, Resource, Pkcs11Resource, Credential
<1>8. dir' \in [Reqs -> Dir] /\ child' \in [Reqs -> Child]
  BY <1>1, <1>2 DEF Types
<1> QED BY <1>1, <1>3, <1>4, <1>5, <1>6, <1>7, <1>8, Moves DEF ReqInv

-----------------------------------------------------------------------------
(* Handlers that change nothing but their request *)

\* What is known of a request that is being handled.
LEMMA Handled ==
  ASSUME IndInv, NEW r \in Reqs, req[r].pc \in {"handle", "found"}
  PROVE  /\ req = [s \in Reqs |-> req[s]] /\ Fields(req[r])
         /\ req[r].q \in Queries /\ QueryShape(req[r].q) /\ req[r].ok = FALSE
         /\ Turn(r) /\ Reads(r) /\ Wraps(r)
         /\ \A o \in token : ObjectShape(o)
BY PluginAssumption DEF IndInv, Types, ReqInv, Turn

\* A query that is not supported.
LEMMA Refuses ==
  ASSUME IndInv, NEW r \in Reqs, Refuse(r)
  PROVE  IndInv'
<1>1. req[r].pc = "handle" /\ req' = Answered(r, FALSE, None) /\ Refused(req[r].q)
  BY DEF Refuse
<1>2. req[r].want = None
  BY <1>1, Handled, KindsDiffer DEF Reads, Refused
<1>3. /\ req' = [s \in Reqs |-> req'[s]] /\ \A s \in Reqs \ {r} : req'[s] = req[s]
      /\ Fields(req'[r]) /\ req'[r].pc = "done" /\ req'[r].ok = FALSE
      /\ req'[r].got = None /\ req'[r].q = req[r].q /\ req'[r].body = req[r].body
      /\ req'[r].want = req[r].want
  BY <1>1, Handled, Answers
<1>4. ~req[r].ok /\ UNCHANGED <<server, store, nebula, world, metric>>
  BY <1>1, Handled DEF Refuse
<1> QED BY <1>1, <1>2, <1>3, <1>4, Ends

\* A read of the vault finds what was kept.
LEMMA VaultReads ==
  ASSUME IndInv, NEW r \in Reqs, VaultGet(r)
  PROVE  IndInv'
<1>1. /\ req[r].pc = "handle" /\ Resource(req[r].q) /\ req[r].q.method = "GET"
      /\ Counted("reads") /\ UNCHANGED <<server, store, nebula, world>>
  BY DEF VaultGet, Handles
<1>2. PICK record : record = vault[VaultPath(req[r].q.path)]
  OBVIOUS
<1>3. PICK ok \in BOOLEAN : req' = Answered(r, ok, record.data)
  <2>1. req' = Answered(r, record.state = "data", record.data)
    BY <1>2 DEF VaultGet
  <2>2. (record.state = "data") \in BOOLEAN
    OBVIOUS
  <2> QED BY <2>1, <2>2
<1>4. /\ req' = [s \in Reqs |-> req'[s]] /\ \A s \in Reqs \ {r} : req'[s] = req[s]
      /\ Fields(req'[r]) /\ req'[r].pc = "done" /\ req'[r].ok = ok
      /\ req'[r].got = record.data /\ req'[r].q = req[r].q
      /\ req'[r].body = req[r].body /\ req'[r].want = req[r].want
  <2>1. req = [s \in Reqs |-> req[s]] /\ Fields(req[r])
    BY <1>1, Handled
  <2> QED BY <1>3, <2>1, Answers
<1>5. req[r].want # None => record.data = req[r].want
  <2>1. PICK d \in Descs : d = req[r].q.path
    BY <1>1, Handled DEF Resource, Descs
  <2>2. req[r].want # None => req[r].want = kept[d]
    BY <1>1, <2>1, Handled DEF Reads
  <2>3. kept[d] # None => vault[VaultPath(d)] = Data(kept[d])
    BY DEF IndInv, VaultInv
  <2>4. record = vault[VaultPath(d)]
    BY <1>2, <2>1
  <2> QED BY <2>2, <2>3, <2>4 DEF Data
<1>6. /\ ~WrapKey(req[r].q) /\ ~Credential(req[r].q) /\ ~Pkcs11Resource(req[r].q)
      /\ ~req[r].ok
  BY <1>1, KindsDiffer, Handled
<1> HIDE <1>2, <1>3
<1> QED BY <1>1, <1>4, <1>5, <1>6, Ends

\* Aliyun KMS: nothing was ever kept.
LEMMA AliyunSteps ==
  ASSUME IndInv, NEW r \in Reqs, AliyunGet(r) \/ AliyunSet(r)
  PROVE  IndInv'
<1>1. /\ req[r].pc = "handle" /\ Resource(req[r].q) /\ Plugin("resource").backend = "aliyun"
      /\ Counted("reads") \/ Counted("writes")
      /\ UNCHANGED <<server, store, nebula, world>>
  BY DEF AliyunGet, AliyunSet, Handles
<1>2. /\ ~WrapKey(req[r].q) /\ ~Credential(req[r].q) /\ ~Pkcs11Resource(req[r].q)
      /\ req[r].ok = FALSE
  BY <1>1, KindsDiffer, Handled
<1>3. req[r].want = None
  <2>1. req[r].q.path \in Descs
    BY <1>1, Handled DEF Resource, Descs
  <2> QED BY <1>1, <2>1, Handled DEF Reads, IndInv, VaultInv
<1>4. CASE AliyunGet(r)
  <2>0. PICK ok \in BOOLEAN : \E got : req' = Answered(r, ok, got)
    BY <1>4 DEF AliyunGet
  <2>1. PICK got : req' = Answered(r, ok, got)
    BY <2>0
  <2>2. /\ req' = [s \in Reqs |-> req'[s]] /\ \A s \in Reqs \ {r} : req'[s] = req[s]
        /\ Fields(req'[r]) /\ req'[r].pc = "done" /\ req'[r].ok = ok
        /\ req'[r].q = req[r].q /\ req'[r].body = req[r].body
        /\ req'[r].want = req[r].want
    BY <1>1, <2>1, Handled, Answers
  <2> QED BY <1>1, <1>2, <1>3, <2>2, Ends
<1>5. CASE AliyunSet(r)
  <2>1. req' = [req EXCEPT ![r].pc = "panic"]
    BY <1>5 DEF AliyunSet
  <2>2. /\ req' = [s \in Reqs |-> req'[s]] /\ \A s \in Reqs \ {r} : req'[s] = req[s]
        /\ Fields(req'[r]) /\ req'[r].pc = "panic" /\ req'[r].ok = req[r].ok
        /\ req'[r].q = req[r].q /\ req'[r].body = req[r].body
        /\ req'[r].want = req[r].want
    BY <1>1, <2>1, Handled, GoesOn
  <2> QED BY <1>1, <1>2, <1>3, <2>2, Ends
<1> QED BY <1>4, <1>5

\* A read of the token.
LEMMA Pkcs11Reads ==
  ASSUME IndInv, NEW r \in Reqs, Pkcs11Read(r)
  PROVE  IndInv'
<1>1. /\ req[r].pc = "handle" /\ Pkcs11Resource(req[r].q) /\ req[r].q.method = "GET"
      /\ UNCHANGED <<server, store, nebula, metric, world>>
  BY DEF Pkcs11Read
<1>0. PICK ok \in BOOLEAN : \E got :
         /\ req' = Answered(r, ok, got)
         /\ ok => \E o \in token : /\ o.label = Label(Desc(req[r].q)) /\ o.class = "secret"
                                   /\ got = o.value
  BY DEF Pkcs11Read
<1>2. PICK got :
         /\ req' = Answered(r, ok, got)
         /\ ok => \E o \in token : /\ o.label = Label(Desc(req[r].q)) /\ o.class = "secret"
                                   /\ got = o.value
  BY <1>0
<1>3. /\ req' = [s \in Reqs |-> req'[s]] /\ \A s \in Reqs \ {r} : req'[s] = req[s]
      /\ Fields(req'[r]) /\ req'[r].pc = "done" /\ req'[r].ok = ok /\ req'[r].got = got
      /\ req'[r].q = req[r].q /\ req'[r].body = req[r].body
      /\ req'[r].want = req[r].want
  <2>1. req = [s \in Reqs |-> req[s]] /\ Fields(req[r])
    BY <1>1, Handled
  <2> QED BY <1>2, <2>1, Answers
<1>4. ok => Sent(got, Label(Desc(req[r].q)))
  BY <1>2 DEF IndInv, TokenInv
<1>5. ~WrapKey(req[r].q) /\ ~Credential(req[r].q) /\ req[r].want = None /\ ~req[r].ok
  BY <1>1, KindsDiffer, Handled DEF Reads
<1> HIDE <1>0, <1>2
<1> QED BY <1>1, <1>3, <1>4, <1>5, Ends

\* The pair, and the key a handler has found of it.
LEMMA PairFound ==
  ASSUME IndInv, NEW r \in Reqs, req[r].pc = "found", stable
  PROVE  /\ req[r].key # None /\ req[r].key \in token
         /\ req[r].key.class = Class(req[r].q)
         /\ \A t \in wrapped : t.pair = req[r].key.value
<1>1. /\ WrapKey(req[r].q) /\ req[r].q.method \in {"GET", "POST"}
      /\ Named(req[r].q.plugin) # {}
  BY DEF IndInv, ReqInv, Turn
<1>2. Named("pkcs11") # {}
  BY <1>1 DEF WrapKey
<1>3. PICK public \in token, private \in token : ThePair(public, private)
  BY <1>2 DEF IndInv, PairInv
<1>4. public.class = "public" /\ private.class = "private"
  BY <1>3 DEF ThePair, WrapKeys
<1> QED BY <1>1, <1>3, <1>4 DEF ThePair, Class

\* Text that was wrapped is unwrapped, and nothing else is; with the pair in
\* place nobody panics.
LEMMA WrapEnds ==
  ASSUME IndInv, NEW r \in Reqs, WrapPanics(r) \/ Unwrap(r)
  PROVE  IndInv'
<1>1. req[r].pc = "found" /\ UNCHANGED <<server, store, nebula, metric, world>>
  BY DEF WrapPanics, Unwrap
<1>2. /\ WrapKey(req[r].q) /\ ~Credential(req[r].q) /\ ~Pkcs11Resource(req[r].q)
      /\ req[r].ok = FALSE /\ req[r].want = None
  BY <1>1, KindsDiffer, Handled DEF Turn, Reads
<1>3. CASE WrapPanics(r)
  <2>1. req' = [req EXCEPT ![r].pc = "panic"] /\ req[r].key = None
    BY <1>3 DEF WrapPanics
  <2>2. /\ req' = [s \in Reqs |-> req'[s]] /\ \A s \in Reqs \ {r} : req'[s] = req[s]
        /\ Fields(req'[r]) /\ req'[r].pc = "panic" /\ req'[r].ok = req[r].ok
        /\ req'[r].q = req[r].q /\ req'[r].body = req[r].body
        /\ req'[r].want = req[r].want
    BY <1>1, <2>1, Handled, GoesOn
  <2>3. ~stable
    BY <1>1, <2>1, PairFound
  <2> QED BY <1>1, <1>2, <2>2, <2>3, Ends
<1>4. CASE Unwrap(r)
  <2>0. PICK ok \in BOOLEAN : \E got :
           /\ req' = Answered(r, ok, got)
           /\ ok => got = req[r].body.plain
           /\ ~ok => ~(/\ Usable(r) /\ req[r].body # None
                       /\ req[r].body.pair = req[r].key.value)
    <3>1. CASE Usable(r) /\ req[r].body # None /\ req[r].body.pair = req[r].key.value
      <4>1. req' = Answered(r, TRUE, req[r].body.plain)
        BY <1>4, <3>1 DEF Unwrap
      <4> QED BY <3>1, <4>1
    <3>2. CASE ~(Usable(r) /\ req[r].body # None /\ req[r].body.pair = req[r].key.value)
      <4>1. req' = Answered(r, FALSE, None)
        BY <1>4, <3>2 DEF Unwrap
      <4> QED BY <3>2, <4>1
    <3> QED BY <3>1, <3>2
  <2>1. PICK got :
           /\ req' = Answered(r, ok, got)
           /\ ok => got = req[r].body.plain
           /\ ~ok => ~(/\ Usable(r) /\ req[r].body # None
                       /\ req[r].body.pair = req[r].key.value)
    BY <2>0
  <2>2. /\ req' = [s \in Reqs |-> req'[s]] /\ \A s \in Reqs \ {r} : req'[s] = req[s]
        /\ Fields(req'[r]) /\ req'[r].pc = "done" /\ req'[r].ok = ok /\ req'[r].got = got
        /\ req'[r].q = req[r].q /\ req'[r].body = req[r].body
        /\ req'[r].want = req[r].want
    <3>1. req = [s \in Reqs |-> req[s]] /\ Fields(req[r])
      BY <1>1, Handled
    <3> QED BY <2>1, <3>1, Answers
  <2>3. req[r].q.method = "GET"
    BY <1>4 DEF Unwrap
  <2>4. req[r].body \in wrapped \cup {None}
    BY <1>1, <1>2, <2>3, Handled DEF Wraps
  <2>5. stable /\ req[r].body # None => ok
    BY <1>1, <2>1, <2>4, PairFound DEF Usable
  <2> QED BY <1>1, <1>2, <2>1, <2>2, <2>3, <2>5, Ends
<1> QED BY <1>3, <1>4

\* A back end fails.
LEMMA BackendEnds ==
  ASSUME IndInv, NEW r \in Reqs, BackendFails(r)
  PROVE  IndInv'
<1>1. /\ req[r].pc \in {"handle", "found"} /\ req' = Answered(r, FALSE, BackendError)
      /\ UNCHANGED metric \/ (req[r].pc = "handle" /\ Counted("reads"))
      /\ UNCHANGED <<server, store, nebula, world>>
  BY DEF BackendFails, Handles
<1>2. /\ req' = [s \in Reqs |-> req'[s]] /\ \A s \in Reqs \ {r} : req'[s] = req[s]
      /\ Fields(req'[r]) /\ req'[r].pc = "done" /\ req'[r].ok = FALSE
      /\ req'[r].got = BackendError /\ req'[r].q = req[r].q
      /\ req'[r].body = req[r].body /\ req'[r].want = req[r].want
  BY <1>1, Handled, Answers
<1>3. req[r].ok = FALSE
  BY <1>1, Handled
<1> QED BY <1>1, <1>2, <1>3, Ends

\* The wrapping key is looked up.
LEMMA WrapFinds ==
  ASSUME IndInv, NEW r \in Reqs, WrapFind(r)
  PROVE  IndInv'
<1>1. /\ req[r].pc = "handle" /\ WrapKey(req[r].q) /\ req[r].q.method \in {"GET", "POST"}
      /\ UNCHANGED <<server, store, nebula, metric, world>>
  BY Handled DEF WrapFind, QueryShape
<1>2. PICK o : /\ Template(req[r].q) # {} => o \in Template(req[r].q)
               /\ req' = [req EXCEPT ![r].pc = "found", ![r].key = o]
  BY DEF WrapFind
<1>3. req = [s \in Reqs |-> req[s]] /\ Fields(req[r])
  BY <1>1, Handled
<1>4. /\ req' = [s \in Reqs |-> req'[s]] /\ \A s \in Reqs \ {r} : req'[s] = req[s]
      /\ Fields(req'[r]) /\ req'[r].pc = "found" /\ req'[r].ok = req[r].ok
      /\ req'[r].q = req[r].q /\ req'[r].body = req[r].body /\ req'[r].got = req[r].got
      /\ req'[r].want = req[r].want /\ req'[r].key = o
  BY <1>2, <1>3 DEF Fields
<1>5. /\ UNCHANGED <<config, boot, starts, late, ca, dir, child, making, kept, wrapped, stable, gone>>
  BY <1>1 DEF server, nebula, world
<1>6. ReqInv(r) /\ Types /\ req[r].ok = FALSE /\ req[r].want = None
      /\ ~Credential(req[r].q)
  BY <1>1, Handled, KindsDiffer DEF IndInv, Reads
<1>7. Turn(r)'
  BY <1>1, <1>4, <1>5, <1>6 DEF ReqInv, Turn, Named, Pc, WrapKey, Up
<1>8. Credentials(r)'
  BY <1>1, <1>4, <1>5, <1>6 DEF ReqInv, Credentials, Signer, Whole, Making, Credential
<1>9. Reads(r)' /\ Secrets(r)'
  BY <1>4, <1>6 DEF Reads, Secrets
<1>10. Wraps(r)'
  BY <1>1, <1>4, <1>5, <1>6 DEF ReqInv, Wraps
<1>11. dir' \in [Reqs -> Dir] /\ child' \in [Reqs -> Child]
  BY <1>5, <1>6 DEF Types
<1>12. UNCHANGED <<server, store, ca, making, world>>
  BY <1>1 DEF nebula
<1> QED BY <1>1, <1>2, <1>4, <1>5, <1>7, <1>8, <1>9, <1>10, <1>11, <1>12, Moves DEF ReqInv

-----------------------------------------------------------------------------
(* Steps that change what is stored *)

\* A step of the plugins other than nebula: what is left to show.
LEMMA Stores ==
  ASSUME IndInv, UNCHANGED <<server, nebula, gone>>, Frame,
         wrapped \subseteq wrapped', stable' => stable,
         \A s \in Reqs :
            \/ ReqInv(s)'
            \/ /\ Rests(s)
               /\ req'[s].want # None /\ req[s].pc = "handle" =>
                     kept'[req[s].q.path] = kept[req[s].q.path],
         Types', VaultInv', TokenInv', PairInv', CountInv'
  PROVE  IndInv'
<1>1. UNCHANGED <<config, boot, starts, late, ca, making, dir, child>>
  BY DEF server, nebula
<1>2. CaGrows
  BY <1>1 DEF CaGrows, Signer, Whole, Making
<1>3. \A s \in Reqs : ReqInv(s)'
  BY <1>1, <1>2, Stays
<1>4. CaInv'
  BY <1>1 DEF IndInv, CaInv, Initialising, Making
<1> QED BY <1>3, <1>4 DEF IndInv

\* A request comes in.
LEMMA Arrives ==
  ASSUME IndInv, NEW r \in Reqs, NEW q \in Queries, NEW body, Arrive(r, q, body)
  PROVE  IndInv'
<1>1. /\ boot = Up /\ req[r].pc = "idle" /\ Named(q.plugin) # {} /\ body \in Bodies(r, q)
      /\ UNCHANGED <<server, store, nebula, metric, world>>
  BY DEF Arrive
<1>2. PICK want : want = IF Resource(q) /\ q.method = "GET" THEN kept[q.path] ELSE None
  OBVIOUS
<1>3. PICK b : b = Request("handle", q, body)
  OBVIOUS
<1>4. PICK a : /\ a = [b EXCEPT !.want = want]
               /\ Fields(a) /\ a.pc = "handle" /\ a.q = q /\ a.body = body /\ a.ok = FALSE
               /\ a.want = want
  <2>1. Fields(b) /\ b.pc = "handle" /\ b.q = q /\ b.body = body /\ b.ok = FALSE
    BY <1>3 DEF Request, Fields
  <2> HIDE <1>3, <1>2
  <2>2. PICK c : c = [b EXCEPT !.want = want]
    OBVIOUS
  <2>3. /\ c.pc = "handle" /\ c.q = q /\ c.body = body /\ c.ok = FALSE
        /\ c.want = want
    BY <2>1, <2>2 DEF Fields
  <2>4. Fields(c)
    BY <2>1, <2>2 DEF Fields
  <2> QED BY <2>2, <2>3, <2>4
<1>5. req' = [req EXCEPT ![r] = a]
  BY <1>2, <1>3, <1>4 DEF Arrive
<1>6. Types /\ ReqInv(r) /\ req = [s \in Reqs |-> req[s]]
  BY DEF IndInv, Types
<1>7. /\ req' = [s \in Reqs |-> req'[s]] /\ \A s \in Reqs \ {r} : req'[s] = req[s]
      /\ req'[r] = a
  BY <1>5, <1>6
<1>8. UNCHANGED <<config, boot, starts, late, ca, dir, child, making, kept, wrapped, stable, gone,
                  token, vault, sent, metric, ops, starts>>
  BY <1>1 DEF server, store, nebula, world
<1>9. Frame
  BY <1>1, <1>7, <1>8 DEF Frame
<1>10. ReqInv(r)'
  <2>1. Turn(r)'
    BY <1>1, <1>4, <1>7, <1>8, ZenonT(60) DEF Turn, Pc, Up, Named, Bodies, WrapKey
  <2>2. Credentials(r)'
    BY <1>1, <1>4, <1>6, <1>7, <1>8 DEF ReqInv, Credentials, Signer, Whole, Making
  <2>3. Reads(r)'
    BY <1>2, <1>4, <1>7, <1>8 DEF Reads, Resource
  <2>4. Secrets(r)' /\ Wraps(r)'
    BY <1>1, <1>4, <1>7, <1>8 DEF Secrets, Wraps, Bodies, WrapKey
  <2> QED BY <2>1, <2>2, <2>3, <2>4 DEF ReqInv
<1>11. \A s \in Reqs \ {r} : Rests(s)
  BY <1>7 DEF Rests, IndInv, ReqInv, Turn
<1>12. Types'
  BY <1>6, <1>7, <1>8 DEF Types, Up, ObjectShape, VaultPaths
<1>13. VaultInv' /\ TokenInv'
  BY <1>8, <1>9, PluginSame, TokenKept DEF IndInv, VaultInv
<1>14. PairInv'
  BY <1>4, <1>7, <1>8, <1>9, PairKept
<1>15. CountInv'
  <2>1. Past' = Past
    BY <1>1, <1>4, <1>7 DEF Past
  <2> QED BY <1>8, <2>1 DEF IndInv, CountInv
<1> HIDE <1>2, <1>3, <1>4, <1>5
<1> QED BY <1>1, <1>8, <1>9, <1>10, <1>11, <1>12, <1>13, <1>14, <1>15, Stores

\* A text is wrapped.
LEMMA WrapWraps ==
  ASSUME IndInv, NEW r \in Reqs, Wrap(r)
  PROVE  IndInv'
<1>1. /\ req[r].pc = "found" /\ req[r].q.method = "POST"
      /\ UNCHANGED <<server, store, nebula, metric, ops, kept, stable, gone>>
  BY DEF Wrap
<1>2. /\ req = [s \in Reqs |-> req[s]] /\ Fields(req[r]) /\ req[r].ok = FALSE
      /\ ReqInv(r) /\ Types
      /\ WrapKey(req[r].q) /\ ~Credential(req[r].q) /\ ~Pkcs11Resource(req[r].q)
      /\ ~Resource(req[r].q) /\ req[r].want = None
  BY <1>1, Handled, KindsDiffer DEF Turn, Reads, IndInv
<1>3. PICK text : text = [pair |-> req[r].key.value, plain |-> req[r].body]
  OBVIOUS
<1>4. CASE ~Usable(r)
  <2>1. req' = Answered(r, FALSE, None) /\ UNCHANGED wrapped
    BY <1>4 DEF Wrap
  <2>2. /\ req' = [s \in Reqs |-> req'[s]] /\ \A s \in Reqs \ {r} : req'[s] = req[s]
        /\ Fields(req'[r]) /\ req'[r].pc = "done" /\ req'[r].ok = FALSE
        /\ req'[r].q = req[r].q /\ req'[r].body = req[r].body
        /\ req'[r].want = req[r].want
    BY <1>2, <2>1, Answers
  <2>3. ~stable
    BY <1>1, <1>4, PairFound DEF Usable
  <2>4. UNCHANGED world
    BY <1>1, <2>1 DEF world
  <2> QED BY <1>1, <1>2, <2>2, <2>3, <2>4, Ends
<1>5. CASE Usable(r)
  <2>1. req' = Answered(r, TRUE, text) /\ wrapped' = wrapped \cup {text}
    BY <1>3, <1>5 DEF Wrap
  <2>2. /\ req' = [s \in Reqs |-> req'[s]] /\ \A s \in Reqs \ {r} : req'[s] = req[s]
        /\ Fields(req'[r]) /\ req'[r].pc = "done" /\ req'[r].ok = TRUE
        /\ req'[r].q = req[r].q /\ req'[r].body = req[r].body
        /\ req'[r].want = req[r].want
    BY <1>2, <2>1, Answers
  <2>3. UNCHANGED <<config, boot, starts, late, ca, dir, child, making, kept, stable, gone,
                    token, vault, sent, metric, ops, starts>>
    BY <1>1 DEF server, store, nebula
  <2>4. Frame
    BY <1>1, <2>2, <2>3 DEF Frame
  <2>5. ReqInv(r)'
    <3>1. Turn(r)'
      BY <1>1, <1>2, <2>2, <2>3 DEF ReqInv, Turn, Pc, Named, WrapKey
    <3>2. Credentials(r)'
      BY <1>1, <1>2, <2>2, <2>3 DEF ReqInv, Credentials, Signer, Whole, Making, Credential
    <3>3. Reads(r)' /\ Secrets(r)' /\ Wraps(r)'
      BY <1>1, <1>2, <2>2, <2>3 DEF Reads, Secrets, Wraps, Pkcs11Resource
    <3> QED BY <3>1, <3>2, <3>3 DEF ReqInv
  <2>6. \A s \in Reqs \ {r} : Rests(s)
    BY <2>2 DEF Rests, IndInv, ReqInv, Turn
  <2>7. Types'
    BY <1>2, <2>2, <2>3 DEF Types, Up, ObjectShape, VaultPaths
  <2>8. VaultInv' /\ TokenInv'
    BY <2>3, <2>4, PluginSame, TokenKept DEF IndInv, VaultInv
  <2>9. PairInv'
    <3>1. \A t \in wrapped' \ wrapped : t.pair = req[r].key.value
      BY <1>3, <2>1
    <3> QED BY <1>1, <2>2, <2>3, <2>4, <3>1, PairKept
  <2>10. CountInv'
    BY <1>1, <2>2, <2>3, CountKept
  <2> QED BY <1>1, <2>1, <2>3, <2>4, <2>5, <2>6, <2>7, <2>8, <2>9, <2>10, Stores
<1> QED BY <1>4, <1>5

\* A secret is written to the token.
LEMMA Pkcs11Writes ==
  ASSUME IndInv, NEW r \in Reqs, Pkcs11Write(r)
  PROVE  IndInv'
<1>1. /\ req[r].pc = "handle" /\ req[r].q.method = "POST" /\ Pkcs11Resource(req[r].q)
      /\ req' = Answered(r, TRUE, None)
      /\ UNCHANGED <<server, vault, sent, nebula, metric, world>>
  BY DEF Pkcs11Write
<1>2. /\ req = [s \in Reqs |-> req[s]] /\ Fields(req[r]) /\ req[r].ok = FALSE
      /\ ReqInv(r) /\ Types /\ ~WrapKey(req[r].q) /\ ~Credential(req[r].q)
      /\ ~Resource(req[r].q) /\ req[r].want = None /\ req[r].body = r
  BY <1>1, Handled, KindsDiffer DEF Turn, Reads, IndInv
<1>3. PICK o : o = [label |-> Label(Desc(req[r].q)), class |-> "secret",
                    value |-> req[r].body, session |-> TRUE]
  OBVIOUS
<1>4. /\ token' = token \cup {o} /\ o.label = Label(Desc(req[r].q)) /\ o.class = "secret"
      /\ o.value = r /\ ObjectShape(o)
  BY <1>2, <1>3 DEF Pkcs11Write, ObjectShape
<1> HIDE <1>3
<1>5. /\ req' = [s \in Reqs |-> req'[s]] /\ \A s \in Reqs \ {r} : req'[s] = req[s]
      /\ Fields(req'[r]) /\ req'[r].pc = "done" /\ req'[r].ok = TRUE
      /\ req'[r].q = req[r].q /\ req'[r].body = req[r].body
      /\ req'[r].want = req[r].want
  BY <1>1, <1>2, Answers
<1>6. UNCHANGED <<config, boot, starts, late, ca, dir, child, making, kept, stable, gone, wrapped,
                  vault, sent, metric, ops, starts>>
  BY <1>1 DEF server, nebula, world
<1>7. Frame
  BY <1>1, <1>5, <1>6 DEF Frame
<1>8. ReqInv(r)'
  <2>1. Turn(r)'
    BY <1>1, <1>2, <1>5, <1>6 DEF ReqInv, Turn, Pc, Named, WrapKey
  <2>2. Credentials(r)'
    BY <1>1, <1>2, <1>5, <1>6 DEF ReqInv, Credentials, Signer, Whole, Making, Credential
  <2>3. Reads(r)' /\ Secrets(r)' /\ Wraps(r)'
    BY <1>1, <1>2, <1>5, <1>6 DEF Reads, Secrets, Wraps, WrapKey
  <2> QED BY <2>1, <2>2, <2>3 DEF ReqInv
<1>9. \A s \in Reqs \ {r} : Rests(s)
  BY <1>5 DEF Rests, IndInv, ReqInv, Turn
<1>10. Types'
  BY <1>2, <1>4, <1>5, <1>6 DEF Types, Up, VaultPaths, ObjectShape
<1>11. VaultInv'
  BY <1>6, PluginSame DEF IndInv, VaultInv
<1>12. TokenInv'
  <2>1. \A x \in token : x.class = "secret" => Sent(x.value, x.label)'
    BY <1>7 DEF IndInv, TokenInv, Sent, Frame, Imported
  <2>2. Sent(o.value, o.label)'
    BY <1>1, <1>4, <1>5 DEF Sent, Pkcs11Resource, Label, Desc
  <2> QED BY <1>4, <2>1, <2>2 DEF TokenInv, Sent, Imported
<1>13. PairInv'
  BY <1>4, <1>5, <1>6, <1>7, PairKept
<1>14. CountInv'
  BY <1>1, <1>5, <1>6, CountKept
<1> QED BY <1>1, <1>6, <1>7, <1>8, <1>9, <1>10, <1>11, <1>12, <1>13, <1>14, Stores

\* Nobody is counted.
LEMMA CountSame ==
  ASSUME IndInv, \A s \in Reqs : req'[s].pc = req[s].pc, UNCHANGED metric
  PROVE  CountInv'
<1>1. Past' = Past
  BY DEF Past
<1> QED BY <1>1 DEF IndInv, CountInv

\* What the reads of a path had to find is forgotten.
LEMMA Forgets ==
  ASSUME IndInv, NEW d, NEW g, g = Forget(d, req)
  PROVE  /\ g = [s \in Reqs |-> g[s]]
         /\ \A s \in Reqs :
               /\ Fields(g[s]) /\ g[s].want \in {None, req[s].want}
               /\ g[s].pc = req[s].pc /\ g[s].q = req[s].q /\ g[s].body = req[s].body
               /\ g[s].ok = req[s].ok /\ g[s].got = req[s].got /\ g[s].key = req[s].key
               /\ g[s].want # None => d # req[s].q.path
<1>1. \A s \in Reqs : Fields(req[s]) /\ (req[s].pc # "idle" => req[s].q \in Queries)
                      /\ (req[s].want # None => req[s].pc # "idle")
  BY DEF IndInv, ReqInv, Turn, Reads
<1>2. \A s \in Reqs : req[s].want # None => req[s].q # None
  BY <1>1, PluginAssumption
<1>3. g = [s \in Reqs |-> IF req[s].q # None /\ d = req[s].q.path
                          THEN [req[s] EXCEPT !.want = None] ELSE req[s]]
  BY DEF Forget
<1>4. ASSUME NEW s \in Reqs
      PROVE  /\ Fields(g[s]) /\ g[s].want \in {None, req[s].want}
             /\ g[s].pc = req[s].pc /\ g[s].q = req[s].q /\ g[s].body = req[s].body
             /\ g[s].ok = req[s].ok /\ g[s].got = req[s].got /\ g[s].key = req[s].key
             /\ g[s].want # None => d # req[s].q.path
  <2>1. CASE req[s].q # None /\ d = req[s].q.path
    <3>1. g[s] = [req[s] EXCEPT !.want = None]
      BY <1>3, <2>1
    <3>2. Fields(req[s])
      BY <1>1
    <3>3. g[s].want = None /\ Fields(g[s])
      BY <3>1, <3>2 DEF Fields
    <3> QED BY <3>1, <3>2, <3>3 DEF Fields
  <2>2. CASE ~(req[s].q # None /\ d = req[s].q.path)
    <3>1. g[s] = req[s]
      BY <1>3, <2>2
    <3> QED BY <1>1, <1>2, <2>2, <3>1
  <2> QED BY <2>1, <2>2
<1>5. g = [s \in Reqs |-> g[s]]
  BY <1>3
<1> QED BY <1>4, <1>5

\* A write is sent to the vault.
LEMMA VaultSends ==
  ASSUME IndInv, NEW r \in Reqs, VaultSend(r)
  PROVE  IndInv'
<1>1. PICK d : d = req[r].q.path
  OBVIOUS
<1>2. PICK g : g = Forget(d, req)
  OBVIOUS
<1>3. PICK w : w = [desc |-> d, data |-> req[r].body]
  OBVIOUS
<1>4. /\ req[r].pc = "handle" /\ Resource(req[r].q) /\ req[r].q.method = "POST"
      /\ Plugin("resource").backend = "vault" /\ Counted("writes")
      /\ sent' = sent \cup {w} /\ kept' = [kept EXCEPT ![d] = None]
      /\ req' = [g EXCEPT ![r].pc = "vault"]
      /\ UNCHANGED <<server, token, vault, nebula, ops, wrapped, stable, gone>>
  BY <1>1, <1>2, <1>3 DEF VaultSend, Handles
<1>5. /\ ReqInv(r) /\ Types /\ req[r].ok = FALSE /\ ~Credential(req[r].q)
      /\ ~WrapKey(req[r].q) /\ ~Pkcs11Resource(req[r].q) /\ req[r].body = r
  BY <1>4, Handled, KindsDiffer DEF Turn, IndInv
<1>6. d \in Descs
  BY <1>1, <1>4, Handled DEF Resource, Descs
<1>7. w.desc = d /\ w.data = r
  BY <1>3, <1>5
<1>8. /\ g = [s \in Reqs |-> g[s]]
      /\ \A s \in Reqs :
            /\ Fields(g[s]) /\ g[s].want \in {None, req[s].want}
            /\ g[s].pc = req[s].pc /\ g[s].q = req[s].q /\ g[s].body = req[s].body
            /\ g[s].ok = req[s].ok /\ g[s].got = req[s].got /\ g[s].key = req[s].key
            /\ g[s].want # None => d # req[s].q.path
  BY <1>2, Forgets
<1> HIDE <1>2, <1>3
<1>9. /\ req' = [s \in Reqs |-> req'[s]] /\ \A s \in Reqs \ {r} : req'[s] = g[s]
      /\ Fields(req'[r]) /\ req'[r].pc = "vault" /\ req'[r].ok = g[r].ok
      /\ req'[r].q = g[r].q /\ req'[r].body = g[r].body
      /\ req'[r].want = g[r].want
  BY <1>4, <1>8 DEF Fields
<1>10. UNCHANGED <<config, boot, starts, late, ca, dir, child, making, stable, gone, wrapped,
                   vault, token, ops, starts>>
  BY <1>4 DEF server, nebula
<1>11. Frame
  BY <1>4, <1>8, <1>9, <1>10 DEF Frame
<1>12. ReqInv(r)'
  <2>1. Turn(r)'
    BY <1>4, <1>5, <1>8, <1>9, <1>10 DEF ReqInv, Turn, Pc, Named, Resource, WrapKey, Up
  <2>2. Credentials(r)'
    BY <1>4, <1>5, <1>8, <1>9, <1>10 DEF ReqInv, Credentials, Signer, Whole, Making, Credential
  <2>3. req'[r].want = None
    BY <1>1, <1>8, <1>9
  <2>4. Reads(r)' /\ Secrets(r)' /\ Wraps(r)'
    BY <1>5, <1>8, <1>9, <2>3 DEF Reads, Secrets, Wraps, WrapKey, Pkcs11Resource
  <2> QED BY <2>1, <2>2, <2>4 DEF ReqInv
<1>13. \A s \in Reqs \ {r} : Rests(s)
  BY <1>8, <1>9 DEF Rests
<1>14. kept \in [Descs -> Reqs \cup {None}] /\ kept'[d] = None
       /\ \A e \in Descs \ {d} : kept'[e] = kept[e]
  BY <1>4, <1>5, <1>6 DEF Types
<1>15. \A s \in Reqs \ {r} : req'[s].want # None /\ req[s].pc = "handle" =>
          kept'[req[s].q.path] = kept[req[s].q.path]
  <2> SUFFICES ASSUME NEW s \in Reqs \ {r}, req'[s].want # None, req[s].pc = "handle"
               PROVE  kept'[req[s].q.path] = kept[req[s].q.path]
    OBVIOUS
  <2>1. req[s].q.path \in Descs
    <3>1. req[s].want # None
      BY <1>8, <1>9
    <3>2. Resource(req[s].q) /\ req[s].q \in Queries
      BY <3>1, Handled DEF Reads
    <3> QED BY <3>2 DEF Resource, Descs
  <2>2. req[s].q.path # d
    BY <1>8, <1>9
  <2> QED BY <1>14, <2>1, <2>2
<1>16. Types'
  <2>1. kept' \in [Descs -> Reqs \cup {None}]
    BY <1>4, <1>5 DEF Types
  <2>2. \A x \in sent' : x.desc \in Descs /\ x.data \in Reqs
    BY <1>4, <1>5, <1>6, <1>7 DEF Types
  <2> QED BY <1>5, <1>9, <1>10, <2>1, <2>2 DEF Types, Up, VaultPaths, ObjectShape
<1>17. VaultInv'
  <2>1. ASSUME NEW e \in Descs, kept'[e] # None
        PROVE  vault'[VaultPath(e)] = Data(kept'[e]) /\ \A x \in sent' : x.desc # e
    BY <1>4, <1>7, <1>10, <1>14, <2>1 DEF IndInv, VaultInv
  <2>2. Plugin("resource")' = Plugin("resource")
    BY <1>10, PluginSame
  <2> QED BY <1>4, <2>1, <2>2 DEF VaultInv
<1>18. TokenInv' /\ PairInv'
  <2>1. TokenInv'
    BY <1>10, <1>11, TokenKept
  <2>2. \A s \in Reqs : req'[s].pc = "found" => req[s].pc = "found" /\ req'[s].key = req[s].key
    BY <1>8, <1>9
  <2> QED BY <1>10, <1>11, <2>1, <2>2, PairKept
<1>19. CountInv'
  <2>1. \A s \in Reqs \ {r} : req'[s].pc = req[s].pc
    BY <1>8, <1>9
  <2> QED BY <1>4, <1>9, <2>1, CountKept
<1>20. UNCHANGED <<server, nebula, gone>> /\ wrapped \subseteq wrapped' /\ (stable' => stable)
  BY <1>4, <1>10
<1> QED BY <1>11, <1>12, <1>13, <1>15, <1>16, <1>17, <1>18, <1>19, <1>20, Stores
\* The vault answers a write.
LEMMA VaultAnswers ==
  ASSUME IndInv, NEW r \in Reqs, req[r].pc = "vault", NEW ok \in BOOLEAN,
         req' = Answered(r, ok, None),
         UNCHANGED <<server, token, nebula, metric, ops, wrapped, stable, gone>>
  PROVE  /\ Frame /\ ReqInv(r)' /\ (\A s \in Reqs \ {r} : Rests(s))
         /\ TokenInv' /\ PairInv' /\ CountInv'
<1>1. /\ req = [s \in Reqs |-> req[s]] /\ Fields(req[r]) /\ ReqInv(r)
      /\ Resource(req[r].q) /\ req[r].q.method = "POST"
      /\ ~WrapKey(req[r].q) /\ ~Credential(req[r].q) /\ ~Pkcs11Resource(req[r].q)
  BY KindsDiffer DEF IndInv, Types, ReqInv, Turn
<1>2. /\ req' = [s \in Reqs |-> req'[s]] /\ \A s \in Reqs \ {r} : req'[s] = req[s]
      /\ Fields(req'[r]) /\ req'[r].pc = "done" /\ req'[r].ok = ok
      /\ req'[r].q = req[r].q /\ req'[r].body = req[r].body
      /\ req'[r].want = req[r].want
  BY <1>1, Answers
<1>3. UNCHANGED <<config, boot, starts, late, ca, dir, child, making, stable, gone, wrapped,
                  token, metric, ops, starts>>
  BY DEF server, nebula
<1>4. Frame
  BY <1>2, <1>3 DEF Frame
<1>5. ReqInv(r)'
  <2>1. Turn(r)'
    BY <1>1, <1>2, <1>3 DEF ReqInv, Turn, Pc, Named, WrapKey
  <2>2. Credentials(r)'
    BY <1>1, <1>2, <1>3 DEF ReqInv, Credentials, Signer, Whole, Making, Credential
  <2>3. Reads(r)' /\ Secrets(r)' /\ Wraps(r)'
    BY <1>1, <1>2, <1>3 DEF ReqInv, Reads, Secrets, Wraps, WrapKey, Pkcs11Resource
  <2> QED BY <2>1, <2>2, <2>3 DEF ReqInv
<1>6. \A s \in Reqs \ {r} : Rests(s)
  BY <1>2 DEF Rests, IndInv, ReqInv, Turn
<1>7. TokenInv'
  BY <1>3, <1>4, TokenKept
<1>8. PairInv'
  BY <1>2, <1>3, <1>4, PairKept
<1>9. CountInv'
  BY <1>2, <1>3, CountKept
<1> QED BY <1>4, <1>5, <1>6, <1>7, <1>8, <1>9

\* Nobody is answered.
LEMMA NobodyMoves ==
  ASSUME IndInv, UNCHANGED <<config, req, token, metric, wrapped, stable>>
  PROVE  /\ Frame /\ (\A s \in Reqs : Rests(s))
         /\ TokenInv' /\ PairInv' /\ CountInv'
<1>1. Frame
  BY DEF Frame, IndInv, Types
<1>2. \A s \in Reqs : Rests(s)
  BY DEF Rests, IndInv, ReqInv, Turn
<1>3. TokenInv'
  BY <1>1, TokenKept
<1>4. PairInv'
  BY <1>1, PairKept
<1>5. CountInv'
  BY CountSame
<1> QED BY <1>1, <1>2, <1>3, <1>4, <1>5

\* A write arrives at the vault.
LEMMA VaultSets ==
  ASSUME IndInv, NEW w \in sent, VaultSet(w)
  PROVE  IndInv'
<1>1. PICK d, r : d = w.desc /\ r = w.data
  OBVIOUS
<1>2. /\ Types /\ VaultInv /\ d \in Descs /\ r \in Reqs /\ kept[d] = None
      /\ Plugin("resource").backend = "vault"
  BY <1>1 DEF IndInv, Types, VaultInv
<1>3. /\ vault' = [vault EXCEPT ![VaultPath(d)] = Data(r)] /\ sent' = sent \ {w}
      /\ UNCHANGED <<server, token, nebula, metric, ops, wrapped, stable, gone>>
  BY <1>1 DEF VaultSet
<1>4. UNCHANGED <<config, boot, starts, late, ca, dir, child, making, stable, gone, wrapped,
                  token, metric, ops, starts>>
  BY <1>3 DEF server, nebula
<1>5. \/ req[r].pc = "vault" /\ req' = Answered(r, TRUE, None)
      \/ UNCHANGED req
  BY <1>1 DEF VaultSet
<1>6. /\ kept' \in [Descs -> Reqs \cup {None}]
      /\ \A e \in Descs \ {d} : kept'[e] = kept[e]
      /\ kept'[d] \in {None, r}
      /\ kept'[d] # None => \A x \in sent' : x.desc # d
  <2>1. \/ UNCHANGED kept
        \/ kept' = [kept EXCEPT ![d] = IF \E x \in sent' : x.desc = d THEN None ELSE r]
    BY <1>1 DEF VaultSet
  <2>2. kept \in [Descs -> Reqs \cup {None}]
    BY <1>2 DEF Types
  <2>3. CASE UNCHANGED kept
    BY <1>2, <2>2, <2>3
  <2>4. CASE kept' = [kept EXCEPT ![d] = IF \E x \in sent' : x.desc = d THEN None ELSE r]
    BY <1>2, <2>2, <2>4
  <2> QED BY <2>1, <2>3, <2>4
<1>7. /\ vault' \in [VaultPaths -> Record]
      /\ vault'[VaultPath(d)] = Data(r)
      /\ \A e \in Descs \ {d} : vault'[VaultPath(e)] = vault[VaultPath(e)]
  BY <1>2, <1>3 DEF Types, Record, VaultPaths, VaultPath
<1>8. VaultInv'
  <2>1. ASSUME NEW e \in Descs, kept'[e] # None
        PROVE  vault'[VaultPath(e)] = Data(kept'[e]) /\ \A x \in sent' : x.desc # e
    <3>1. CASE e = d
      BY <1>6, <1>7, <2>1, <3>1
    <3>2. CASE e # d
      <4>1. kept'[e] = kept[e] /\ vault'[VaultPath(e)] = vault[VaultPath(e)]
        BY <1>6, <1>7, <3>2
      <4>2. vault[VaultPath(e)] = Data(kept[e]) /\ \A x \in sent : x.desc # e
        BY <1>2, <2>1, <4>1 DEF VaultInv
      <4> QED BY <1>3, <4>1, <4>2
    <3> QED BY <3>1, <3>2
  <2>2. Plugin("resource")' = Plugin("resource")
    BY <1>4, PluginSame
  <2> QED BY <1>2, <2>1, <2>2 DEF VaultInv
<1>9. \A s \in Reqs : req'[s].want # None /\ req[s].pc = "handle" /\ Rests(s) =>
          kept'[req[s].q.path] = kept[req[s].q.path]
  <2> SUFFICES ASSUME NEW s \in Reqs, req'[s].want # None, req[s].pc = "handle", Rests(s)
               PROVE  kept'[req[s].q.path] = kept[req[s].q.path]
    OBVIOUS
  <2>1. req[s].want # None
    BY DEF Rests
  <2>2. Resource(req[s].q) /\ req[s].q \in Queries /\ req[s].want = kept[req[s].q.path]
    BY <2>1, Handled DEF Reads
  <2>3. req[s].q.path \in Descs
    BY <2>2 DEF Resource, Descs
  <2> QED BY <1>2, <1>6, <2>1, <2>2, <2>3
<1>10. /\ Frame /\ \A s \in Reqs : ReqInv(s)' \/ Rests(s)
       /\ TokenInv' /\ PairInv' /\ CountInv'
  <2>1. CASE UNCHANGED req
    BY <1>4, <2>1, NobodyMoves
  <2>2. CASE req[r].pc = "vault" /\ req' = Answered(r, TRUE, None)
    BY <1>2, <1>3, <2>2, VaultAnswers
  <2> QED BY <1>5, <2>1, <2>2
<1>11. Types'
  <2>1. req' = [s \in Reqs |-> req'[s]]
    BY <1>10 DEF Frame
  <2> QED BY <1>2, <1>3, <1>4, <1>6, <1>7, <2>1 DEF Types, Up, VaultPaths, ObjectShape
<1> HIDE <1>1
<1> QED BY <1>3, <1>8, <1>9, <1>10, <1>11, Stores

\* A write is lost.
LEMMA VaultLoses ==
  ASSUME IndInv, NEW w \in sent, VaultSetFails(w)
  PROVE  IndInv'
<1>1. PICK r : r = w.data
  OBVIOUS
<1>2. Types /\ VaultInv /\ r \in Reqs
  BY <1>1 DEF IndInv, Types
<1>3. /\ sent' = sent \ {w}
      /\ UNCHANGED <<server, token, vault, nebula, metric, world>>
  BY DEF VaultSetFails
<1>4. UNCHANGED <<config, boot, starts, late, ca, dir, child, making, stable, gone, wrapped,
                  token, metric, ops, starts, kept, vault>>
  BY <1>3 DEF server, nebula, world
<1>5. \/ req[r].pc = "vault" /\ req' = Answered(r, FALSE, None)
      \/ UNCHANGED req
  BY <1>1 DEF VaultSetFails
<1>6. VaultInv'
  BY <1>2, <1>3, <1>4, PluginSame DEF VaultInv
<1>7. /\ Frame /\ \A s \in Reqs : ReqInv(s)' \/ Rests(s)
      /\ TokenInv' /\ PairInv' /\ CountInv'
  <2>1. CASE UNCHANGED req
    BY <1>4, <2>1, NobodyMoves
  <2>2. CASE req[r].pc = "vault" /\ req' = Answered(r, FALSE, None)
    BY <1>2, <1>3, <1>4, <2>2, VaultAnswers
  <2> QED BY <1>5, <2>1, <2>2
<1>8. Types'
  <2>1. req' = [s \in Reqs |-> req'[s]]
    BY <1>7 DEF Frame
  <2> QED BY <1>2, <1>3, <1>4, <2>1 DEF Types, Up, VaultPaths, ObjectShape
<1> QED BY <1>3, <1>4, <1>6, <1>7, <1>8, Stores
\* The operator writes a record of its own.
LEMMA RecordChanges ==
  ASSUME IndInv, NEW d \in Descs, ChangeRecord(d)
  PROVE  IndInv'
<1>1. /\ vault' = [vault EXCEPT ![VaultPath(d)] = NoData]
      /\ kept' = [kept EXCEPT ![d] = None] /\ req' = Forget(d, req)
      /\ ops < MaxOps /\ ops' = ops + 1
      /\ UNCHANGED <<server, token, sent, nebula, metric, wrapped, stable, gone>>
  BY DEF ChangeRecord
<1>2. Types /\ VaultInv
  BY DEF IndInv
<1>3. UNCHANGED <<config, boot, starts, late, ca, dir, child, making, stable, gone, wrapped,
                  token, metric, starts, sent>>
  BY <1>1 DEF server, nebula
<1>4. PICK g : g = Forget(d, req)
  OBVIOUS
<1>5. /\ g = [s \in Reqs |-> g[s]]
      /\ \A s \in Reqs :
            /\ Fields(g[s]) /\ g[s].want \in {None, req[s].want}
            /\ g[s].pc = req[s].pc /\ g[s].q = req[s].q /\ g[s].body = req[s].body
            /\ g[s].ok = req[s].ok /\ g[s].got = req[s].got /\ g[s].key = req[s].key
            /\ g[s].want # None => d # req[s].q.path
  BY <1>4, Forgets
<1>6. req' = g
  BY <1>1, <1>4
<1> HIDE <1>4
<1>7. Frame
  BY <1>3, <1>5, <1>6 DEF Frame
<1>8. \A s \in Reqs : Rests(s)
  BY <1>5, <1>6 DEF Rests
<1>9. /\ kept' \in [Descs -> Reqs \cup {None}] /\ kept'[d] = None
      /\ \A e \in Descs \ {d} : kept'[e] = kept[e]
  BY <1>1, <1>2 DEF Types
<1>10. \A s \in Reqs : req'[s].want # None /\ req[s].pc = "handle" =>
          kept'[req[s].q.path] = kept[req[s].q.path]
  <2> SUFFICES ASSUME NEW s \in Reqs, req'[s].want # None, req[s].pc = "handle"
               PROVE  kept'[req[s].q.path] = kept[req[s].q.path]
    OBVIOUS
  <2>1. req[s].want # None /\ req[s].q.path # d
    BY <1>5, <1>6
  <2>2. Resource(req[s].q) /\ req[s].q \in Queries
    BY <2>1, Handled DEF Reads
  <2>3. req[s].q.path \in Descs
    BY <2>2 DEF Resource, Descs
  <2> QED BY <1>9, <2>1, <2>3
<1>11. /\ vault' \in [VaultPaths -> Record]
       /\ \A e \in Descs \ {d} : vault'[VaultPath(e)] = vault[VaultPath(e)]
  BY <1>1, <1>2 DEF Types, Record, VaultPaths, VaultPath
<1>12. VaultInv'
  <2>1. ASSUME NEW e \in Descs, kept'[e] # None
        PROVE  vault'[VaultPath(e)] = Data(kept'[e]) /\ \A x \in sent' : x.desc # e
    <3>1. /\ e # d /\ kept'[e] = kept[e] /\ vault'[VaultPath(e)] = vault[VaultPath(e)]
      BY <1>9, <1>11, <2>1
    <3> QED BY <1>2, <1>3, <2>1, <3>1 DEF VaultInv
  <2>2. Plugin("resource")' = Plugin("resource")
    BY <1>3, PluginSame
  <2>3. (\E e \in Descs : kept'[e] # None) => \E e \in Descs : kept[e] # None
    BY <1>9
  <2> QED BY <1>2, <1>3, <2>1, <2>2, <2>3 DEF VaultInv
<1>13. Types'
  BY <1>1, <1>2, <1>3, <1>7, <1>9, <1>11, PluginAssumption
     DEF Types, Up, VaultPaths, ObjectShape, Frame
<1>14. TokenInv' /\ PairInv' /\ CountInv'
  <2>1. TokenInv'
    BY <1>3, <1>7, TokenKept
  <2>2. \A s \in Reqs : req'[s].pc = req[s].pc /\ req'[s].key = req[s].key
    BY <1>5, <1>6
  <2>3. PairInv'
    BY <1>3, <1>7, <2>2, PairKept
  <2>4. CountInv'
    BY <1>3, <2>2, CountSame
  <2> QED BY <2>1, <2>3, <2>4
<1> QED BY <1>1, <1>3, <1>7, <1>8, <1>10, <1>12, <1>13, <1>14, Stores

\* The operator changes the keys in the token.
LEMMA KeysChange ==
  ASSUME IndInv, ChangeKeys
  PROVE  IndInv'
<1>1. /\ ops < MaxOps /\ ops' = ops + 1 /\ stable' = FALSE
      /\ UNCHANGED <<server, vault, sent, nebula, req, metric, kept, wrapped, gone>>
  BY DEF ChangeKeys
<1>2. Types /\ VaultInv /\ TokenInv
  BY DEF IndInv
<1>3. UNCHANGED <<config, boot, starts, late, ca, dir, child, making, gone, wrapped, kept, vault,
                  metric, starts, sent, req>>
  BY <1>1 DEF server, nebula
<1>4. Frame /\ \A s \in Reqs : Rests(s)
  BY <1>2, <1>3 DEF Frame, Types, Rests, IndInv, ReqInv, Turn
<1>5. \A o \in token' : o \in token \/ (ObjectShape(o) /\ o.class # "secret")
  <2>1. PICK l, v : l = Plugin("pkcs11").label /\ v = 100 + ops
    OBVIOUS
  <2>2. CASE \E o \in token : o.class # "secret" /\ token' = token \ {o}
    BY <2>2
  <2>3. CASE token' = token \cup
                {[label |-> l, class |-> class, value |-> v, session |-> FALSE] :
                    class \in {"public", "private"}}
    <3> SUFFICES ASSUME NEW o \in token', o \notin token
                 PROVE  ObjectShape(o) /\ o.class # "secret"
      OBVIOUS
    <3>1. PICK class \in {"public", "private"} :
             o = [label |-> l, class |-> class, value |-> v, session |-> FALSE]
      BY <2>3
    <3>2. o.class = class /\ o.session = FALSE
      BY <3>1
    <3> HIDE <3>1
    <3> QED BY <3>2 DEF ObjectShape
  <2> QED BY <2>1, <2>2, <2>3 DEF ChangeKeys
<1>6. TokenInv'
  BY <1>2, <1>4, <1>5 DEF TokenInv, Sent, Frame, Imported
<1>7. Types'
  BY <1>1, <1>2, <1>3, <1>5, PluginAssumption DEF Types, Up, VaultPaths, ObjectShape
<1>8. VaultInv' /\ CountInv' /\ PairInv'
  <2>1. VaultInv'
    BY <1>2, <1>3, PluginSame DEF VaultInv
  <2>2. CountInv'
    BY <1>3, CountSame
  <2>3. PairInv'
    BY <1>1 DEF PairInv
  <2> QED BY <2>1, <2>2, <2>3
<1> QED BY <1>1, <1>3, <1>4, <1>6, <1>7, <1>8, Stores

-----------------------------------------------------------------------------
(* Credentials *)

\* A directory and its child as they are at first and at the end.
LEMMA NothingLeft == NoDir \in Dir /\ NoChild \in Child
BY DEF NoDir, Dir, NoChild, Child

\* A child is spawned, with the CA as it is.
LEMMA Signs ==
  ASSUME IndInv, NEW r \in Reqs, Sign(r)
  PROVE  IndInv'
<1>1. /\ req[r].pc = "handle" /\ Credential(req[r].q)
      /\ req' = [req EXCEPT ![r].pc = "signing"]
      /\ UNCHANGED <<server, store, ca, making, metric, world>>
  BY DEF Sign
<1>2. PICK n : n = IF ca["crt"] = None THEN None ELSE ca["key"]
  OBVIOUS
<1>3. PICK e : e = [NoDir EXCEPT !.state = "open"]
  OBVIOUS
<1>4. PICK c : c = [run |-> TRUE, left |-> Files, ca |-> n]
  OBVIOUS
<1>5. dir' = [dir EXCEPT ![r] = e] /\ child' = [child EXCEPT ![r] = c]
  BY <1>2, <1>3, <1>4 DEF Sign
<1>6. /\ Types /\ CaInv /\ ReqInv(r) /\ Fields(req[r]) /\ req[r].ok = FALSE
      /\ req = [s \in Reqs |-> req[s]] /\ req[r].want = None
      /\ ~Resource(req[r].q) /\ ~WrapKey(req[r].q)
  BY <1>1, Handled, KindsDiffer DEF Reads, IndInv
<1>7. n \in Ca \cup {None} /\ (n # None => Signer(n, TRUE))
  BY <1>2, <1>6 DEF Types, Signer, Files
<1>8. e \in Dir /\ e.state = "open" /\ e.key = None /\ e.crt = None
  BY <1>3 DEF NoDir, Dir
<1>9. c \in Child /\ c.run = TRUE /\ c.ca = n
  BY <1>4, <1>7 DEF Child
<1> HIDE <1>2, <1>3, <1>4
<1>10. /\ dir' \in [Reqs -> Dir] /\ child' \in [Reqs -> Child]
       /\ dir'[r] = e /\ child'[r] = c
       /\ \A s \in Reqs \ {r} : dir'[s] = dir[s] /\ child'[s] = child[s]
  BY <1>5, <1>6, <1>8, <1>9 DEF Types
<1>11. /\ req' = [s \in Reqs |-> req'[s]] /\ \A s \in Reqs \ {r} : req'[s] = req[s]
       /\ Fields(req'[r]) /\ req'[r].pc = "signing" /\ req'[r].ok = FALSE
       /\ req'[r].q = req[r].q /\ req'[r].body = req[r].body /\ req'[r].want = None
  BY <1>1, <1>6, GoesOn
<1>12. UNCHANGED <<config, boot, ca, gone, late, starts, making>>
  BY <1>1 DEF server, world
<1>13. Turn(r)'
  <2>1. child'[r].run /\ Credential(req'[r].q) /\ ~WrapKey(req'[r].q)
    BY <1>1, <1>6, <1>9, <1>10, <1>11 DEF Credential, WrapKey
  <2>2. boot' = Up'
    BY <1>1, <1>6, <1>12 DEF ReqInv, Turn, Up
  <2>3. req'[r].q \in Queries /\ Named(req[r].q.plugin)' # {} /\ req'[r].body = r
    <3>1. req[r].q \in Queries /\ Named(req[r].q.plugin) # {} /\ req[r].body = r
      BY <1>1, <1>6 DEF ReqInv, Turn
    <3> QED BY <1>11, <1>12, <3>1 DEF Named
  <2> QED BY <1>11, <2>1, <2>2, <2>3 DEF Turn, Pc, Credential, WrapKey
<1>14. Credentials(r)'
  BY <1>7, <1>8, <1>9, <1>10, <1>11, <1>12 DEF Credentials, Signer, Whole, Making
<1>15. Reads(r)' /\ Secrets(r)' /\ Wraps(r)'
  BY <1>11 DEF Reads, Secrets, Wraps
<1> QED BY <1>1, <1>10, <1>11, <1>13, <1>14, <1>15, Moves DEF ReqInv
\* The request of a credential goes on or ends, or a handler is dropped: what
\* is left to show.
LEMMA SigningMoves ==
  ASSUME IndInv, NEW r \in Reqs, UNCHANGED <<server, store, ca, making, metric, world>>,
         req[r].pc \in {"vault", "found", "signing", "verify", "read"},
         req' = [s \in Reqs |-> req'[s]], \A s \in Reqs \ {r} : req'[s] = req[s],
         Fields(req'[r]), req'[r].pc \in {"verify", "read", "done", "dropped"},
         req'[r].pc # "dropped" => Credential(req[r].q),
         req'[r].q = req[r].q, req'[r].body = req[r].body, req'[r].want = req[r].want,
         req'[r].ok \in BOOLEAN, req'[r].ok = TRUE => req'[r].pc = "done",
         req'[r].pc \in {"verify", "read"} => child'[r].run = FALSE,
         dir' \in [Reqs -> Dir], child' \in [Reqs -> Child],
         \A s \in Reqs \ {r} : dir'[s] = dir[s] /\ child'[s] = child[s],
         Credentials(r)'
  PROVE  IndInv'
<1>1. ReqInv(r) /\ UNCHANGED <<config, boot, kept>>
  BY DEF IndInv, server, world
<1>2. Turn(r)'
  <2>1. /\ req'[r].q \in Queries /\ Named(req[r].q.plugin)' # {} /\ boot' = Up'
        /\ ~(WrapKey(req[r].q) /\ req[r].q.method = "GET") => req'[r].body = r
    <3>1. /\ req[r].q \in Queries /\ Named(req[r].q.plugin) # {} /\ boot = Up
          /\ ~(WrapKey(req[r].q) /\ req[r].q.method = "GET") => req[r].body = r
      BY <1>1 DEF ReqInv, Turn
    <3> QED BY <1>1, <3>1 DEF Named, Up
  <2> QED BY <2>1 DEF Turn, Pc, Credential, WrapKey
<1>3. Reads(r)'
  <2>1. req[r].pc = "vault" \/ req[r].pc = "found" \/ Credential(req[r].q)
    BY <1>1 DEF ReqInv, Turn
  <2>2. req[r].want # None => Resource(req[r].q) /\ req[r].q.method = "GET"
    BY <1>1 DEF ReqInv, Reads
  <2>3. req[r].want = None
    BY <1>1, <2>1, <2>2, KindsDiffer DEF ReqInv, Turn
  <2> QED BY <2>3 DEF Reads
<1>4. Secrets(r)' /\ Wraps(r)'
  BY KindsDiffer DEF Secrets, Wraps, Credential, WrapKey, Pkcs11Resource
<1> QED BY <1>2, <1>3, <1>4, Moves DEF ReqInv

\* A credential is refused and its directory removed.
LEMMA CredentialEnds ==
  ASSUME IndInv, NEW r \in Reqs, req[r].pc \in {"signing", "verify", "read"},
         UNCHANGED <<server, store, ca, making, metric, world>>, CredentialFails(r),
         child' \in [Reqs -> Child], \A s \in Reqs \ {r} : child'[s] = child[s],
         child'[r] \in {NoChild, child[r]}
  PROVE  IndInv'
<1>1. /\ req = [s \in Reqs |-> req[s]] /\ Fields(req[r]) /\ ReqInv(r) /\ Types
      /\ Credential(req[r].q)
  BY DEF IndInv, Types, ReqInv, Turn
<1>2. /\ req' = [s \in Reqs |-> req'[s]] /\ \A s \in Reqs \ {r} : req'[s] = req[s]
      /\ Fields(req'[r]) /\ req'[r].pc = "done" /\ req'[r].ok = FALSE
      /\ req'[r].q = req[r].q /\ req'[r].body = req[r].body
      /\ req'[r].want = req[r].want
  BY <1>1, Answers DEF CredentialFails
<1>3. /\ dir' \in [Reqs -> Dir] /\ dir'[r] = NoDir
      /\ \A s \in Reqs \ {r} : dir'[s] = dir[s]
  BY <1>1, NothingLeft DEF CredentialFails, Removed, Types
<1>4. UNCHANGED <<ca, gone, late, starts, making>>
  BY DEF server, world
<1>5. Credentials(r)'
  <2>1. NoDir.state = "none" /\ NoDir.key = None /\ NoDir.crt = None
    BY DEF NoDir
  <2>2. child'[r].ca # None => Signer(child[r].ca, FALSE) /\ child'[r].ca = child[r].ca
    BY <1>1 DEF ReqInv, Credentials, NoChild, Signer
  <2> QED BY <1>2, <1>3, <1>4, <2>1, <2>2 DEF Credentials, Signer, Whole, Making
<1> QED BY <1>1, <1>2, <1>3, <1>5, SigningMoves

\* The certificate is verified.
LEMMA Verifies ==
  ASSUME IndInv, NEW r \in Reqs, Verify(r)
  PROVE  IndInv'
<1>1. /\ req[r].pc = "verify"
      /\ UNCHANGED <<server, store, ca, making, child, metric, world>>
  BY DEF Verify
<1>2. /\ req = [s \in Reqs |-> req[s]] /\ Fields(req[r]) /\ ReqInv(r) /\ Types
      /\ Credential(req[r].q) /\ child[r] \in Child /\ child[r].run \in BOOLEAN
      /\ child[r].run = FALSE /\ req[r].ok = FALSE
  <2>1. child[r] \in Child
    BY DEF IndInv, Types
  <2>2. child[r].run \in BOOLEAN
    BY <2>1 DEF Child
  <2> QED BY <1>1, <2>1, <2>2 DEF IndInv, Types, ReqInv, Turn
<1>3. child' \in [Reqs -> Child] /\ child' = child
  BY <1>1, <1>2 DEF Types
<1>4. CASE CredentialFails(r)
  BY <1>1, <1>3, <1>4, CredentialEnds
<1>5. CASE /\ dir[r].crt # None /\ ca["crt"] # None /\ dir[r].crt.ca = ca["crt"]
           /\ req' = [req EXCEPT ![r].pc = "read"] /\ UNCHANGED dir
  <2>1. /\ req' = [s \in Reqs |-> req'[s]] /\ \A s \in Reqs \ {r} : req'[s] = req[s]
        /\ Fields(req'[r]) /\ req'[r].pc = "read" /\ req'[r].ok = FALSE
        /\ req'[r].q = req[r].q /\ req'[r].body = req[r].body
        /\ req'[r].want = req[r].want
    BY <1>2, <1>5, GoesOn
  <2>2. dir' \in [Reqs -> Dir] /\ UNCHANGED <<gone, late, starts, making>>
    BY <1>1, <1>2, <1>5 DEF Types, server, world
  <2>3. Whole(dir[r].crt.ca)
    <3>1. /\ ca["key"] = dir[r].crt.ca \/ <<"key", dir[r].crt.ca>> \in gone
          /\ ca["key"] \in {None, dir[r].crt.ca} \cup late
      BY <1>1, <1>2, <1>5 DEF ReqInv, Credentials, Signer
    <3>2. ~Making
      BY <1>1, <1>2, UpIsUp DEF IndInv, CaInv, ReqInv, Turn, Initialising, Making
    <3> QED BY <1>5, <3>1, <3>2 DEF Whole, Files
  <2>4. Whole(dir[r].crt.ca)'
    BY <1>1, <1>5, <2>2, <2>3 DEF Whole, Making
  <2>5. Credentials(r)'
    BY <1>1, <1>2, <1>5, <2>1, <2>2, <2>4 DEF ReqInv, Credentials, Signer
  <2> QED BY <1>1, <1>2, <1>3, <1>5, <2>1, <2>2, <2>5, SigningMoves
<1> QED BY <1>4, <1>5 DEF Verify

\* A credential is handed out.
LEMMA Delivers ==
  ASSUME IndInv, NEW r \in Reqs, Deliver(r)
  PROVE  IndInv'
<1>1. /\ req[r].pc = "read"
      /\ UNCHANGED <<server, store, ca, making, child, metric, world>>
  BY DEF Deliver
<1>2. /\ req = [s \in Reqs |-> req[s]] /\ Fields(req[r]) /\ ReqInv(r) /\ Types
      /\ Credential(req[r].q) /\ dir[r] \in Dir
  BY <1>1 DEF IndInv, Types, ReqInv, Turn
<1>3. child' \in [Reqs -> Child] /\ child' = child
  BY <1>1, <1>2 DEF Types
<1>4. CASE CredentialFails(r)
  BY <1>1, <1>3, <1>4, CredentialEnds
<1>5. CASE /\ ca["crt"] # None /\ NodeKey(r) # None /\ dir[r].crt # None
           /\ req' = Answered(r, TRUE, [crt |-> dir[r].crt, key |-> NodeKey(r),
                                        ca |-> ca["crt"]])
           /\ dir' = Removed(r)
  <2>1. PICK c : c = [crt |-> dir[r].crt, key |-> NodeKey(r), ca |-> ca["crt"]]
    OBVIOUS
  <2>2. /\ req' = [s \in Reqs |-> req'[s]] /\ \A s \in Reqs \ {r} : req'[s] = req[s]
        /\ Fields(req'[r]) /\ req'[r].pc = "done" /\ req'[r].ok = TRUE
        /\ req'[r].got = c
        /\ req'[r].q = req[r].q /\ req'[r].body = req[r].body
        /\ req'[r].want = req[r].want
    BY <1>2, <1>5, <2>1, Answers
  <2>3. /\ dir' \in [Reqs -> Dir] /\ dir'[r] = NoDir
        /\ \A s \in Reqs \ {r} : dir'[s] = dir[s]
    BY <1>2, <1>5, NothingLeft DEF Removed, Types
  <2>4. /\ c.key = r /\ c.crt.name = r /\ (c.crt.ca = c.ca \/ c.ca \in late)
        /\ c.crt.ca \in Ca /\ Whole(c.crt.ca)
    <3>1. c.crt = dir[r].crt /\ c.key = dir[r].key /\ c.ca = ca["crt"]
      BY <2>1 DEF NodeKey
    <3>2. /\ dir[r].key = r /\ dir[r].crt.name = r /\ Whole(dir[r].crt.ca)
          /\ ca["crt"] \in {dir[r].crt.ca} \cup late
      BY <1>1, <1>2, <1>5 DEF ReqInv, Credentials, NodeKey
    <3>3. dir[r].crt.ca \in Ca
      BY <1>2, <1>5 DEF Dir
    <3> QED BY <3>1, <3>2, <3>3
  <2>5. UNCHANGED <<ca, gone, late, starts, making>>
    BY <1>1 DEF server, world
  <2>6. Credentials(r)'
    <3>1. NoDir.state = "none" /\ NoDir.key = None /\ NoDir.crt = None
      BY DEF NoDir
    <3>2. child[r].ca # None => Signer(child[r].ca, FALSE)
      BY <1>2 DEF ReqInv, Credentials, Signer
    <3> HIDE <2>1
    <3> QED BY <1>3, <2>2, <2>3, <2>4, <2>5, <3>1, <3>2 DEF Credentials, Signer, Whole, Making
  <2> QED BY <1>1, <1>2, <1>3, <2>2, <2>3, <2>6, SigningMoves
<1> QED BY <1>4, <1>5 DEF Deliver
\* Only the directory of a request and its child change: what is left to show.
LEMMA FilesMove ==
  ASSUME IndInv, NEW r \in Reqs,
         UNCHANGED <<server, store, ca, making, req, metric, world>>,
         dir' \in [Reqs -> Dir], child' \in [Reqs -> Child],
         \A s \in Reqs \ {r} : dir'[s] = dir[s] /\ child'[s] = child[s],
         req[r].pc = "signing" => child'[r].run = TRUE,
         req[r].pc \in {"verify", "read"} => child'[r].run = FALSE,
         Credentials(r)'
  PROVE  IndInv'
<1>1. UNCHANGED <<config, boot, starts, late, token, vault, sent, ops, kept, wrapped,
                  stable, gone, ca, making, req, metric>>
  BY DEF server, store, world
<1>2. /\ Types /\ (\A s \in Reqs : ReqInv(s)) /\ CaInv /\ VaultInv
  BY DEF IndInv
<1>3. /\ Frame /\ (\A s \in Reqs : Rests(s)) /\ TokenInv' /\ PairInv' /\ CountInv'
  BY <1>1, NobodyMoves
<1>4. CaGrows
  BY <1>1 DEF CaGrows, Signer, Whole, Making
<1>5. ASSUME NEW s \in Reqs, s # r PROVE ReqInv(s)'
  BY <1>1, <1>3, <1>4, <1>5, Stays
<1>6. ReqInv(r)'
  <2>1. Turn(r)'
    BY <1>1, <1>2 DEF ReqInv, Turn, Up, Named
  <2>2. Reads(r)' /\ Secrets(r)' /\ Wraps(r)'
    BY <1>1, <1>2 DEF ReqInv, Reads, Secrets, Wraps, Sent, Imported
  <2> QED BY <2>1, <2>2 DEF ReqInv
<1>7. Types'
  BY <1>1, <1>2 DEF Types, Up, ObjectShape, VaultPaths
<1>8. CaInv'
  BY <1>1, <1>2 DEF CaInv, Initialising, Making
<1>9. VaultInv'
  BY <1>1, <1>2, PluginSame DEF VaultInv
<1> QED BY <1>3, <1>5, <1>6, <1>7, <1>8, <1>9 DEF IndInv

\* nebula-cert writes a file.
LEMMA Writes ==
  ASSUME IndInv, NEW r \in Reqs, NEW f \in Files, SignWrites(r, f)
  PROVE  IndInv'
<1>1. /\ child[r].run /\ child[r].ca # None /\ dir[r].state # "none"
      /\ child' = [child EXCEPT ![r].left = @ \ {f}]
      /\ UNCHANGED <<server, store, ca, making, req, metric, world>>
  BY DEF SignWrites
<1>2. /\ Types /\ ReqInv(r) /\ dir[r] \in Dir /\ child[r] \in Child
  BY DEF IndInv, Types
<1>3. /\ child' \in [Reqs -> Child] /\ child'[r].run = TRUE /\ child'[r].ca = child[r].ca
      /\ \A s \in Reqs \ {r} : child'[s] = child[s]
  BY <1>1, <1>2 DEF Types, Child
<1>4. PICK k, c : k = r /\ c = [name |-> r, ca |-> child[r].ca]
  OBVIOUS
<1>5. c \in [name : Reqs, ca : Ca] /\ c.name = r /\ c.ca = child[r].ca
      /\ Signer(child[r].ca, req[r].pc = "signing")
  BY <1>1, <1>2, <1>4 DEF Child, ReqInv, Credentials
<1>6. /\ dir' \in [Reqs -> Dir] /\ \A s \in Reqs \ {r} : dir'[s] = dir[s]
      /\ dir'[r].state = dir[r].state
      /\ dir'[r].key \in {dir[r].key, r} /\ dir'[r].crt \in {dir[r].crt, c}
  <2>1. CASE f = "key"
    <3>1. dir' = [dir EXCEPT ![r].key = r]
      BY <1>1, <2>1 DEF SignWrites
    <3> QED BY <1>2, <3>1 DEF Types, Dir
  <2>2. CASE f = "crt"
    <3>1. dir' = [dir EXCEPT ![r].crt = c]
      BY <1>4, <2>2 DEF SignWrites
    <3> HIDE <1>4
    <3> QED BY <1>2, <1>5, <3>1 DEF Types, Dir
  <2> QED BY <2>1, <2>2 DEF Files
<1> HIDE <1>4
<1>7. req[r].pc \notin {"verify", "read"}
  BY <1>1, <1>2 DEF ReqInv, Turn
<1>8. UNCHANGED <<ca, gone, req, late, starts, making>>
  BY <1>1 DEF server, world
<1>9. Credentials(r)'
  BY <1>2, <1>3, <1>5, <1>6, <1>7, <1>8 DEF ReqInv, Credentials, Signer, Whole, Making
<1> QED BY <1>1, <1>3, <1>6, <1>7, <1>9, FilesMove

\* A directory is removed, or stays.
LEMMA Removes ==
  ASSUME IndInv, NEW r \in Reqs, RemoveDir(r)
  PROVE  IndInv'
<1>1. /\ dir[r].state = "removing"
      /\ UNCHANGED <<server, store, ca, making, child, req, metric, world>>
  BY DEF RemoveDir
<1>2. /\ Types /\ ReqInv(r) /\ dir[r] \in Dir /\ req[r].pc = "dropped"
  BY <1>1 DEF IndInv, Types, ReqInv, Credentials
<1>3. UNCHANGED <<ca, gone, req, child, late, starts, making>> /\ child' \in [Reqs -> Child]
  BY <1>1, <1>2 DEF server, world, Types
<1>4. CASE dir' = [dir EXCEPT ![r] = NoDir]
  <2>1. /\ dir' \in [Reqs -> Dir] /\ dir'[r] = NoDir
        /\ \A s \in Reqs \ {r} : dir'[s] = dir[s]
    BY <1>2, <1>4, NothingLeft DEF Types
  <2>2. NoDir.state = "none" /\ NoDir.key = None /\ NoDir.crt = None
    BY DEF NoDir
  <2>3. Credentials(r)'
    BY <1>2, <1>3, <2>1, <2>2 DEF ReqInv, Credentials, Signer, Whole, Making
  <2> QED BY <1>1, <1>2, <1>3, <2>1, <2>3, FilesMove
<1>5. CASE dir' = [dir EXCEPT ![r].state = "left"]
  <2>1. /\ dir' \in [Reqs -> Dir] /\ dir'[r].state = "left"
        /\ dir'[r].key = dir[r].key /\ dir'[r].crt = dir[r].crt
        /\ \A s \in Reqs \ {r} : dir'[s] = dir[s]
    BY <1>2, <1>5 DEF Types, Dir
  <2>2. Credentials(r)'
    BY <1>2, <1>3, <2>1 DEF ReqInv, Credentials, Signer, Whole, Making
  <2> QED BY <1>1, <1>2, <1>3, <2>1, <2>2, FilesMove
<1> QED BY <1>4, <1>5 DEF RemoveDir

\* nebula-cert has signed.
LEMMA Signed ==
  ASSUME IndInv, NEW r \in Reqs, SignEnds(r)
  PROVE  IndInv'
<1>1. /\ child[r].run /\ child' = [child EXCEPT ![r] = NoChild]
      /\ UNCHANGED <<server, store, ca, making, dir, metric, world>>
  BY DEF SignEnds
<1>2. /\ Types /\ ReqInv(r) /\ dir' \in [Reqs -> Dir] /\ req = [s \in Reqs |-> req[s]]
      /\ Fields(req[r])
  BY <1>1 DEF IndInv, Types, ReqInv, Turn
<1>3. /\ child' \in [Reqs -> Child] /\ child'[r].run = FALSE /\ child'[r].ca = None
      /\ \A s \in Reqs \ {r} : child'[s] = child[s]
  <2>1. NoChild.run = FALSE /\ NoChild.ca = None
    BY DEF NoChild
  <2> QED BY <1>1, <1>2, <2>1, NothingLeft DEF Types
<1>4. UNCHANGED <<ca, gone, late, starts, making>>
  BY <1>1 DEF server, world
<1>5. CASE req[r].pc # "signing"
  <2>1. UNCHANGED req
    BY <1>5 DEF SignEnds
  <2>2. Credentials(r)'
    BY <1>1, <1>2, <1>3, <1>4, <2>1 DEF ReqInv, Credentials, Signer, Whole, Making
  <2> QED BY <1>1, <1>2, <1>3, <1>5, <2>1, <2>2, FilesMove
<1>6. CASE req[r].pc = "signing"
  <2>1. req' = [req EXCEPT ![r].pc = "verify"] /\ req[r].ok = FALSE /\ Credential(req[r].q)
    BY <1>2, <1>6 DEF SignEnds, ReqInv, Turn
  <2>2. /\ req' = [s \in Reqs |-> req'[s]] /\ \A s \in Reqs \ {r} : req'[s] = req[s]
        /\ Fields(req'[r]) /\ req'[r].pc = "verify" /\ req'[r].ok = FALSE
        /\ req'[r].q = req[r].q /\ req'[r].body = req[r].body
        /\ req'[r].want = req[r].want
    BY <1>2, <2>1, GoesOn
  <2>3. Credentials(r)'
    BY <1>1, <1>2, <1>3, <1>4, <1>6, <2>2 DEF ReqInv, Credentials, Signer, Whole, Making
  <2> QED BY <1>1, <1>2, <1>3, <1>6, <2>1, <2>2, <2>3, SigningMoves
<1> QED BY <1>5, <1>6

\* nebula-cert fails.
LEMMA NotSigned ==
  ASSUME IndInv, NEW r \in Reqs, SignFails(r)
  PROVE  IndInv'
<1>1. /\ child[r].run /\ child' = [child EXCEPT ![r] = NoChild]
      /\ UNCHANGED <<server, store, ca, making, metric, world>>
  BY DEF SignFails
<1>2. Types /\ ReqInv(r)
  BY DEF IndInv
<1>3. /\ child' \in [Reqs -> Child] /\ child'[r] = NoChild
      /\ child'[r].run = FALSE /\ child'[r].ca = None
      /\ \A s \in Reqs \ {r} : child'[s] = child[s]
  <2>1. NoChild.run = FALSE /\ NoChild.ca = None
    BY DEF NoChild
  <2> QED BY <1>1, <1>2, <2>1, NothingLeft DEF Types
<1>4. UNCHANGED <<ca, gone, late, starts, making>>
  BY <1>1 DEF server, world
<1>5. CASE req[r].pc # "signing"
  <2>1. UNCHANGED <<req, dir>>
    BY <1>5 DEF SignFails
  <2>2. Credentials(r)' /\ dir' \in [Reqs -> Dir]
    BY <1>1, <1>2, <1>3, <1>4, <2>1 DEF ReqInv, Credentials, Signer, Whole, Making, Types
  <2> QED BY <1>1, <1>2, <1>3, <1>5, <2>1, <2>2, FilesMove
<1>6. CASE req[r].pc = "signing"
  <2>1. CredentialFails(r)
    BY <1>6 DEF SignFails
  <2> QED BY <1>1, <1>3, <1>6, <2>1, CredentialEnds
<1> QED BY <1>5, <1>6

\* A handler is dropped.
LEMMA Drops ==
  ASSUME IndInv, NEW r \in Reqs, Drop(r)
  PROVE  IndInv'
<1>1. /\ req[r].pc \in {"vault", "found", "signing", "read"}
      /\ req' = [req EXCEPT ![r].pc = "dropped"]
      /\ UNCHANGED <<server, store, ca, making, child, metric, world>>
  BY DEF Drop
<1>2. /\ Types /\ ReqInv(r) /\ child' \in [Reqs -> Child] /\ dir[r] \in Dir
      /\ req = [s \in Reqs |-> req[s]] /\ Fields(req[r]) /\ req[r].ok = FALSE
  BY <1>1 DEF IndInv, Types, ReqInv, Turn
<1>3. /\ req' = [s \in Reqs |-> req'[s]] /\ \A s \in Reqs \ {r} : req'[s] = req[s]
      /\ Fields(req'[r]) /\ req'[r].pc = "dropped" /\ req'[r].ok = FALSE
      /\ req'[r].q = req[r].q /\ req'[r].body = req[r].body
      /\ req'[r].want = req[r].want
  BY <1>1, <1>2, GoesOn
<1>4. /\ dir' \in [Reqs -> Dir] /\ \A s \in Reqs \ {r} : dir'[s] = dir[s]
      /\ dir'[r].state \in {"none", "removing"} /\ dir'[r].key \in {None, dir[r].key}
      /\ dir'[r].crt \in {None, dir[r].crt}
  <2>1. CASE req[r].pc \in {"vault", "found"}
    <3>1. UNCHANGED dir
      BY <2>1 DEF Drop
    <3>2. dir[r].state = "none"
      BY <1>2, <2>1 DEF ReqInv, Credentials
    <3> QED BY <1>2, <3>1, <3>2 DEF Types
  <2>2. CASE req[r].pc = "read"
    <3>1. dir' = [dir EXCEPT ![r] = NoDir]
      BY <2>2 DEF Drop, Removed
    <3>2. NoDir.state = "none" /\ NoDir.key = None /\ NoDir.crt = None
      BY DEF NoDir
    <3> QED BY <1>2, <3>1, <3>2, NothingLeft DEF Types
  <2>3. CASE req[r].pc = "signing"
    <3>1. PICK e : e = [NoDir EXCEPT !.state = "removing"]
      OBVIOUS
    <3>2. dir' = [dir EXCEPT ![r] = e]
      BY <2>3, <3>1 DEF Drop
    <3>3. e \in Dir /\ e.state = "removing" /\ e.key = None /\ e.crt = None
      BY <3>1 DEF NoDir, Dir
    <3> HIDE <3>1
    <3> QED BY <1>2, <3>2, <3>3 DEF Types
  <2> QED BY <1>1, <2>1, <2>2, <2>3
<1>5. UNCHANGED <<ca, gone, late, starts, making>>
  BY <1>1 DEF server, world
<1>6. Credentials(r)'
  BY <1>1, <1>2, <1>3, <1>4, <1>5 DEF ReqInv, Credentials, Signer, Whole, Making
<1> QED BY <1>1, <1>2, <1>3, <1>4, <1>6, SigningMoves
-----------------------------------------------------------------------------
(* The CA, starts and crashes *)

\* The broker starts, or the CA changes: what is left to show.  Nobody is
\* served meanwhile, or at most a file of the CA is removed.
LEMMA CaMoves ==
  ASSUME IndInv, UNCHANGED <<config, store, dir, child, req, metric, kept, wrapped, stable>>,
         ops' \in 0 .. MaxOps, boot' \in Down .. Up, starts' \in 0 .. MaxStarts,
         making' \in [Ca -> SUBSET Files], ca' \in [Files -> Ca \cup {None}],
         CaGrows, boot # Up \/ UNCHANGED boot,
         CaInv'
  PROVE  IndInv'
<1>1. UNCHANGED <<token, vault, sent>>
  BY DEF store
<1>2. Types /\ (\A s \in Reqs : ReqInv(s)) /\ VaultInv
  BY DEF IndInv
<1>3. /\ Frame /\ TokenInv' /\ PairInv' /\ CountInv'
  BY <1>1, NobodyMoves
<1>4. ASSUME NEW s \in Reqs PROVE ReqInv(s)'
  <2>1. Turn(s)'
    BY <1>2 DEF ReqInv, Turn, Up, Named
  <2>2. Credentials(s)'
    <3>1. dir[s] \in Dir /\ child[s] \in Child
      BY <1>2 DEF Types
    <3>2. /\ dir[s].crt # None => dir[s].crt.ca \in Ca
          /\ child[s].ca # None => child[s].ca \in Ca
      BY <3>1 DEF Dir, Child
    <3>3. req[s].pc \in {"signing", "verify", "read"} =>
             \A f \in Files : ca'[f] \in {None, ca[f]} \cup late
      BY <1>2 DEF ReqInv, Turn, CaGrows
    <3>4. \A n \in Ca : Signer(n, FALSE) => Signer(n, FALSE)'
      BY DEF CaGrows
    <3>5. \A n \in Ca : Whole(n) => Whole(n)'
      BY DEF CaGrows
    <3>6. UNCHANGED late
      BY DEF CaGrows
    <3>7. dir[s].crt # None =>
             Signer(dir[s].crt.ca, req[s].pc \in {"signing", "verify"})'
      BY <1>2, <3>2, <3>3, <3>4, <3>6 DEF ReqInv, Credentials, Signer, Files
    <3>8. child[s].ca # None => Signer(child[s].ca, req[s].pc = "signing")'
      BY <1>2, <3>2, <3>3, <3>4, <3>6 DEF ReqInv, Credentials, Signer, Files
    <3>9. req[s].pc = "read" =>
             /\ dir[s].crt # None /\ Whole(dir[s].crt.ca)'
             /\ ca'["crt"] \in {None, dir[s].crt.ca} \cup late'
      BY <1>2, <3>2, <3>3, <3>5, <3>6 DEF ReqInv, Credentials, Files
    <3>10. req[s].ok /\ Credential(req[s].q) => Whole(req[s].got.crt.ca)'
      BY <1>2, <3>5 DEF ReqInv, Credentials
    <3> QED BY <1>2, <3>6, <3>7, <3>8, <3>9, <3>10 DEF ReqInv, Credentials
  <2>3. Reads(s)' /\ Secrets(s)' /\ Wraps(s)'
    BY <1>2 DEF ReqInv, Reads, Secrets, Wraps, Sent, Imported
  <2> QED BY <2>1, <2>2, <2>3 DEF ReqInv
<1>5. Types'
  BY <1>1, <1>2 DEF Types, Up, ObjectShape, VaultPaths
<1>6. VaultInv'
  BY <1>1, <1>2, PluginSame DEF VaultInv
<1> QED BY <1>3, <1>4, <1>5, <1>6 DEF IndInv

\* The operator removes a file of the CA.
LEMMA CaRemoved ==
  ASSUME IndInv, NEW f \in Files, RemoveCa(f)
  PROVE  IndInv'
<1>1. /\ ops < MaxOps /\ ops' = ops + 1 /\ ca[f] # None
      /\ gone' = gone \cup {<<f, ca[f]>>} /\ ca' = [ca EXCEPT ![f] = None]
      /\ UNCHANGED <<config, boot, starts, late, store, making, dir, child, req, metric, kept,
                     wrapped, stable>>
  BY DEF RemoveCa, server
<1>2. Types /\ CaInv
  BY DEF IndInv
<1>3. /\ ca' \in [Files -> Ca \cup {None}] /\ ca'[f] = None
      /\ \A g \in Files \ {f} : ca'[g] = ca[g]
  BY <1>1, <1>2 DEF Types
<1>4. CaGrows
  <2>1. \A n \in Ca : Signer(n, FALSE) => Signer(n, FALSE)'
    BY <1>1, <1>3 DEF Signer, Files
  <2>2. \A n \in Ca : Whole(n) => Whole(n)'
    BY <1>1, <1>3 DEF Whole, Making
  <2>3. \A g \in Files : ca'[g] \in {None, ca[g]}
    BY <1>3
  <2> QED BY <1>1, <2>1, <2>2, <2>3 DEF CaGrows
<1>5. CaInv'
  BY <1>1, <1>2, <1>3 DEF CaInv, Making, Initialising, Types
<1>6. /\ ops' \in 0 .. MaxOps /\ boot' \in Down .. Up /\ starts' \in 0 .. MaxStarts
      /\ making' \in [Ca -> SUBSET Files]
  BY <1>1, <1>2, PluginAssumption DEF Types
<1> QED BY <1>1, <1>3, <1>4, <1>5, <1>6, CaMoves

\* The plugins are started one after the other.
LEMMA PluginsStart ==
  ASSUME IndInv, Start \/ StartResource \/ StartPkcs11 \/ StartNebula \/ CaFails
  PROVE  IndInv'
<1>1. /\ Types /\ CaInv /\ Len(config) \in Nat /\ Up = Len(config) + 1
      /\ DOMAIN config = 1 .. Len(config) /\ Down = 0 /\ {MaxStarts, MaxOps} \subseteq Nat
  BY UpIsUp, PluginAssumption DEF IndInv, Up, Down
<1>2. /\ UNCHANGED <<config, late, store, ca, dir, child, req, metric, world>>
      /\ boot # Up
      /\ \/ /\ boot = Down /\ starts < MaxStarts /\ starts' = starts + 1 /\ boot' = 1
            /\ UNCHANGED making
         \/ /\ boot \in DOMAIN config /\ UNCHANGED starts /\ boot' \in {Down, boot + 1}
            /\ \/ making' = making /\ (making[starts] = {} \/ ~Initialising("nebula-ca"))
               \/ making' = [making EXCEPT ![starts] = {}]
  <2>1. CASE Start
    BY <1>1, <2>1 DEF Start, nebula
  <2>2. CASE StartResource
    BY <1>1, <2>2 DEF StartResource, NextPlugin, StartFails, nebula, Initialising
  <2>3. CASE StartPkcs11
    BY <1>1, <2>3 DEF StartPkcs11, NextPlugin, StartFails, nebula, Initialising
  <2>4. CASE StartNebula
    BY <1>1, <2>4 DEF StartNebula, NextPlugin, StartFails, nebula, Initialising
  <2>5. CASE CaFails
    BY <1>1, <2>5 DEF CaFails, Initialising
  <2> QED BY <2>1, <2>2, <2>3, <2>4, <2>5
<1>3. UNCHANGED <<ops, kept, wrapped, stable, gone>>
  BY <1>2 DEF world
<1>4. boot' \in Down .. Up /\ starts' \in 0 .. MaxStarts
  BY <1>1, <1>2 DEF Types
<1>5. /\ making' \in [Ca -> SUBSET Files]
      /\ \A n \in Ca : making'[n] # {} => n \in late
  <2>1. CASE /\ boot = Down /\ starts' = starts + 1 /\ UNCHANGED making
    BY <1>1, <2>1 DEF Types, CaInv, Initialising
  <2>2. CASE making' = making /\ (making[starts] = {} \/ ~Initialising("nebula-ca"))
    BY <1>1, <2>2 DEF Types, CaInv
  <2>3. CASE making' = [making EXCEPT ![starts] = {}]
    BY <1>1, <2>3 DEF Types, CaInv
  <2> QED BY <1>2, <2>1, <2>2, <2>3
<1>6. ~Making'
  <2>1. starts' \in Ca \ late => making'[starts'] = {}
    BY <1>5
  <2> QED BY <1>2, <2>1 DEF Making
<1>7. CaInv'
  BY <1>1, <1>2, <1>4, <1>5, <1>6 DEF CaInv, Types
<1>8. CaGrows
  BY <1>2, <1>3, <1>6 DEF CaGrows, Signer, Whole
<1>9. ops' \in 0 .. MaxOps /\ ca' \in [Files -> Ca \cup {None}]
  BY <1>1, <1>2, <1>3 DEF Types
<1> QED BY <1>2, <1>3, <1>4, <1>5, <1>7, <1>8, <1>9, CaMoves

\* `nebula-cert ca' is spawned: whatever CA was complete has lost both files.
LEMMA CaSpawned ==
  ASSUME IndInv, MakeCa
  PROVE  IndInv'
<1>1. /\ Types /\ CaInv /\ Len(config) \in Nat /\ Up = Len(config) + 1
      /\ DOMAIN config = 1 .. Len(config) /\ Down = 0 /\ {MaxStarts, MaxOps} \subseteq Nat
  BY UpIsUp, PluginAssumption DEF IndInv, Up, Down
<1>2. /\ UNCHANGED <<server, store, ca, dir, child, req, metric, world>>
      /\ Initialising("nebula-ca") /\ making' = [making EXCEPT ![starts] = Files]
      /\ \A f \in Files : ca[f] = None
  BY DEF MakeCa, NeedsCa, Files
<1>3. UNCHANGED <<config, boot, starts, late, ops, kept, wrapped, stable, gone>>
  BY <1>2 DEF server, world
<1>4. boot \in DOMAIN config /\ boot # Up /\ starts \in Ca
  BY <1>1, <1>2 DEF Initialising, CaInv, Types, Ca
<1>5. /\ making' \in [Ca -> SUBSET Files] /\ \A n \in Ca \ {starts} : making'[n] = making[n]
  BY <1>1, <1>2, <1>4 DEF Types
<1>6. CaGrows
  <2>1. \A n \in Ca : Whole(n) => Whole(n)'
    <3>1. None \notin Ca
      BY PluginAssumption DEF Ca
    <3>2. ASSUME NEW n \in Ca, Whole(n) PROVE \A f \in Files : <<f, n>> \in gone
      BY <1>2, <3>1, <3>2 DEF Whole
    <3> QED BY <1>3, <3>2 DEF Whole
  <2> QED BY <1>2, <1>3, <1>4, <2>1 DEF CaGrows, Signer
<1>7. CaInv'
  BY <1>1, <1>2, <1>3, <1>5 DEF CaInv, Initialising, Types
<1>8. /\ ops' \in 0 .. MaxOps /\ boot' \in Down .. Up /\ starts' \in 0 .. MaxStarts
      /\ ca' \in [Files -> Ca \cup {None}]
  BY <1>1, <1>2, <1>3 DEF Types
<1> QED BY <1>2, <1>3, <1>4, <1>5, <1>6, <1>7, <1>8, CaMoves

\* It writes a file: of the start under way, over nothing or over a late
\* write; or late itself.
LEMMA CaWritten ==
  ASSUME IndInv, NEW n \in Ca, NEW f \in Files, WriteCa(n, f)
  PROVE  IndInv'
<1>1. /\ Types /\ CaInv /\ Up \notin DOMAIN config /\ None \notin Ca
  BY UpIsUp, PluginAssumption DEF IndInv, Ca
<1>2. /\ f \in making[n] /\ ca' = [ca EXCEPT ![f] = n]
      /\ making' = [making EXCEPT ![n] = @ \ {f}]
      /\ UNCHANGED <<config, boot, starts, late, store, dir, child, req, metric, ops, kept,
                     wrapped, stable>>
  BY DEF WriteCa, server
<1>3. /\ gone \subseteq gone'
      /\ ca[f] # None /\ (n \in late \/ ca[f] \in late) => <<f, ca[f]>> \in gone'
  BY DEF WriteCa
<1>4. /\ ca' \in [Files -> Ca \cup {None}] /\ ca'[f] = n
      /\ \A g \in Files \ {f} : ca'[g] = ca[g]
      /\ making' \in [Ca -> SUBSET Files]
      /\ \A m \in Ca : making'[m] \subseteq making[m]
  BY <1>1, <1>2 DEF Types
<1>5. n \in late \/ (n = starts /\ Initialising("nebula-ca") /\ Making)
  BY <1>1, <1>2 DEF CaInv, Making
<1>6. ca[f] # None => <<f, ca[f]>> \in gone'
  BY <1>1, <1>2, <1>3, <1>5 DEF CaInv
<1>7. CaGrows
  <2>1. ASSUME NEW m \in Ca, Signer(m, FALSE) PROVE Signer(m, FALSE)'
    BY <1>1, <1>3, <1>4, <1>6, <2>1 DEF Signer, Files
  <2>2. ASSUME NEW m \in Ca, Whole(m) PROVE Whole(m)'
    <3>1. \A g \in Files : ca'[g] = m \/ <<g, m>> \in gone'
      BY <1>1, <1>3, <1>4, <1>6, <2>2 DEF Whole
    <3>2. CASE \A g \in Files : <<g, m>> \in gone
      BY <1>3, <3>1, <3>2 DEF Whole
    <3>3. CASE ~Making /\ \A g \in Files : ca[g] \in {None, m} \cup late
      <4>1. n \in late
        BY <1>5, <3>3
      <4>2. ~Making'
        BY <1>2, <1>4, <3>3 DEF Making
      <4>3. \A g \in Files : ca'[g] \in {None, m} \cup late'
        BY <1>2, <1>4, <3>3, <4>1
      <4> QED BY <3>1, <4>2, <4>3 DEF Whole
    <3> QED BY <2>2, <3>2, <3>3 DEF Whole
  <2>3. boot = Up => \A g \in Files : ca'[g] \in {None, ca[g]} \cup late
    BY <1>1, <1>4, <1>5 DEF Initialising
  <2> QED BY <1>2, <2>1, <2>2, <2>3 DEF CaGrows
<1>8. CaInv'
  <2>1. Making' => \A g \in making'[starts] : ca'[g] \in {None} \cup late'
    <3> SUFFICES ASSUME Making', NEW g \in making'[starts]
                 PROVE  ca'[g] \in {None} \cup late
      BY <1>2
    <3>1. starts \in Ca \ late /\ making[starts] # {} /\ g \in making[starts]
      BY <1>2, <1>4 DEF Making
    <3>2. ca[g] \in {None} \cup late
      BY <1>1, <3>1 DEF CaInv, Making
    <3>3. g = f => n \in late
      <4>1. n = starts => making'[starts] = making[starts] \ {f}
        BY <1>1, <1>2, <3>1 DEF Types
      <4> QED BY <1>5, <4>1
    <3>4. g \in Files
      BY <1>1, <3>1 DEF Types
    <3> QED BY <1>4, <3>2, <3>3, <3>4
  <2> QED BY <1>1, <1>2, <1>4, <2>1 DEF CaInv, Initialising, Making
<1>9. /\ ops' \in 0 .. MaxOps /\ boot' \in Down .. Up /\ starts' \in 0 .. MaxStarts
  BY <1>1, <1>2 DEF Types, Up
<1> QED BY <1>2, <1>4, <1>7, <1>8, <1>9, CaMoves

\* The broker ends.
LEMMA Crashes ==
  ASSUME IndInv, Crash
  PROVE  IndInv'
<1>1. /\ boot # Down /\ boot' = Down /\ token' = {o \in token : ~o.session}
      /\ late' = IF making[starts] = {} THEN late ELSE late \cup {starts}
      /\ metric' = [reads |-> 0, writes |-> 0]
      /\ UNCHANGED <<config, starts, vault, sent, ca, child, making, ops, kept, wrapped, stable,
                     gone>>
  BY DEF Crash, world
<1>2. Types /\ (\A s \in Reqs : ReqInv(s)) /\ VaultInv /\ CaInv
  BY DEF IndInv
<1>3. /\ dir' = [r \in Reqs |-> dir'[r]] /\ req' = [r \in Reqs |-> req'[r]]
      /\ \A r \in Reqs :
            /\ dir'[r] = IF dir[r].state = "removing"
                         THEN [dir[r] EXCEPT !.state = "left"] ELSE dir[r]
            /\ req'[r] = IF Running(r) THEN [req[r] EXCEPT !.pc = "lost"] ELSE req[r]
  BY DEF Crash
<1>4. ASSUME NEW s \in Reqs
      PROVE  /\ dir'[s] \in Dir /\ dir'[s].key = dir[s].key /\ dir'[s].crt = dir[s].crt
             /\ dir'[s].state = IF dir[s].state = "removing" THEN "left" ELSE dir[s].state
  <2>1. dir[s] \in Dir
    BY <1>2 DEF Types
  <2> QED BY <1>3, <2>1 DEF Dir
<1>5. ASSUME NEW s \in Reqs
      PROVE  /\ Fields(req'[s]) /\ req'[s].want = req[s].want /\ req'[s].q = req[s].q
             /\ req'[s].body = req[s].body /\ req'[s].ok = req[s].ok
             /\ req'[s].got = req[s].got
             /\ \/ req'[s].pc = req[s].pc /\ ~Running(s)
                \/ req'[s].pc = "lost" /\ req[s].pc # "idle" /\ req[s].ok = FALSE
  <2>1. Fields(req[s]) /\ req[s].ok \in BOOLEAN /\ (req[s].ok => req[s].pc = "done")
    BY <1>2 DEF ReqInv, Turn
  <2>2. CASE Running(s)
    <3>1. req'[s] = [req[s] EXCEPT !.pc = "lost"]
      BY <1>3, <2>2
    <3>2. Fields(req'[s]) /\ req'[s].pc = "lost"
      BY <2>1, <3>1 DEF Fields
    <3>3. req[s].pc # "idle" /\ req[s].ok = FALSE
      BY <2>1, <2>2 DEF Running
    <3> QED BY <2>1, <3>1, <3>2, <3>3 DEF Fields
  <2>3. CASE ~Running(s)
    BY <1>3, <2>1, <2>3
  <2> QED BY <2>2, <2>3
<1>6. Frame
  BY <1>1, <1>3, <1>5 DEF Frame, Running
<1>7. ASSUME NEW s \in Reqs PROVE ReqInv(s)'
  <2>1. /\ Turn(s) /\ Credentials(s) /\ Reads(s) /\ Secrets(s) /\ Wraps(s)
    BY <1>2 DEF ReqInv
  <2>2. /\ Fields(req'[s]) /\ req'[s].want = req[s].want /\ req'[s].q = req[s].q
        /\ req'[s].body = req[s].body /\ req'[s].ok = req[s].ok /\ req'[s].got = req[s].got
        /\ \/ req'[s].pc = req[s].pc
           \/ req'[s].pc = "lost" /\ req[s].pc # "idle" /\ req[s].ok = FALSE
        /\ req'[s].pc \in {"idle", "done", "panic", "dropped", "lost"}
        /\ req[s].pc \in {"done", "dropped", "lost"} => req'[s].pc = req[s].pc
    BY <1>3, <1>5 DEF Running
  <2>3. Turn(s)'
    <3>1. req[s].pc # "idle" => req[s].q \in Queries /\ Named(req[s].q.plugin)' # {}
      BY <1>1, <2>1, <2>2 DEF Turn, Named
    <3>2. /\ req[s].ok \in BOOLEAN /\ (req[s].ok => req[s].pc = "done")
          /\ (/\ req[s].pc # "idle"
              /\ ~(WrapKey(req[s].q) /\ req[s].q.method = "GET")) => req[s].body = s
      BY <2>1 DEF Turn
    <3> QED BY <2>2, <3>1, <3>2 DEF Turn, Pc, WrapKey
  <2>4. Credentials(s)'
    <3>1. req'[s].pc # "read" /\ UNCHANGED <<ca, gone, child>>
      BY <1>1, <2>2
    <3>2. dir[s].state # "none" /\ dir[s].state # "open" => req'[s].pc = "dropped"
      BY <2>1, <2>2 DEF Credentials
    <3>3. dir[s].state = "open" => req'[s].pc = "lost"
      BY <2>1, <2>2 DEF Credentials
    <3>4. /\ dir'[s].key = dir[s].key /\ dir'[s].crt = dir[s].crt
          /\ dir'[s].state = IF dir[s].state = "removing" THEN "left" ELSE dir[s].state
      BY <1>4
    <3>5. late \subseteq late' /\ ~Making'
      BY <1>1 DEF Making
    <3>6. dir[s].crt # None => Signer(dir[s].crt.ca, FALSE)'
      BY <2>1, <3>1, <3>4 DEF Credentials, Signer
    <3>7. child[s].ca # None => Signer(child[s].ca, FALSE)'
      BY <2>1, <3>1 DEF Credentials, Signer
    <3>8. req[s].ok /\ Credential(req[s].q) => Whole(req[s].got.crt.ca)'
      BY <2>1, <2>2, <3>1, <3>5 DEF Credentials, Whole
    <3>9. req'[s].pc \notin {"signing", "verify", "read"}
      BY <2>2
    <3> QED BY <2>1, <2>2, <3>1, <3>2, <3>3, <3>4, <3>5, <3>6, <3>7, <3>8, <3>9
            DEF Credentials, Credential, Signer
  <2>5. Reads(s)'
    BY <1>1, <2>1, <2>2 DEF Reads, Resource
  <2>6. Secrets(s)'
    <3>1. Sent(req[s].got, Label(Desc(req[s].q))) => Sent(req[s].got, Label(Desc(req[s].q)))'
      BY <1>6, <2>2 DEF Sent, Frame, Imported, Label, Desc
    <3> QED BY <2>1, <2>2, <3>1 DEF Secrets, Pkcs11Resource
  <2>7. Wraps(s)'
    BY <1>1, <2>1, <2>2 DEF Wraps
  <2> QED BY <2>3, <2>4, <2>5, <2>6, <2>7 DEF ReqInv
<1>8. Types'
  <2>1. boot' \in Down .. Up /\ dir' \in [Reqs -> Dir]
    BY <1>1, <1>2, <1>3, <1>4, UpIsUp DEF Down, Up
  <2> QED BY <1>1, <1>2, <1>3, <2>1 DEF Types, Up, ObjectShape, VaultPaths
<1>9. CaInv' /\ VaultInv'
  <2>1. ~Making'
    BY <1>1 DEF Making
  <2>2. late' \subseteq 1 .. starts
    BY <1>1, <1>2 DEF CaInv, Types
  <2>3. \A n \in Ca : making[n] # {} => n \in late'
    BY <1>1, <1>2 DEF CaInv
  <2>4. CaInv'
    BY <1>1, <1>2, <2>1, <2>2, <2>3 DEF CaInv
  <2>5. VaultInv'
    BY <1>1, <1>2, PluginSame DEF VaultInv
  <2> QED BY <2>4, <2>5
<1>10. TokenInv'
  BY <1>1, <1>6, TokenKept
<1>11. PairInv'
  <2>1. \A r \in Reqs : req'[r].pc # "found"
    BY <1>5 DEF Running
  <2> QED BY <1>1, <1>6, <2>1, PairKept
<1>12. CountInv'
  <2>1. IsFiniteSet(Past')
    BY PluginAssumption, FS_Subset DEF Past
  <2>2. Cardinality(Past') \in Nat
    BY <2>1, FS_CardinalityType
  <2> QED BY <1>1, <2>2 DEF CountInv
<1> QED BY <1>7, <1>8, <1>9, <1>10, <1>11, <1>12 DEF IndInv

-----------------------------------------------------------------------------
(* Every step keeps the invariant *)

\* At first.
LEMMA InitInv == Init => IndInv
<1> SUFFICES ASSUME Init PROVE IndInv
  OBVIOUS
<1>1. PICK d \in Deployments : config = d.config /\ token = d.token
  BY DEF Init
<1>2. /\ boot = Down /\ starts = 0 /\ sent = {} /\ ops = 0
      /\ late = {} /\ making = [n \in Ca |-> {}]
      /\ vault = [p \in VaultPaths |-> Absent] /\ ca = [f \in Files |-> None]
      /\ dir = [r \in Reqs |-> NoDir] /\ child = [r \in Reqs |-> NoChild]
      /\ req = [r \in Reqs |-> Request("idle", None, None)]
      /\ metric = [reads |-> 0, writes |-> 0] /\ kept = [e \in Descs |-> None]
      /\ wrapped = {} /\ gone = {}
      /\ stable = (Named("pkcs11") # {} => OnePair(token, Plugin("pkcs11").label))
  BY DEF Init
<1>3. DeploymentShape(d)
  BY PluginAssumption
<1>4. \A o \in token : ObjectShape(o) /\ ~o.session /\ o # None
  BY <1>1, <1>3 DEF DeploymentShape
<1>5. Len(config) \in Nat /\ {MaxStarts, MaxOps} \subseteq Nat
  BY <1>1, <1>3, PluginAssumption DEF DeploymentShape
<1>6. PICK a : a = Request("idle", None, None)
  OBVIOUS
<1>7. Fields(a) /\ a.pc = "idle" /\ a.ok = FALSE /\ a.want = None
  BY <1>6 DEF Request, Fields
<1>8. \A r \in Reqs : req[r] = a
  BY <1>2, <1>6
<1> HIDE <1>6
<1>9. Types
  BY <1>1, <1>2, <1>4, <1>5, NothingLeft DEF Types, Up, Down, Record
<1>10. ASSUME NEW r \in Reqs PROVE ReqInv(r)
  <2>1. Turn(r)
    BY <1>7, <1>8 DEF Turn, Pc
  <2>2. Credentials(r)
    <3>1. NoDir.state = "none" /\ NoDir.key = None /\ NoDir.crt = None /\ NoChild.ca = None
      BY DEF NoDir, NoChild
    <3> QED BY <1>2, <1>7, <1>8, <3>1 DEF Credentials
  <2>3. Reads(r) /\ Secrets(r) /\ Wraps(r)
    BY <1>7, <1>8 DEF Reads, Secrets, Wraps
  <2> QED BY <2>1, <2>2, <2>3 DEF ReqInv
<1>11. CaInv /\ VaultInv
  BY <1>2 DEF CaInv, VaultInv, Making
<1>12. TokenInv
  <2>1. ASSUME NEW o \in token, o.class = "secret" PROVE o.value \in Imported(o.label)
    BY <1>1, <2>1 DEF Imported
  <2> QED BY <2>1 DEF TokenInv, Sent
<1>13. PairInv
  <2> SUFFICES ASSUME stable, Named("pkcs11") # {}
               PROVE  \E public, private \in token : ThePair(public, private)
    BY DEF PairInv
  <2>1. PICK public \in token, private \in token :
           /\ WrapKeys(token, Plugin("pkcs11").label, "public") = {public}
           /\ WrapKeys(token, Plugin("pkcs11").label, "private") = {private}
           /\ public.value = private.value
    BY <1>2 DEF OnePair
  <2>2. ThePair(public, private)
    BY <1>2, <1>4, <1>7, <1>8, <2>1 DEF ThePair
  <2> QED BY <2>2
<1>14. CountInv
  <2>1. IsFiniteSet(Past)
    BY PluginAssumption, FS_Subset DEF Past
  <2>2. Cardinality(Past) \in Nat
    BY <2>1, FS_CardinalityType
  <2> QED BY <1>2, <2>2 DEF CountInv
<1> QED BY <1>9, <1>10, <1>11, <1>12, <1>13, <1>14 DEF IndInv

\* Nothing happens.
LEMMA Stutters ==
  ASSUME IndInv, UNCHANGED vars
  PROVE  IndInv'
<1>1. UNCHANGED <<config, boot, starts, late, store, ca, dir, child, making, req, metric, ops,
                  kept, wrapped, stable, gone>>
  BY DEF vars, server, nebula, world
<1>2. Types /\ CaInv
  BY DEF IndInv
<1>3. /\ ops' \in 0 .. MaxOps /\ boot' \in Down .. Up /\ starts' \in 0 .. MaxStarts
      /\ making' \in [Ca -> SUBSET Files] /\ ca' \in [Files -> Ca \cup {None}]
      /\ CaGrows
  BY <1>1, <1>2 DEF Types, CaGrows, Signer, Whole, Making
<1>4. CaInv'
  BY <1>1, <1>2 DEF CaInv, Initialising, Making
<1> QED BY <1>1, <1>3, <1>4, CaMoves

\* One action after the other.
LEMMA NextInv == IndInv /\ [Next]_vars => IndInv'
<1> SUFFICES ASSUME IndInv, [Next]_vars PROVE IndInv'
  OBVIOUS
<1>1. CASE StartUp
  BY <1>1, PluginsStart, CaSpawned DEF StartUp
<1>2. CASE \E r \in Reqs, q \in Queries : \E body \in Bodies(r, q) : Arrive(r, q, body)
  BY <1>2, Arrives
<1>3. ASSUME NEW r \in Reqs, Handle(r) PROVE IndInv'
  BY <1>3, Refuses, VaultSends, VaultReads, AliyunSteps, Pkcs11Reads, Pkcs11Writes,
     WrapFinds, WrapEnds, WrapWraps, BackendEnds, Signs, Verifies, Delivers DEF Handle
<1>4. CASE Outside
  BY <1>4, VaultSets, VaultLoses, Signed, NotSigned, Removes, Drops, Writes, KeysChange,
     Crashes, RecordChanges, CaRemoved, CaWritten DEF Outside
<1>5. CASE UNCHANGED vars
  BY <1>5, Stutters
<1> QED BY <1>1, <1>2, <1>3, <1>4, <1>5 DEF Next

\* The invariant holds of every behaviour.
THEOREM Invariance == Spec => []IndInv
BY InitInv, NextInv, PTL DEF Spec

-----------------------------------------------------------------------------
(* Results *)

\* A read of the vault, unless the vault fails, gives what was acknowledged for
\* that very resource, if nobody wrote it since; a read of the token gives something that was sent
\* for that very resource, or was there from the beginning.
THEOREM StoredSecretsAreServed == Spec => []StoredIsServed
<1>1. IndInv => StoredIsServed
  <2> SUFFICES ASSUME IndInv, NEW r \in Reqs
               PROVE  /\ req[r].want # None /\ req[r].pc = "done" =>
                            req[r].got \in {req[r].want, BackendError}
                      /\ req[r].ok /\ Pkcs11Resource(req[r].q) /\ req[r].q.method = "GET" =>
                            \/ req[r].got \in Imported(Label(Desc(req[r].q)))
                            \/ /\ req[r].got \in Reqs
                               /\ Pkcs11Resource(req[req[r].got].q)
                               /\ req[req[r].got].q.method = "POST"
                               /\ Desc(req[req[r].got].q) = Desc(req[r].q)
    BY DEF StoredIsServed
  <2>1. Reads(r) /\ Secrets(r)
    BY DEF IndInv, ReqInv
  <2> QED BY <2>1 DEF Reads, Secrets, Sent, Label
<1> QED BY <1>1, Invariance, PTL

\* What was wrapped is unwrapped again, across restarts and beside every other
\* request, while the token holds one pair and does what it is asked; nothing
\* else is ever unwrapped.
THEOREM WrappedIsUnwrapped == Spec => []WrapRoundTrip
<1>1. IndInv => WrapRoundTrip
  BY DEF IndInv, ReqInv, Wraps, WrapRoundTrip
<1> QED BY <1>1, Invariance, PTL

\* A credential holds its own key and certificate, and the CA it verifies under
\* unless a late write changed the CA.
THEOREM CredentialsBelong == Spec => []CredentialsAreOwn
<1>1. IndInv => CredentialsAreOwn
  BY DEF IndInv, ReqInv, Credentials, CredentialsAreOwn
<1> QED BY <1>1, Invariance, PTL

\* The CA of a credential that was handed out is found by every later start,
\* unless both of its files were removed or lost to a late write.
THEOREM CaStays == Spec => []CaIsKept
<1>1. IndInv => CaIsKept
  BY DEF IndInv, ReqInv, Credentials, Whole, CaIsKept
<1> QED BY <1>1, Invariance, PTL

\* Children and directories of nebula-cert belong to a request under way,
\* unless it was dropped or the broker crashed; the counters count a request
\* once at most.
THEOREM NebulaCleansUp == Spec => []NebulaWork
<1>1. IndInv => TypeOK
  <2> SUFFICES ASSUME IndInv PROVE TypeOK
    OBVIOUS
  <2>1. metric \in [reads : 0 .. Cardinality(Reqs), writes : 0 .. Cardinality(Reqs)]
    <3>1. /\ IsFiniteSet(Reqs) /\ IsFiniteSet(Past) /\ Cardinality(Past) <= Cardinality(Reqs)
      BY PluginAssumption, FS_Subset DEF Past
    <3>2. Cardinality(Past) \in Nat /\ Cardinality(Reqs) \in Nat
      BY <3>1, FS_CardinalityType
    <3>3. CountInv
      BY DEF IndInv
    <3> QED BY <3>1, <3>2, <3>3 DEF CountInv
  <2>2. \A r \in Reqs : /\ req[r].pc \in Pc
                        /\ req[r].ok => req[r].pc = "done"
                        /\ req[r].pc = "signing" => child[r].run
                        /\ req[r].pc \in {"verify", "read"} => ~child[r].run
    BY DEF IndInv, ReqInv, Turn
  <2> QED BY <2>1, <2>2 DEF IndInv, Types, CaInv, TypeOK
<1>2. IndInv => DirsAreOwned
  BY DEF IndInv, ReqInv, Credentials, DirsAreOwned
<1> QED BY <1>1, <1>2, Invariance, PTL DEF NebulaWork

=============================================================================
