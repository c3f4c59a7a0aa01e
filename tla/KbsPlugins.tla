------------------------------ MODULE KbsPlugins ------------------------------
(***************************************************************************)
(* The plugins of the key broker that keep their state elsewhere: PKCS#11  *)
(* (plugins/implementations/pkcs11.rs) in a token, the resource plugin     *)
(* with Vault or Aliyun KMS behind it (resource/), the Nebula certificate  *)
(* authority (nebula_ca.rs) in a working directory that `nebula-cert'      *)
(* writes; and the plugin manager that starts them (plugin_manager.rs).    *)
(*                                                                         *)
(* The token, the vault, the files and the children of nebula-cert outlive *)
(* the broker: it crashes and is started again, handlers are dropped when  *)
(* their client leaves, and an operator changes keys and files meanwhile.  *)
(* Who may reach a plugin, and local_fs.rs, are in KbsApi.                 *)
(***************************************************************************)
EXTENDS Naturals, FiniteSets, Sequences

CONSTANTS
    Reqs,         \* the requests of a run; a write carries its own content
    Queries,      \* what a request may ask
    Deployments,  \* the lists of PluginsConfig the broker may be started
                  \* with, and what the PKCS#11 token holds at first
    Legal,        \* path segments the expression of ResourceDesc matches
    Slots,        \* the number of slots with a token
    KmsSecrets,   \* the names of the secrets in Aliyun KMS
    MaxStarts,    \* how often the broker is started
    MaxOps,       \* how often the operator changes something
    None

Files == {"crt", "key"}

\* Whether a client can be built, the module accepts the pin, the binary
\* answers with a version.  The names are those of PluginsConfig's Display.
RepositoryConfig(c) ==
    c.name = "resource" /\ c.backend \in {"vault", "aliyun"}
                        /\ c.client \in BOOLEAN
Pkcs11Config(c) ==
    c.name = "pkcs11" /\ c.slot \in Nat /\ c.pin \in BOOLEAN
NebulaCaPluginConfig(c) == c.name = "nebula-ca" /\ c.version \in BOOLEAN

PluginsConfig(c) ==
    RepositoryConfig(c) \/ Pkcs11Config(c) \/ NebulaCaPluginConfig(c)

QueryShape(q) ==
    /\ q.plugin \in {"resource", "pkcs11", "nebula-ca"}
    /\ q.method \in {"GET", "POST", "PUT"}
    /\ q.params \in BOOLEAN       \* whether the query string has name and ip

\* An object bears a label, is a secret, a public or a private key, and is
\* lost with its session or not.
ObjectShape(o) ==
    /\ o.class \in {"secret", "public", "private"} /\ o.session \in BOOLEAN

\* A list of plugins, and a token before anybody has opened a session.
DeploymentShape(d) ==
    /\ Len(d.config) \in Nat /\ DOMAIN d.config = 1 .. Len(d.config)
    /\ \A i \in DOMAIN d.config : PluginsConfig(d.config[i])
    /\ \A o \in d.token : ObjectShape(o) /\ ~o.session /\ o # None

ASSUME PluginAssumption ==
    /\ \A d \in Deployments : DeploymentShape(d)
    /\ \A q \in Queries : QueryShape(q) /\ q # None
    /\ {Slots, MaxStarts, MaxOps} \subseteq Nat
    /\ None \notin Reqs \cup Nat /\ IsFiniteSet(Reqs)

VARIABLES
    config,     \* the list of plugins
    boot,       \* the plugin that is being initialised, or Down, or Up
    starts,     \* how often the broker was started
    making,     \* the files the `nebula-cert ca' of a start has still to write
    late,       \* the starts that ended before their `nebula-cert ca'
    token,      \* the objects in the PKCS#11 token
    vault,      \* the records of the vault, by path
    sent,       \* the writes on their way to the vault
    ca,         \* ca/ca.crt and ca/ca.key: the CA they belong to
    dir,        \* the temporary directories of the credentials
    child,      \* the children running `nebula-cert sign'
    req,        \* the state of each request
    metric,     \* RESOURCE_READS_TOTAL and RESOURCE_WRITES_TOTAL
    ops,        \* how often the operator changed something
    kept,       \* what was acknowledged for a path and not written since
    wrapped,    \* what wrap-key answered
    stable,     \* the token holds one wrapping pair since the beginning
    gone        \* the CA files that were removed, or lost to a late write

store == <<token, vault, sent>>
nebula == <<ca, dir, child, making>>
world == <<ops, kept, wrapped, stable, gone>>
server == <<config, boot, starts, late>>
vars == <<server, store, nebula, req, metric, world>>

-----------------------------------------------------------------------------
(* State *)

\* A path that is parsed to a ResourceDesc.
IsDesc(p) == Len(p) = 3 /\ \A i \in DOMAIN p : p[i] \in Legal

Descs == {p \in {q.path : q \in Queries} \cup
                {Tail(q.path) : q \in {x \in Queries : x.path # <<>>}} :
             IsDesc(p)}

Down == 0
Up == Len(config) + 1

Pc == {"idle", "handle", "vault", "found", "signing", "verify", "read",
       "done", "panic", "dropped", "lost"}

Running(r) == req[r].pc \notin {"idle", "done", "panic", "dropped", "lost"}

\* ok and got are the answer, key the handle find_objects gave, want what the
\* path held all the while.
Request(pc, q, body) ==
    [pc |-> pc, q |-> q, body |-> body, ok |-> FALSE, got |-> None,
     key |-> None, want |-> None]

\* A record of the vault: absent, without "data", or with it.
Absent == [state |-> "absent", data |-> None]
NoData == [state |-> "no data", data |-> None]
Data(x) == [state |-> "data", data |-> x]
Record == {Absent, NoData} \cup {Data(r) : r \in Reqs}

\* A CA is named after the start that made it.
Ca == 1 .. MaxStarts

\* A directory, which may be in the middle of its removal, with the node's key
\* and certificate; and a child with the files it has still to write.
Dir == [state : {"none", "open", "removing", "left"}, key : Reqs \cup {None},
        crt : {None} \cup [name : Reqs, ca : Ca]]
NoDir == [state |-> "none", key |-> None, crt |-> None]
Child == [run : BOOLEAN, left : SUBSET Files, ca : Ca \cup {None}]
NoChild == [run |-> FALSE, left |-> {}, ca |-> None]

\* The name a path, a label or a KMS secret has.  The expression admits no
\* slash in a segment, so the joined path stands for its three segments.
\* Mutant: the path is the tag.
PathWithoutRepository(d) == <<d[3]>>
VaultPath(d) == d

Label(d) == d

VaultPaths == {VaultPath(d) : d \in Descs}

WrapKeys(t, l, class) == {o \in t : o.label = l /\ o.class = class}

\* One public and one private key bear the label, and they are a pair.
OnePair(t, l) ==
    \E public, private \in t :
        /\ WrapKeys(t, l, "public") = {public}
        /\ WrapKeys(t, l, "private") = {private}
        /\ public.value = private.value

\* The plugins that are configured under a name: a later one replaces an
\* earlier one in the HashMap of the PluginManager.
Named(name) == {i \in DOMAIN config : config[i].name = name}
Plugin(name) == config[CHOOSE i \in Named(name) :
                          \A j \in Named(name) : j <= i]

Init ==
    /\ \E d \in Deployments : config = d.config /\ token = d.token
    /\ boot = Down /\ starts = 0 /\ late = {} /\ making = [n \in Ca |-> {}]
    /\ vault = [p \in VaultPaths |-> Absent] /\ sent = {}
    /\ ca = [f \in Files |-> None]
    /\ dir = [r \in Reqs |-> NoDir] /\ child = [r \in Reqs |-> NoChild]
    /\ req = [r \in Reqs |-> Request("idle", None, None)]
    /\ metric = [reads |-> 0, writes |-> 0]
    /\ ops = 0 /\ kept = [d \in Descs |-> None]
    /\ wrapped = {} /\ gone = {}
    /\ stable = (Named("pkcs11") # {} => OnePair(token, Plugin("pkcs11").label))

-----------------------------------------------------------------------------
(* PluginManager::try_from: one plugin after the other, up to an error *)

Start ==
    /\ boot = Down /\ starts < MaxStarts
    /\ starts' = starts + 1
    /\ boot' = 1
    /\ UNCHANGED <<config, late, store, nebula, req, metric, world>>

Initialising(name) ==
    boot \in DOMAIN config /\ config[boot].name = name

NextPlugin ==
    /\ boot' = boot + 1
    /\ UNCHANGED <<config, starts, late, store, nebula, req, metric, world>>

\* The error ends the broker.
StartFails ==
    /\ boot' = Down
    /\ UNCHANGED <<config, starts, late, store, nebula, req, metric, world>>

\* ResourceStorage::try_from: neither client connects yet.
StartResource ==
    /\ Initialising("resource")
    /\ IF config[boot].client THEN NextPlugin ELSE StartFails

\* Pkcs11Backend::try_from: the slot is checked, the session logs in.
StartPkcs11 ==
    /\ Initialising("pkcs11")
    /\ IF config[boot].slot < Slots /\ config[boot].pin
       THEN NextPlugin ELSE StartFails

\* NebulaCertBin::version_checked.
VersionChecked == config[boot].version

\* Mutant: a CA is made when one of the files is missing.
MissesOne == ca["crt"] = None \/ ca["key"] = None

NeedsCa == ca["crt"] = None /\ ca["key"] = None

\* NebulaCertBin::ca: `nebula-cert ca' is spawned, and status() waits for it.
MakeCa ==
    /\ Initialising("nebula-ca") /\ VersionChecked
    /\ making[starts] = {} /\ NeedsCa
    /\ making' = [making EXCEPT ![starts] = Files]
    /\ UNCHANGED <<server, store, ca, dir, child, req, metric, world>>

\* It writes one file after the other, over whatever is there, and does so
\* too when the broker that spawned it is gone.
WriteCa(n, f) ==
    /\ f \in making[n]
    /\ ca' = [ca EXCEPT ![f] = n]
    /\ making' = [making EXCEPT ![n] = @ \ {f}]
    /\ gone' = gone \cup {<<f, m>> : m \in {m \in {ca[f]} \ {None} :
                                              {m, n} \cap late # {}}}
    /\ UNCHANGED <<server, store, dir, child, req, metric, ops, kept, wrapped,
                   stable>>

CaFails ==
    /\ Initialising("nebula-ca") /\ making[starts] # {}
    /\ boot' = Down /\ making' = [making EXCEPT ![starts] = {}]
    /\ UNCHANGED <<config, starts, late, store, ca, dir, child, req, metric,
                   world>>

\* NebulaCaPlugin::try_from, around the making of the CA: the version, and
\* at the end both files must be there and the certificate be printable.
StartNebula ==
    /\ Initialising("nebula-ca") /\ making[starts] = {}
    /\ VersionChecked => ~NeedsCa
    /\ \/ /\ VersionChecked /\ \A f \in Files : ca[f] # None
          /\ NextPlugin
       \/ StartFails

-----------------------------------------------------------------------------
(* Requests *)

Resource(q) == q.plugin = "resource" /\ IsDesc(q.path)
Pkcs11Resource(q) ==
    q.plugin = "pkcs11" /\ q.path # <<>> /\ Head(q.path) = "resource"
                        /\ IsDesc(Tail(q.path))
WrapKey(q) == q.plugin = "pkcs11" /\ q.path = <<"wrap-key">>
Credential(q) == q.plugin = "nebula-ca" /\ q.path = <<"credential">>

Desc(q) == IF q.plugin = "resource" THEN q.path ELSE Tail(q.path)

\* A write forgets what its path held, for the reads under way too.
Forget(d, reqs) ==
    [r \in Reqs |-> IF reqs[r].q # None /\ d = reqs[r].q.path
                    THEN [reqs[r] EXCEPT !.want = None] ELSE reqs[r]]

\* What unwrapping is asked of: something wrapped, or something else.
Bodies(r, q) == IF WrapKey(q) /\ q.method = "GET" THEN wrapped \cup {None}
                                                  ELSE {r}

Arrive(r, q, body) ==
    /\ boot = Up /\ req[r].pc = "idle" /\ Named(q.plugin) # {}
    /\ body \in Bodies(r, q)
    /\ req' = [req EXCEPT ![r] = [Request("handle", q, body) EXCEPT !.want =
                  IF Resource(q) /\ q.method = "GET" THEN kept[q.path]
                                                     ELSE None]]
    /\ UNCHANGED <<server, store, nebula, metric, world>>

Answered(r, ok, got) ==
    [req EXCEPT ![r].pc = "done", ![r].ok = ok, ![r].got = got]

\* What a handler answers when its back end did not do what it was asked.
BackendError == "backend error"

\* The conditions of handle, resource_handle and wrap_key_handle.
Refused(q) ==
    \/ ~(Resource(q) \/ Pkcs11Resource(q) \/ WrapKey(q) \/ Credential(q))
    \/ q.method = "PUT"
    \/ Credential(q) /\ (q.method # "GET" \/ ~q.params)

Refuse(r) ==
    /\ req[r].pc = "handle" /\ Refused(req[r].q)
    /\ req' = Answered(r, FALSE, None)
    /\ UNCHANGED <<server, store, nebula, metric, world>>

-----------------------------------------------------------------------------
(* The resource plugin: ResourceStorage counts, then calls its back end *)

Handles(r, backend, method) ==
    /\ req[r].pc = "handle" /\ Resource(req[r].q)
    /\ Plugin("resource").backend = backend /\ req[r].q.method = method

Counted(counter) == metric' = [metric EXCEPT ![counter] = @ + 1]

VaultSend(r) ==
    LET d == req[r].q.path
    IN  /\ Handles(r, "vault", "POST") /\ Counted("writes")
        /\ sent' = sent \cup {[desc |-> d, data |-> req[r].body]}
        /\ kept' = [kept EXCEPT ![d] = None]
        /\ req' = [Forget(d, req) EXCEPT ![r].pc = "vault"]
        /\ UNCHANGED <<server, token, vault, nebula, ops, wrapped, stable,
                       gone>>

\* kv1::set arrives, with or without somebody to answer to.
VaultSet(w) ==
    LET d == w.desc
    IN  /\ vault' = [vault EXCEPT ![VaultPath(d)] = Data(w.data)]
        /\ sent' = sent \ {w}
        /\ IF req[w.data].pc = "vault"
           THEN /\ req' = Answered(w.data, TRUE, None)
                /\ kept' = [kept EXCEPT ![d] =
                      IF \E x \in sent' : x.desc = d THEN None ELSE w.data]
           ELSE UNCHANGED <<req, kept>>
        /\ UNCHANGED <<server, token, nebula, metric, ops, wrapped, stable,
                       gone>>

\* The vault refuses the write, or it is lost on the way.
VaultSetFails(w) ==
    /\ sent' = sent \ {w}
    /\ req' = IF req[w.data].pc = "vault" THEN Answered(w.data, FALSE, None)
                                          ELSE req
    /\ UNCHANGED <<server, token, vault, nebula, metric, world>>

\* A record without "data" is an error, as an absent one.  A vault that does
\* not answer is in BackendFails, as are the failures of the other back ends.
VaultGet(r) ==
    /\ Handles(r, "vault", "GET") /\ Counted("reads")
    /\ LET record == vault[VaultPath(req[r].q.path)]
       IN  req' = Answered(r, record.state = "data", record.data)
    /\ UNCHANGED <<server, store, nebula, world>>

\* Only the tag counts.
AliyunGet(r) ==
    /\ Handles(r, "aliyun", "GET") /\ Counted("reads")
    /\ LET name == req[r].q.path[3]
       IN  req' = IF name \in KmsSecrets THEN Answered(r, TRUE, name)
                                         ELSE Answered(r, FALSE, None)
    /\ UNCHANGED <<server, store, nebula, world>>

\* todo!
AliyunSet(r) ==
    /\ Handles(r, "aliyun", "POST") /\ Counted("writes")
    /\ req' = [req EXCEPT ![r].pc = "panic"]
    /\ UNCHANGED <<server, store, nebula, world>>

-----------------------------------------------------------------------------
(* PKCS#11: nothing awaits while the session is locked *)

\* read_secret_resource: the first object with the label, in the order of the
\* token.  Only secrets have a value that can be read.
Pkcs11Read(r) ==
    LET q == req[r].q
        found == {o \in token : o.label = Label(Desc(q))}
    IN  /\ req[r].pc = "handle" /\ Pkcs11Resource(q) /\ q.method = "GET"
        /\ \/ /\ found = {}
              /\ req' = Answered(r, FALSE, None)
           \/ \E o \in found :
                 req' = IF o.class = "secret" THEN Answered(r, TRUE, o.value)
                                              ELSE Answered(r, FALSE, None)
        /\ UNCHANGED <<server, store, nebula, metric, world>>

\* write_secret_resource: without a Token attribute the object belongs to the
\* session.  Nothing is replaced.
Pkcs11Write(r) ==
    LET q == req[r].q
    IN  /\ req[r].pc = "handle" /\ Pkcs11Resource(q) /\ q.method = "POST"
        /\ token' = token \cup {[label |-> Label(Desc(q)), class |-> "secret",
                                 value |-> req[r].body, session |-> TRUE]}
        /\ req' = Answered(r, TRUE, None)
        /\ UNCHANGED <<server, vault, sent, nebula, metric, world>>

\* The public key wraps, the private one unwraps.
Class(q) == IF q.method = "POST" THEN "public" ELSE "private"

\* Mutant: the template names no class.
TemplateWithoutClass(q) ==
    {o \in token : o.label = Plugin("pkcs11").label}
Template(q) == WrapKeys(token, Plugin("pkcs11").label, Class(q))

\* find_objects, under the lock; the lock is given back.
WrapFind(r) ==
    LET q == req[r].q
    IN  /\ req[r].pc = "handle" /\ WrapKey(q) /\ q.method # "PUT"
        /\ \E o \in Template(q) \cup (IF Template(q) = {} THEN {None} ELSE {}) :
              req' = [req EXCEPT ![r].pc = "found", ![r].key = o]
        /\ UNCHANGED <<server, store, nebula, metric, world>>

\* Under the lock again: remove(0) panics when nothing was found; the handle
\* may be stale; each class of key does its own work only.
WrapPanics(r) ==
    /\ req[r].pc = "found" /\ req[r].key = None
    /\ req' = [req EXCEPT ![r].pc = "panic"]
    /\ UNCHANGED <<server, store, nebula, metric, world>>

Usable(r) == req[r].key \in token /\ req[r].key.class = Class(req[r].q)

Wrap(r) ==
    /\ req[r].pc = "found" /\ req[r].key # None /\ req[r].q.method = "POST"
    /\ LET text == [pair |-> req[r].key.value, plain |-> req[r].body]
       IN  IF Usable(r)
           THEN /\ req' = Answered(r, TRUE, text)
                /\ wrapped' = wrapped \cup {text}
           ELSE req' = Answered(r, FALSE, None) /\ UNCHANGED wrapped
    /\ UNCHANGED <<server, store, nebula, metric, ops, kept, stable, gone>>

\* Decryption fails for a text of another pair, or one that is none.
Unwrap(r) ==
    /\ req[r].pc = "found" /\ req[r].key # None /\ req[r].q.method = "GET"
    /\ LET text == req[r].body
       IN  req' = IF Usable(r) /\ text # None /\ text.pair = req[r].key.value
                  THEN Answered(r, TRUE, text.plain)
                  ELSE Answered(r, FALSE, None)
    /\ UNCHANGED <<server, store, nebula, metric, world>>

\* A read for which Vault or KMS fails (VaultApiError), and a session with the
\* token that fails: it is not there, the object cannot be made or read, the
\* mechanism is not supported, the text is too long.
BackendFails(r) ==
    LET q == req[r].q
    IN  /\ \/ /\ \E backend \in {"vault", "aliyun"} : Handles(r, backend, "GET")
              /\ Counted("reads")
           \/ /\ req[r].pc = "handle" /\ q.method # "PUT"
              /\ Pkcs11Resource(q) \/ WrapKey(q)
              /\ UNCHANGED metric
           \/ /\ req[r].pc = "found" /\ req[r].key # None
              /\ UNCHANGED metric
        /\ req' = Answered(r, FALSE, BackendError)
        /\ UNCHANGED <<server, store, nebula, world>>

-----------------------------------------------------------------------------
(* Nebula credentials *)

\* Mutant: node.key is in the working directory, which all share.
SharedNodeKey(r) ==
    IF \E x \in Reqs : dir[x].key # None
    THEN dir[CHOOSE x \in Reqs : dir[x].key # None].key ELSE None

NodeKey(r) == dir[r].key

\* Dropping the TempDir removes it with what it holds.
Removed(r) == [dir EXCEPT ![r] = NoDir]

\* tempdir_in, and `nebula-cert sign' is spawned.
Sign(r) ==
    /\ req[r].pc = "handle" /\ Credential(req[r].q) /\ ~Refused(req[r].q)
    /\ dir' = [dir EXCEPT ![r] = [NoDir EXCEPT !.state = "open"]]
    /\ child' = [child EXCEPT ![r] =
          [run |-> TRUE, left |-> Files,
           ca |-> IF ca["crt"] = None THEN None ELSE ca["key"]]]
    /\ req' = [req EXCEPT ![r].pc = "signing"]
    /\ UNCHANGED <<server, store, ca, making, metric, world>>

\* nebula-cert needs both files of the CA at first, and a directory.
SignWrites(r, f) ==
    /\ child[r].run /\ f \in child[r].left
    /\ child[r].ca # None /\ dir[r].state # "none"
    /\ dir' = [dir EXCEPT ![r][f] =
                  IF f = "key" THEN r ELSE [name |-> r, ca |-> child[r].ca]]
    /\ child' = [child EXCEPT ![r].left = @ \ {f}]
    /\ UNCHANGED <<server, store, ca, making, req, metric, world>>

SignEnds(r) ==
    /\ child[r].run /\ child[r].left = {}
    /\ child' = [child EXCEPT ![r] = NoChild]
    /\ req' = IF req[r].pc = "signing" THEN [req EXCEPT ![r].pc = "verify"]
                                       ELSE req
    /\ UNCHANGED <<server, store, ca, making, dir, metric, world>>

\* Mutant: the directory stays after an error.
ErrorKeepsDir(r) ==
    /\ req' = Answered(r, FALSE, None)
    /\ UNCHANGED dir

CredentialFails(r) ==
    /\ req' = Answered(r, FALSE, None)
    /\ dir' = Removed(r)

\* For any reason, a missing CA among them.
SignFails(r) ==
    /\ child[r].run
    /\ child' = [child EXCEPT ![r] = NoChild]
    /\ IF req[r].pc = "signing" THEN CredentialFails(r)
                                ELSE UNCHANGED <<req, dir>>
    /\ UNCHANGED <<server, store, ca, making, metric, world>>

\* NebulaCertBin::verify: a blocking call.
Verify(r) ==
    /\ req[r].pc = "verify"
    /\ LET crt == dir[r].crt
       IN  IF crt # None /\ ca["crt"] # None /\ crt.ca = ca["crt"]
           THEN /\ req' = [req EXCEPT ![r].pc = "read"]
                /\ UNCHANGED dir
           ELSE CredentialFails(r)
    /\ UNCHANGED <<server, store, ca, making, child, metric, world>>

\* The three files are read, the directory is dropped.
Deliver(r) ==
    /\ req[r].pc = "read"
    /\ IF ca["crt"] # None /\ NodeKey(r) # None /\ dir[r].crt # None
       THEN /\ req' = Answered(r, TRUE, [crt |-> dir[r].crt,
                                         key |-> NodeKey(r),
                                         ca |-> ca["crt"]])
            /\ dir' = Removed(r)
       ELSE CredentialFails(r)
    /\ UNCHANGED <<server, store, ca, making, child, metric, world>>

-----------------------------------------------------------------------------
(* What happens meanwhile *)

\* The client leaves: the handler is dropped where it awaits.  The write goes
\* on to the vault; a child goes on in a directory that is being removed.
Drop(r) ==
    /\ req[r].pc \in {"vault", "found", "signing", "read"}
    /\ req' = [req EXCEPT ![r].pc = "dropped"]
    /\ dir' = CASE req[r].pc \in {"vault", "found"} -> dir
                [] req[r].pc = "read" -> Removed(r)
                [] OTHER -> [dir EXCEPT ![r] =
                                [NoDir EXCEPT !.state = "removing"]]
    /\ UNCHANGED <<server, store, ca, making, child, metric, world>>

\* A directory that is not empty any more cannot be removed, and stays.
RemoveDir(r) ==
    /\ dir[r].state = "removing"
    /\ dir' = [dir EXCEPT ![r] =
                  IF \A f \in Files : dir[r][f] = None
                  THEN NoDir ELSE [@ EXCEPT !.state = "left"]]
    /\ UNCHANGED <<server, store, ca, making, child, req, metric, world>>

\* The broker ends: session objects are gone, files and children stay.
Crash ==
    /\ boot # Down
    /\ boot' = Down
    /\ late' = IF making[starts] = {} THEN late ELSE late \cup {starts}
    /\ token' = {o \in token : ~o.session}
    /\ dir' = [r \in Reqs |-> IF dir[r].state = "removing"
                              THEN [dir[r] EXCEPT !.state = "left"] ELSE dir[r]]
    /\ req' = [r \in Reqs |-> IF Running(r) THEN [req[r] EXCEPT !.pc = "lost"]
                                            ELSE req[r]]
    /\ metric' = [reads |-> 0, writes |-> 0]
    /\ UNCHANGED <<config, starts, vault, sent, ca, making, child, world>>

\* The operator removes wrapping keys or makes a pair, ...
ChangeKeys ==
    /\ ops < MaxOps /\ Named("pkcs11") # {}
    /\ ops' = ops + 1 /\ stable' = FALSE
    /\ \/ \E o \in token : o.class # "secret" /\ token' = token \ {o}
       \/ token' = token \cup
             {[label |-> Plugin("pkcs11").label, class |-> class,
               value |-> 100 + ops, session |-> FALSE] :
                 class \in {"public", "private"}}
    /\ UNCHANGED <<server, vault, sent, nebula, req, metric, kept, wrapped,
                   gone>>

\* ... writes a record of its own in the vault, ...
ChangeRecord(d) ==
    /\ ops < MaxOps /\ Named("resource") # {}
    /\ ops' = ops + 1
    /\ vault' = [vault EXCEPT ![VaultPath(d)] = NoData]
    /\ kept' = [kept EXCEPT ![d] = None]
    /\ req' = Forget(d, req)
    /\ UNCHANGED <<server, token, sent, nebula, metric, wrapped, stable, gone>>

\* ... or removes a file of the CA, but not while the plugin is started.
RemoveCa(f) ==
    /\ ops < MaxOps /\ ca[f] # None /\ ~Initialising("nebula-ca")
    /\ ops' = ops + 1
    /\ gone' = gone \cup {<<f, ca[f]>>}
    /\ ca' = [ca EXCEPT ![f] = None]
    /\ UNCHANGED <<server, store, making, dir, child, req, metric, kept,
                   wrapped, stable>>

StartUp ==
    \/ Start \/ StartResource \/ StartPkcs11 \/ StartNebula \/ MakeCa \/ CaFails

Handle(r) ==
    \/ Refuse(r) \/ VaultSend(r) \/ VaultGet(r) \/ AliyunGet(r) \/ AliyunSet(r)
    \/ Pkcs11Read(r) \/ Pkcs11Write(r)
    \/ WrapFind(r) \/ WrapPanics(r) \/ Wrap(r) \/ Unwrap(r) \/ BackendFails(r)
    \/ Sign(r) \/ Verify(r) \/ Deliver(r)

Outside ==
    \/ \E w \in sent : VaultSet(w) \/ VaultSetFails(w)
    \/ \E r \in Reqs : SignEnds(r) \/ SignFails(r) \/ RemoveDir(r) \/ Drop(r)
    \/ \E r \in Reqs, f \in Files : SignWrites(r, f)
    \/ \E n \in Ca, f \in Files : WriteCa(n, f)
    \/ ChangeKeys \/ Crash
    \/ \E d \in Descs : ChangeRecord(d)
    \/ \E f \in Files : RemoveCa(f)

Next ==
    \/ StartUp
    \/ \E r \in Reqs :
          \/ \E q \in Queries : \E body \in Bodies(r, q) : Arrive(r, q, body)
          \/ Handle(r)
    \/ Outside

Spec == Init /\ [][Next]_vars

-----------------------------------------------------------------------------
(* Properties *)

\* The variables have their types; `nebula-cert sign' runs while, and only
\* while, a credential is being signed, unless its handler is gone, and
\* `nebula-cert ca' while the plugin is started, unless it outlived the start.
TypeOK ==
    /\ config \in {d.config : d \in Deployments} /\ boot \in Down .. Up
    /\ starts \in 0 .. MaxStarts
    /\ late \subseteq 1 .. starts /\ making \in [Ca -> SUBSET Files]
    /\ \A o \in token : ObjectShape(o)
    /\ vault \in [VaultPaths -> Record] /\ kept \in [Descs -> Reqs \cup {None}]
    /\ \A w \in sent : w.desc \in Descs /\ w.data \in Reqs
    /\ ca \in [Files -> Ca \cup {None}]
    /\ dir \in [Reqs -> Dir] /\ child \in [Reqs -> Child]
    /\ \A r \in Reqs : /\ req[r].pc \in Pc
                       /\ req[r].ok => req[r].pc = "done"
                       /\ req[r].pc = "signing" => child[r].run
                       /\ req[r].pc \in {"verify", "read"} => ~child[r].run
    /\ metric \in [reads : 0 .. Cardinality(Reqs), writes : 0 .. Cardinality(Reqs)]
    /\ ops \in 0 .. MaxOps
    /\ \A n \in Ca : making[n] # {} =>
          n \in late \/ (n = starts /\ Initialising("nebula-ca"))

\* The secrets with a label that were in the token before the broker.
Imported(label) ==
    {o.value : o \in {x \in UNION {d.token : d \in {e \in Deployments :
                                                    e.config = config}} :
                        x.class = "secret" /\ x.label = label}}

\* A read of the vault, unless the vault fails, gives what was acknowledged
\* for that very resource, if nobody wrote it since; a read of the token gives
\* something that was sent for that very resource, or was there from the
\* beginning.
StoredIsServed ==
    \A r \in Reqs : LET q == req[r].q IN
       /\ req[r].want # None /\ req[r].pc = "done" =>
             req[r].got \in {req[r].want, BackendError}
       /\ req[r].ok /\ Pkcs11Resource(q) /\ q.method = "GET" =>
             \/ req[r].got \in Imported(Label(Desc(q)))
             \/ /\ req[r].got \in Reqs
                /\ LET sender == req[req[r].got].q
                   IN  /\ Pkcs11Resource(sender) /\ sender.method = "POST"
                       /\ Desc(sender) = Desc(q)

\* As long as the token holds one pair with the configured label, and does
\* what it is asked, whatever is wrapped is unwrapped again, across restarts;
\* nobody panics, whether it does or not.  If the operator changes the pair,
\* unwrapping may fail, but gives nothing else.
WrapRoundTrip ==
    \A r \in Reqs : LET q == req[r].q IN
       req[r].pc \in {"done", "panic"} /\ WrapKey(q) /\ ~Refused(q) =>
          /\ stable /\ (q.method = "POST" \/ req[r].body # None) =>
                /\ req[r].pc = "done"
                /\ req[r].ok \/ req[r].got = BackendError
          /\ req[r].ok /\ q.method = "GET" => req[r].got = req[r].body.plain

\* A credential holds the key and the certificate of its own request, and the
\* certificate verifies under the CA that comes with it, unless a `nebula-cert
\* ca' that outlived its start changed the CA after the certificate was
\* verified.
CredentialsAreOwn ==
    \A r \in Reqs :
       req[r].ok /\ Credential(req[r].q) =>
          /\ req[r].got.key = r /\ req[r].got.crt.name = r
          /\ req[r].got.crt.ca = req[r].got.ca \/ req[r].got.ca \in late

\* The CA that signed a credential is the one a later start finds and uses,
\* unless both of its files were removed or lost to a late write: a start
\* never makes a new CA over a half of the old one.  What replaces a file of
\* it meanwhile was written by a `nebula-cert ca' that outlived its start.
CaIsKept ==
    boot = Up /\ Named("nebula-ca") # {} =>
       \A r \in Reqs :
          req[r].ok /\ Credential(req[r].q) =>
             LET n == req[r].got.crt.ca
             IN  \/ \A f \in Files : ca[f] \in {None, n} \cup late
                 \/ \A f \in Files : <<f, n>> \in gone

\* The node key does not outlive its request: after an answer, whatever it
\* was, the directory is gone; it may stay only when the handler was dropped
\* while nebula-cert ran, or in a crash.
DirsAreOwned ==
    \A r \in Reqs :
       dir[r].state # "none" =>
          IF dir[r].state = "open"
          THEN req[r].pc \in {"signing", "verify", "read", "lost"}
          ELSE req[r].pc = "dropped"

\* Children and directories of nebula-cert belong to a request under way,
\* unless it was dropped or the broker crashed.
NebulaWork == TypeOK /\ DirsAreOwned
===============================================================================
