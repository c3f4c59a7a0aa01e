-------------------------------- MODULE Rvps --------------------------------
(***************************************************************************)
(* The reference value provider service: rvps/src/lib.rs, its gRPC server  *)
(* (server/mod.rs), its extractors and its two storages.                   *)
(*                                                                         *)
(* A registration takes the write lock of the server, extracts a list of   *)
(* reference values from its message and stores them one by one; a query   *)
(* takes the read lock.  The LocalFs storage inserts into a sled database. *)
(* The LocalJson storage reads its whole file, changes one entry and       *)
(* writes the whole file back with tokio::fs::write, which truncates and   *)
(* writes on a thread of the blocking pool: a handler that is dropped      *)
(* while it waits releases the lock, the thread goes on.                   *)
(*                                                                         *)
(* The lock inside LocalJson is taken with `let _ = ...', which drops the  *)
(* guard at once: it excludes nothing and is not part of the model.        *)
(***************************************************************************)
EXTENDS Naturals, FiniteSets, SequencesExt

CONSTANTS
    Names,          \* names of reference values
    Values,         \* contents: digests, or other JSON values
    Zero,           \* the digest that is all zeros
    Clients,        \* concurrent requests to the server
    Deployments,    \* how the service may be deployed and used
    Lifetime,       \* MONTHS_BEFORE_EXPIRATION
    MaxCrashes,     \* bound on crashes
    MaxOrphans,     \* bound on writes whose handler was dropped
    None

Version == {"0.1.0", "other"}
Provenance == {"sample", "swid", "in-toto", "unknown"}

\* The digests of a SWID Resource element of type Measurement.
Measurement == [name : Names, hashes : Seq(Values \cup {Zero})]

MessageShape(m) ==
    /\ m.version \in Version /\ m.type \in Provenance
    /\ m.malformed \in BOOLEAN
    /\ IF m.type = "sample"
       THEN /\ DOMAIN m.payload \subseteq Names /\ IsFiniteSet(DOMAIN m.payload)
            /\ \A n \in DOMAIN m.payload : m.payload[n] \in Values
       ELSE m.payload \in Seq(Measurement)

\* backend: ReferenceValueStorageConfig; faults: what may go wrong; messages:
\* those clients send; maxTime: bound on the clock.
DeploymentShape(d) ==
    /\ d.backend \in {"LocalFs", "LocalJson"}
    /\ d.faults \subseteq {"cancel", "crash", "io"}
    /\ \A m \in d.messages : MessageShape(m)
    /\ d.maxTime \in Nat

ASSUME RvpsAssumption ==
    /\ \A d \in Deployments : DeploymentShape(d)
    /\ Lifetime \in Nat /\ MaxCrashes \in Nat /\ MaxOrphans \in Nat
    /\ None \notin Names \cup Values \cup Clients
    /\ Zero \notin Values

VARIABLES
    deployment, \* never changes
    clock,
    crashes,
    file,       \* what the storage holds: a map, or a file that does not parse
    writes,     \* the threads that are writing the file of LocalJson
    writer,     \* who holds the RwLock of the server for writing
    readers,    \* who holds it for reading
    req,        \* the state of each request
    served,     \* the last answer to a query, and when it was given
    kept        \* what `set' acknowledged and nobody has set since

lock == <<writer, readers>>
env == <<deployment, clock, crashes>>
vars == <<env, file, writes, lock, req, served, kept>>

Backend == deployment.backend
Faults == deployment.faults
Messages == deployment.messages

-----------------------------------------------------------------------------
(* State *)

\* ReferenceValue; its value lists the contents that a policy looks up with
\* `in': which ones they are counts, not their order.
RV == [name : Names, value : SUBSET Values, expiration : Nat]

Map == [Names -> RV \cup {None}]

\* A file that does not parse is empty (truncated) or mixes two writes.
NoValues == [n \in Names |-> None]
Whole(map) == [state |-> "whole", map |-> map]
Empty == [state |-> "empty", map |-> NoValues]
Mixed == [state |-> "mixed", map |-> NoValues]
Parses == file.state = "whole"

ReqState == [pc : {"idle", "write_lock", "set", "wait", "read_lock", "get"},
             msg : Messages \cup {None}, items : Seq(RV),
             name : Names \cup {None}]
Idle == [pc |-> "idle", msg |-> None, items |-> <<>>, name |-> None]

\* A thread of the blocking pool in std::fs::write.  `by' is the handler that
\* waits for it, None once that handler was dropped.
Write == [by : Clients \cup {None}, map : Map, truncated : BOOLEAN]

NoAnswer == [name |-> None, rv |-> None, at |-> 0]

Init ==
    /\ deployment \in Deployments
    /\ clock = 0 /\ crashes = 0
    /\ file = Whole(NoValues)
    /\ writes = {}
    /\ writer = None /\ readers = {}
    /\ req = [c \in Clients |-> Idle]
    /\ served = NoAnswer
    /\ kept = NoValues

-----------------------------------------------------------------------------
(* Extractors *)

\* ReferenceValue::new().set_name(name).set_value(value)
NewRV(name, value) ==
    [name |-> name, value |-> value, expiration |-> clock + Lifetime]

\* SampleExtractor iterates over a HashMap, in any order.
SampleExtract(payload) ==
    { [i \in DOMAIN order |-> NewRV(order[i], {payload[order[i]]})] :
         order \in SetToSeqs(DOMAIN payload) }

\* SwidExtractor drops zero digests, and measurements that have no other; it
\* keeps the order of the measurements.
NonZero(hashes) == ToSet(hashes) \ {Zero}

SwidExtract(payload) ==
    LET measured == {k \in DOMAIN payload : NonZero(payload[k].hashes) # {}}
        inOrder == {o \in SetToSeqs(measured) :
                       \A i, j \in DOMAIN o : i < j => o[i] < o[j]}
    IN  { [i \in DOMAIN o |-> NewRV(payload[o[i]].name,
                                   NonZero(payload[o[i]].hashes))] :
             o \in inOrder }

\* Extractors::process.  The lists a message may give, none if it is refused.
\* The in-toto extractor verifies and extracts nothing.
Process(m) ==
    CASE m.malformed          -> {}
      [] m.type = "unknown"   -> {}
      [] m.type = "sample"    -> SampleExtract(m.payload)
      [] m.type = "swid"      -> SwidExtract(m.payload)
      [] m.type = "in-toto"   -> { <<>> }

\* What verify_and_extract is about to store.
Extracted(m) == IF m.version # "0.1.0" THEN {} ELSE Process(m)

-----------------------------------------------------------------------------
(* register_reference_value *)

Goto(c, pc) == req' = [req EXCEPT ![c].pc = pc]

RegisterStart(c, m) ==
    /\ req[c].pc = "idle"
    /\ req' = [req EXCEPT ![c].pc = "write_lock", ![c].msg = m]
    /\ UNCHANGED <<env, file, writes, lock, served, kept>>

\* Mutant: the lock is dropped as soon as it is taken, as in LocalJson.
DropsGuard == writer = None

CanWrite == writer = None /\ readers = {}

\* The message is refused: the lock is taken and released.
RegisterRefused(c) ==
    /\ req[c].pc = "write_lock" /\ CanWrite
    /\ Extracted(req[c].msg) = {}
    /\ req' = [req EXCEPT ![c] = Idle]
    /\ UNCHANGED <<env, file, writes, lock, served, kept>>

\* A message without reference values ends at once.
RegisterLock(c) ==
    /\ req[c].pc = "write_lock" /\ CanWrite
    /\ \E items \in Extracted(req[c].msg) :
          IF items = <<>>
          THEN /\ req' = [req EXCEPT ![c] = Idle]
               /\ UNCHANGED writer
          ELSE /\ req' = [req EXCEPT ![c].pc = "set", ![c].msg = None,
                                     ![c].items = items]
               /\ writer' = c
    /\ UNCHANGED <<env, file, writes, readers, served, kept>>

\* `set' returned Ok: the next reference value, or the end of the request.
SetReturns(c) ==
    LET rest == Tail(req[c].items)
    IN  /\ kept' = [kept EXCEPT ![Head(req[c].items).name] =
                                   Head(req[c].items)]
        /\ IF rest = <<>>
           THEN req' = [req EXCEPT ![c] = Idle] /\ writer' = None
           ELSE /\ req' = [req EXCEPT ![c].pc = "set", ![c].items = rest]
                /\ UNCHANGED writer

\* Mutant: an error leaves the lock taken.
SetFailsKeepsLock(c) ==
    /\ req' = [req EXCEPT ![c] = Idle]
    /\ kept' = [kept EXCEPT ![Head(req[c].items).name] = None]
    /\ UNCHANGED writer

\* `set' failed: the request ends, what it stored before stays.
SetFails(c) ==
    /\ req' = [req EXCEPT ![c] = Idle]
    /\ writer' = None
    /\ kept' = [kept EXCEPT ![Head(req[c].items).name] = None]

\* Mutant: the storage keeps the value it has.
KeepsOld(rv) ==
    IF file.map[rv.name] # None THEN file.map
                                ELSE [file.map EXCEPT ![rv.name] = rv]

\* Mutant: the other values are not written back.
OnlyNew(rv) == [NoValues EXCEPT ![rv.name] = rv]

\* What the storage holds once a reference value is set.
Updated(rv) == [file.map EXCEPT ![rv.name] = rv]

\* LocalFs: sled's insert and flush, no await between them.
SledSet(c) ==
    /\ Backend = "LocalFs" /\ req[c].pc = "set"
    /\ file' = Whole(Updated(Head(req[c].items)))
    /\ SetReturns(c)
    /\ UNCHANGED <<env, writes, readers, served>>

\* The insert fails, or only the flush does.
SledFails(c) ==
    /\ Backend = "LocalFs" /\ req[c].pc = "set" /\ "io" \in Faults
    /\ file' \in {file, Whole(Updated(Head(req[c].items)))}
    /\ SetFails(c)
    /\ UNCHANGED <<env, writes, readers, served>>

\* LocalJson: the file is read and the new content given to a thread.
JsonRead(c) ==
    /\ Backend = "LocalJson" /\ req[c].pc = "set" /\ Parses
    /\ Goto(c, "wait")
    /\ writes' = writes \cup
          {[by |-> c, map |-> Updated(Head(req[c].items)),
            truncated |-> FALSE]}
    /\ kept' = [kept EXCEPT ![Head(req[c].items).name] = None]
    /\ UNCHANGED <<env, file, lock, served>>

\* The file does not parse, or cannot be read.
JsonReadFails(c) ==
    /\ Backend = "LocalJson" /\ req[c].pc = "set"
    /\ ~Parses \/ "io" \in Faults
    /\ SetFails(c)
    /\ UNCHANGED <<env, file, writes, readers, served>>

-----------------------------------------------------------------------------
(* The threads that write the file of LocalJson *)

Truncate(w) ==
    /\ ~w.truncated
    /\ file' = Empty
    /\ writes' = (writes \ {w}) \cup {[w EXCEPT !.truncated = TRUE]}
    /\ UNCHANGED <<env, lock, req, served, kept>>

\* Writing over what another thread wrote since may leave the end of it.
Finish(w) ==
    /\ w.truncated
    /\ \/ file' = Whole(w.map)
       \/ file # Empty /\ file' = Mixed
    /\ writes' = writes \ {w}
    /\ IF w.by = None THEN UNCHANGED <<writer, req, kept>>
                      ELSE SetReturns(w.by)
    /\ UNCHANGED <<env, readers, served>>

\* The file cannot be opened, or not written once truncated.
WriteFails(w) ==
    /\ "io" \in Faults
    /\ writes' = writes \ {w}
    /\ IF w.by = None THEN UNCHANGED <<writer, req, kept>> ELSE SetFails(w.by)
    /\ UNCHANGED <<env, file, readers, served>>

-----------------------------------------------------------------------------
(* query_reference_value *)

QueryStart(c, n) ==
    /\ req[c].pc = "idle"
    /\ req' = [req EXCEPT ![c].pc = "read_lock", ![c].name = n]
    /\ UNCHANGED <<env, file, writes, lock, served, kept>>

QueryLock(c) ==
    /\ req[c].pc = "read_lock" /\ writer = None
    /\ Goto(c, "get")
    /\ readers' = readers \cup {c}
    /\ UNCHANGED <<env, file, writes, writer, served, kept>>

\* Whatever is stored under the name is served; its expiration is not read.
QueryAnswers(c) ==
    /\ req[c].pc = "get" /\ Parses
    /\ served' = [name |-> req[c].name, rv |-> file.map[req[c].name],
                  at |-> clock]
    /\ req' = [req EXCEPT ![c] = Idle]
    /\ readers' = readers \ {c}
    /\ UNCHANGED <<env, file, writes, writer, kept>>

QueryFails(c) ==
    /\ req[c].pc = "get"
    /\ ~Parses \/ "io" \in Faults
    /\ req' = [req EXCEPT ![c] = Idle]
    /\ readers' = readers \ {c}
    /\ UNCHANGED <<env, file, writes, writer, served, kept>>

-----------------------------------------------------------------------------
(* The environment *)

\* The client is gone and the server drops the handler at an await: the lock
\* is released, a write under way is not stopped.
Cancel(c) ==
    /\ "cancel" \in Faults
    /\ Cardinality({w \in writes : w.by = None}) < MaxOrphans
    /\ \/ req[c].pc \in {"write_lock", "wait", "read_lock"}
       \/ Backend = "LocalJson" /\ req[c].pc \in {"set", "get"}
    /\ req' = [req EXCEPT ![c] = Idle]
    /\ writer' = IF writer = c THEN None ELSE writer
    /\ readers' = readers \ {c}
    /\ writes' =
          { IF w.by = c THEN [w EXCEPT !.by = None] ELSE w : w \in writes }
    /\ UNCHANGED <<env, file, served, kept>>

\* The process dies and is started again; the storage is opened as it is.
Crash ==
    /\ "crash" \in Faults /\ crashes < MaxCrashes
    /\ crashes' = crashes + 1
    /\ writes' = {} /\ writer' = None /\ readers' = {}
    /\ req' = [c \in Clients |-> Idle]
    /\ UNCHANGED <<deployment, clock, file, served, kept>>

Tick ==
    /\ clock < deployment.maxTime
    /\ clock' = clock + 1
    /\ UNCHANGED <<deployment, crashes, file, writes, lock, req, served, kept>>

Register(c) ==
    \/ RegisterRefused(c) \/ RegisterLock(c)
    \/ SledSet(c) \/ SledFails(c) \/ JsonRead(c) \/ JsonReadFails(c)

Query(c) == QueryLock(c) \/ QueryAnswers(c) \/ QueryFails(c)

Thread == \E w \in writes : Truncate(w) \/ Finish(w) \/ WriteFails(w)

Next ==
    \/ \E c \in Clients :
          \/ \E m \in Messages : RegisterStart(c, m)
          \/ \E n \in Names : QueryStart(c, n)
          \/ Register(c) \/ Query(c) \/ Cancel(c)
    \/ Thread \/ Crash \/ Tick

\* The executor polls a handler that can go on, the blocking pool runs its
\* threads, and tokio's RwLock serves its waiters in the order they came.
Fairness ==
    /\ \A c \in Clients : SF_vars(Register(c)) /\ SF_vars(Query(c))
    /\ WF_vars(Thread)

Spec == Init /\ [][Next]_vars
LiveSpec == Spec /\ Fairness

-----------------------------------------------------------------------------
(* Properties *)

\* Type correctness of the server, its locks and its storage.
TypeOK ==
    /\ deployment \in Deployments
    /\ clock \in 0..deployment.maxTime /\ crashes \in 0..MaxCrashes
    /\ file \in [state : {"whole", "empty", "mixed"}, map : Map]
    /\ writes \subseteq Write
    /\ writer \in Clients \cup {None} /\ readers \subseteq Clients
    /\ req \in [Clients -> ReqState]
    /\ served \in [name : Names \cup {None}, rv : RV \cup {None}, at : Nat]
    /\ kept \in Map

\* sled, or JSON where no handler is dropped, no write fails and nothing
\* crashes: the JSON file is rewritten as a whole, by a thread that may
\* outlive the lock, so one fault may take any value with it.
Intact == Backend = "LocalFs" \/ Faults = {}

\* A reference value whose `set' returned Ok is what the storage holds under
\* its name until another `set' of that name (storage/mod.rs).
KeptAreStored ==
    Intact =>
        \A n \in Names :
            kept[n] # None => /\ Parses \/ writes # {}
                              /\ Parses => file.map[n] = kept[n]

\* The locks are held by handlers that are alive and past the point where
\* they took them, and a handler that waits has a thread that writes for it
\* (server/mod.rs), whatever is dropped or fails.
LocksHeld ==
    /\ writer # None => req[writer].pc \in {"set", "wait"}
    /\ readers = {c \in Clients : req[c].pc = "get"}
    /\ writer # None => readers = {}
    /\ \A c \in Clients :
          /\ req[c].pc \in {"set", "wait"} => writer = c
          /\ req[c].pc = "wait" => \E w \in writes : w.by = c
    /\ \A w \in writes : w.by # None => req[w.by].pc = "wait"

\* The file of LocalJson is written by one thread at a time, the one the
\* holder of the write lock waits for, and no query runs then.
OneWriterNoReader ==
    Intact /\ writes # {} =>
        /\ Cardinality(writes) = 1
        /\ \A w \in writes : w.by = writer /\ writer # None
        /\ readers = {}

\* A query never meets a file that does not parse.
QueriesParse == Intact => \A c \in Clients : req[c].pc = "get" => Parses

\* The locks do their work: they belong to live handlers, one thread writes
\* the file and nobody reads it then.
LocksWork == TypeOK /\ LocksHeld /\ OneWriterNoReader /\ QueriesParse

\* Every registration and every query ends.
RequestsEnd == \A c \in Clients : req[c].pc # "idle" ~> req[c].pc = "idle"

-----------------------------------------------------------------------------
(* The service implements the abstract store. *)

\* What a reader would find: while the file is being written, its new content.
AbstractFile ==
    IF Parses \/ ~Intact THEN file.map
                         ELSE (CHOOSE w \in writes : w.truncated).map

Wanted == UNION { ToSet(req[c].items) : c \in Clients }

Store == INSTANCE RvStore WITH
    intact <- Intact,
    store <- AbstractFile,
    wanted <- Wanted,
    served <- [name |-> served.name, rv |-> served.rv]

\* The service is a map that changes one name at a time, to a value that is
\* being registered, and queries answer with it, whatever fails or is dropped;
\* with the JSON storage a fault may lose values, but never serves one under
\* another name.
ImplementsStore == Store!SSpec
=============================================================================
