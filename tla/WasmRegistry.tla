---------------------------- MODULE WasmRegistry ----------------------------
(***************************************************************************)
(* The registry of WebAssembly verifier components of the attestation      *)
(* service: attestation-service/src/wasm_verifier/mod.rs.                  *)
(*                                                                         *)
(* A component is written to <id>.wasm, entered into the maps of           *)
(* RegistryState under a write lock, and the index is then persisted       *)
(* without the lock: write index.json.tmp, rename it to index.json.  All   *)
(* the requests of a process run concurrently; a crash loses the maps, and *)
(* a restart loads the index.                                              *)
(*                                                                         *)
(* A component stands for its bytes and for the SHA-256 of them; the UUID  *)
(* of a registration is the request that drew it.                          *)
(***************************************************************************)
EXTENDS Naturals, FiniteSets

CONSTANTS
    Comps,          \* verifier components
    Accepted,       \* those whose signature verifies and that compile
    RegReqs,        \* register_component calls; each names the UUID it draws
    EvalReqs,       \* evaluate calls that give a component id
    MaxCrashes,     \* bound on crashes
    None

ASSUME RegistryAssumption ==
    /\ Accepted \subseteq Comps
    /\ RegReqs \cap EvalReqs = {}
    /\ None \notin Comps \cup RegReqs \cup EvalReqs
    /\ MaxCrashes \in Nat

VARIABLES
    service,    \* "up", "down" after a crash, "broken": the index is unreadable
    crashes,
    byId,       \* RegistryState.by_id: the ids it has an entry for
    byHash,     \* RegistryState.by_hash
    compiled,   \* RegistryState.compiled: the ids it has a compiled copy for
    file,       \* the state of <id>.wasm
    inode,      \* the content of the files that index.json and its tmp name
    tmp,        \* the file index.json.tmp names
    index,      \* the file index.json names
    reg,        \* the state of each register_component
    eval        \* the state of each get_compiled_component

memory == <<byId, byHash, compiled>>
disk == <<file, inode, tmp, index>>
vars == <<service, crashes, memory, disk, reg, eval>>

-----------------------------------------------------------------------------
(* State *)

RegPc == {"idle", "lookup", "create", "write", "insert", "remove",
          "open", "flush", "rename", "done", "error", "killed"}
EvalPc == {"idle", "lookup", "read", "cache", "done", "error", "killed"}

\* snap is the RegistryIndex to persist, fd the file the request has opened as
\* index.json.tmp, id its answer.
RegState == [pc : RegPc, comp : Comps \cup {None}, id : RegReqs \cup {None},
             snap : SUBSET RegReqs, fd : RegReqs \cup {None}]
EvalState == [pc : EvalPc, id : RegReqs \cup {None}]

\* whole is FALSE for a file that is empty or mixes two indexes.
Content == [whole : BOOLEAN, ids : SUBSET RegReqs]

Init ==
    /\ service = "up" /\ crashes = 0
    /\ byId = {} /\ byHash = [c \in Comps |-> None] /\ compiled = {}
    /\ file = [r \in RegReqs |-> "absent"]
    /\ inode = [r \in RegReqs |-> [whole |-> FALSE, ids |-> {}]]
    /\ tmp = None /\ index = None
    /\ reg = [r \in RegReqs |-> [pc |-> "idle", comp |-> None, id |-> None,
                                 snap |-> {}, fd |-> None]]
    /\ eval = [e \in EvalReqs |-> [pc |-> "idle", id |-> None]]

-----------------------------------------------------------------------------
(* register_component *)

At(r, pc) == service = "up" /\ reg[r].pc = pc

\* The signature of the component is checked first.
RegReject(r, c) ==
    /\ At(r, "idle") /\ c \notin Accepted
    /\ reg' = [reg EXCEPT ![r].pc = "error", ![r].comp = c]
    /\ UNCHANGED <<service, crashes, memory, disk, eval>>

RegStart(r, c) ==
    /\ At(r, "idle") /\ c \in Accepted
    /\ reg' = [reg EXCEPT ![r].pc = "lookup", ![r].comp = c]
    /\ UNCHANGED <<service, crashes, memory, disk, eval>>

\* Fast path, under the read lock: the hash is registered already.
RegKnown(r) ==
    /\ At(r, "lookup")
    /\ byHash[reg[r].comp] # None
    /\ reg' = [reg EXCEPT ![r].pc = "done", ![r].id = byHash[reg[r].comp]]
    /\ UNCHANGED <<service, crashes, memory, disk, eval>>

\* The component is compiled; its file is to be written.
RegUnknown(r) ==
    /\ At(r, "lookup")
    /\ byHash[reg[r].comp] = None
    /\ reg' = [reg EXCEPT ![r].pc = "create"]
    /\ UNCHANGED <<service, crashes, memory, disk, eval>>

\* tokio::fs::write: create the file, then write it.
RegCreate(r) ==
    /\ At(r, "create")
    /\ file' = [file EXCEPT ![r] = "partial"]
    /\ reg' = [reg EXCEPT ![r].pc = "write"]
    /\ UNCHANGED <<service, crashes, memory, inode, tmp, index, eval>>

RegWrite(r) ==
    /\ At(r, "write")
    /\ file' = [file EXCEPT ![r] = "complete"]
    /\ reg' = [reg EXCEPT ![r].pc = "insert"]
    /\ UNCHANGED <<service, crashes, memory, inode, tmp, index, eval>>

\* Raced with another writer, seen under the write lock.
RegRaced(r) ==
    /\ At(r, "insert")
    /\ byHash[reg[r].comp] # None
    /\ reg' = [reg EXCEPT ![r].pc = "remove", ![r].id = byHash[reg[r].comp]]
    /\ UNCHANGED <<service, crashes, memory, disk, eval>>

\* Mutant: the file of the original registration is removed.
RemoveWinner(r) == reg[r].id

\* The file the loser of a race removes: its own.
RemovedBy(r) == r

\* That the file cannot be removed is ignored.
RegRemove(r) ==
    /\ At(r, "remove")
    /\ \E f \in {"absent", file[RemovedBy(r)]} :
          file' = [file EXCEPT ![RemovedBy(r)] = f]
    /\ reg' = [reg EXCEPT ![r].pc = "done"]
    /\ UNCHANGED <<service, crashes, memory, inode, tmp, index, eval>>

\* Mutant: the hash is not looked up again under the write lock.
NoRecheck(r) == TRUE

\* The hash is still unknown under the write lock.
StillUnknown(r) == byHash[reg[r].comp] = None

\* The entry is made and the index cloned, all under the write lock.
RegInsert(r) ==
    /\ At(r, "insert")
    /\ StillUnknown(r)
    /\ byId' = byId \cup {r}
    /\ byHash' = [byHash EXCEPT ![reg[r].comp] = r]
    /\ compiled' = compiled \cup {r}
    /\ reg' = [reg EXCEPT ![r].pc = "open", ![r].snap = byId']
    /\ UNCHANGED <<service, crashes, disk, eval>>

-----------------------------------------------------------------------------
(* persist_registry_index *)

\* tokio::fs::write opens index.json.tmp, created or truncated ...
PersistOpen(r) ==
    LET f == IF tmp = None THEN r ELSE tmp IN
    /\ At(r, "open")
    /\ tmp' = f
    /\ inode' = [inode EXCEPT ![f] = [whole |-> FALSE, ids |-> {}]]
    /\ reg' = [reg EXCEPT ![r].pc = "flush", ![r].fd = f]
    /\ UNCHANGED <<service, crashes, memory, file, index, eval>>

\* ... and writes it from the start.  A longer index that another request has
\* written meanwhile to the same file is not truncated.
PersistFlush(r) ==
    LET old == inode[reg[r].fd]
        longer == Cardinality(old.ids) > Cardinality(reg[r].snap)
    IN  /\ At(r, "flush")
        /\ inode' = [inode EXCEPT ![reg[r].fd] =
              [whole |-> ~longer,
               ids |-> IF longer THEN old.ids ELSE reg[r].snap]]
        /\ reg' = [reg EXCEPT ![r].pc = "rename"]
        /\ UNCHANGED <<service, crashes, memory, file, tmp, index, eval>>

PersistRename(r) ==
    /\ At(r, "rename")
    /\ tmp # None
    /\ index' = tmp /\ tmp' = None
    /\ reg' = [reg EXCEPT ![r].pc = "done", ![r].id = r]
    /\ UNCHANGED <<service, crashes, memory, file, inode, eval>>

\* Another request has renamed the tmp file: rename fails, and so does the
\* registration, although the entry stays.
PersistLost(r) ==
    /\ At(r, "rename")
    /\ tmp = None
    /\ reg' = [reg EXCEPT ![r].pc = "error"]
    /\ UNCHANGED <<service, crashes, memory, disk, eval>>

\* A file operation fails, or the client has gone: the handler ends where it
\* is and leaves what it has done.
RegAbort(r) ==
    /\ service = "up"
    /\ reg[r].pc \in {"lookup", "create", "write", "insert", "remove",
                      "open", "flush", "rename"}
    /\ reg' = [reg EXCEPT ![r].pc = "error"]
    /\ UNCHANGED <<service, crashes, memory, disk, eval>>

-----------------------------------------------------------------------------
(* get_compiled_component and get_component_bytes *)

EvalAt(e, pc) == service = "up" /\ eval[e].pc = pc

EvalStart(e, id) ==
    /\ EvalAt(e, "idle")
    /\ eval' = [eval EXCEPT ![e].pc = "lookup", ![e].id = id]
    /\ UNCHANGED <<service, crashes, memory, disk, reg>>

EvalHit(e) ==
    /\ EvalAt(e, "lookup")
    /\ eval[e].id \in compiled
    /\ eval' = [eval EXCEPT ![e].pc = "done"]
    /\ UNCHANGED <<service, crashes, memory, disk, reg>>

EvalMiss(e) ==
    /\ EvalAt(e, "lookup")
    /\ eval[e].id \notin compiled
    /\ eval' = [eval EXCEPT ![e].pc =
                  IF eval[e].id \in byId THEN "read" ELSE "error"]
    /\ UNCHANGED <<service, crashes, memory, disk, reg>>

\* The file is read and compiled.
EvalRead(e) ==
    /\ EvalAt(e, "read")
    /\ eval' = [eval EXCEPT ![e].pc =
                  IF file[eval[e].id] = "complete" THEN "cache" ELSE "error"]
    /\ UNCHANGED <<service, crashes, memory, disk, reg>>

EvalCache(e) ==
    /\ EvalAt(e, "cache")
    /\ compiled' = compiled \cup {eval[e].id}
    /\ eval' = [eval EXCEPT ![e].pc = "done"]
    /\ UNCHANGED <<service, crashes, byId, byHash, disk, reg>>

-----------------------------------------------------------------------------
(* Crash, and WasmVerifierHost::new with load_registry_index *)

Crash ==
    /\ service = "up" /\ crashes < MaxCrashes
    /\ service' = "down" /\ crashes' = crashes + 1
    /\ reg' = [r \in RegReqs |->
          IF reg[r].pc \in {"idle", "done", "error"} THEN reg[r]
          ELSE [reg[r] EXCEPT !.pc = "killed"]]
    /\ eval' = [e \in EvalReqs |->
          IF eval[e].pc \in {"idle", "done", "error"} THEN eval[e]
          ELSE [eval[e] EXCEPT !.pc = "killed"]]
    /\ UNCHANGED <<memory, disk>>

\* Entries without a file are skipped.
Loaded(ids) == {i \in ids : file[i] # "absent"}

\* by_hash is rebuilt from by_id.
Restart ==
    LET ids == IF index = None THEN {} ELSE Loaded(inode[index].ids) IN
    /\ service = "down"
    /\ index # None => inode[index].whole
    /\ service' = "up"
    /\ byId' = ids
    /\ byHash' \in [Comps -> ids \cup {None}]
    /\ \A c \in Comps :
          LET same == {i \in ids : reg[i].comp = c} IN
          IF same = {} THEN byHash'[c] = None ELSE byHash'[c] \in same
    /\ compiled' = {}
    /\ UNCHANGED <<crashes, disk, reg, eval>>

\* An index that does not parse stops the service from starting.
RestartFails ==
    /\ service = "down"
    /\ index # None /\ ~inode[index].whole
    /\ service' = "broken"
    /\ UNCHANGED <<crashes, memory, disk, reg, eval>>

-----------------------------------------------------------------------------
RegStep(r) ==
    \/ \E c \in Comps : RegReject(r, c) \/ RegStart(r, c)
    \/ RegKnown(r) \/ RegUnknown(r) \/ RegCreate(r) \/ RegWrite(r)
    \/ RegRaced(r) \/ RegRemove(r) \/ RegInsert(r)
    \/ PersistOpen(r) \/ PersistFlush(r) \/ PersistRename(r) \/ PersistLost(r)
    \/ RegAbort(r)

EvalStep(e) ==
    \/ \E id \in RegReqs : EvalStart(e, id)
    \/ EvalHit(e) \/ EvalMiss(e) \/ EvalRead(e) \/ EvalCache(e)

Next ==
    \/ \E r \in RegReqs : RegStep(r)
    \/ \E e \in EvalReqs : EvalStep(e)
    \/ Crash \/ Restart \/ RestartFails

Spec == Init /\ [][Next]_vars

-----------------------------------------------------------------------------
(* Properties *)

\* Every variable stays in its type.
TypeOK ==
    /\ service \in {"up", "down", "broken"}
    /\ crashes \in Nat
    /\ byId \subseteq RegReqs
    /\ byHash \in [Comps -> RegReqs \cup {None}]
    /\ compiled \subseteq RegReqs
    /\ file \in [RegReqs -> {"absent", "partial", "complete"}]
    /\ inode \in [RegReqs -> Content]
    /\ tmp \in RegReqs \cup {None}
    /\ index \in RegReqs \cup {None}
    /\ reg \in [RegReqs -> RegState]
    /\ eval \in [EvalReqs -> EvalState]

\* by_id and by_hash are inverse to each other: a component has one id, under
\* any race of registrations and after any restart.
MapsAgree ==
    /\ \A c \in Comps : byHash[c] # None =>
          byHash[c] \in byId /\ reg[byHash[c]].comp = c
    /\ \A i \in byId : byHash[reg[i].comp] = i

\* Whatever has an entry in memory has its whole file on disk: the file is
\* written before the entry, and only the loser of a race removes one.
EntriesHaveFiles == \A i \in byId : file[i] = "complete"

\* Whatever an index on disk names has its whole file on disk, also in the
\* instant of a crash and when persists overlap: no entry is skipped by load.
IndexNamesFiles ==
    \A n \in {tmp, index} \ {None} : \A i \in inode[n].ids :
        file[i] = "complete" /\ reg[i].comp # None

\* A compiled copy is of a component that is registered.
CompiledAreRegistered == compiled \subseteq byId

\* Answers of the running process for one component are one id.
AnswersAgree ==
    crashes = 0 =>
        \A q, r \in RegReqs :
            (reg[q].pc = "done" /\ reg[r].pc = "done" /\ reg[q].comp = reg[r].comp)
                => reg[q].id = reg[r].id

\* The state in memory is consistent whatever races and restarts there are:
\* one id for a component in both maps and in every answer, and no compiled
\* copy of anything else.
StateAgrees ==
    TypeOK /\ MapsAgree /\ CompiledAreRegistered /\ AnswersAgree

\* Whatever memory or an index on disk names is on disk in full, although
\* files, entries and index are written in separate steps that may fail.
DiskAgrees == EntriesHaveFiles /\ IndexNamesFiles

\* lib.rs:179 says that register_component_verifier returns a stable component
\* ID: an id whose own registration has persisted the index and returned is
\* known whenever the service is up.
StableId ==
    service = "up" =>
        \A r \in RegReqs : (reg[r].pc = "done" /\ reg[r].id = r) => r \in byId

=============================================================================
