------------------------- MODULE WasmRegistryProofs -------------------------
(***************************************************************************)
(* Proofs about WasmRegistry for any components, any number of concurrent  *)
(* registrations and evaluations, and any number of crashes.               *)
(***************************************************************************)
EXTENDS WasmRegistry, TLAPS

-----------------------------------------------------------------------------
(* The inductive invariant *)

\* What a registration has done by the time it reaches a program point.
RegProgress ==
    \A r \in RegReqs :
        /\ reg[r].pc # "idle" => reg[r].comp \in Comps
        /\ reg[r].pc = "insert" => file[r] = "complete"
        /\ reg[r].pc = "flush" => reg[r].fd \in RegReqs

\* Id i is past its insertion and its file is whole: no step touches the file
\* or the component of such an id again.
Entered(i) ==
    /\ file[i] = "complete"
    /\ reg[i].comp \in Comps
    /\ reg[i].pc \in {"open", "flush", "rename", "done", "error", "killed"}

\* An index as it may be cloned, persisted or loaded: ids past their insertion,
\* no two of them for one component.
SoundIndex(ids) ==
    /\ \A i \in ids : Entered(i)
    /\ \A i, j \in ids : reg[i].comp = reg[j].comp => i = j

\* Every index is sound: the one in memory, the clones that are on their way
\* to the disk, and the content of every file they were written to.
IndexesAreSound ==
    /\ SoundIndex(byId)
    /\ \A r \in RegReqs : SoundIndex(reg[r].snap)
    /\ \A n \in RegReqs : SoundIndex(inode[n].ids)

\* An evaluation reads and compiles a component that is registered, and none
\* does after a crash.
EvalProgress ==
    \A e \in EvalReqs : eval[e].pc \in {"read", "cache"} =>
        service = "up" /\ eval[e].id \in byId

\* Before the first crash the answers are what by_hash holds.
AnswerIsEntry ==
    /\ crashes = 0 => service = "up"
    /\ crashes = 0 => \A r \in RegReqs :
          /\ reg[r].pc \in {"remove", "done"} =>
                byHash[reg[r].comp] # None /\ reg[r].id = byHash[reg[r].comp]
          /\ reg[r].pc \in {"open", "flush", "rename"} =>
                byHash[reg[r].comp] = r

IndInv ==
    /\ TypeOK
    /\ RegProgress
    /\ IndexesAreSound
    /\ MapsAgree
    /\ CompiledAreRegistered
    /\ EvalProgress
    /\ AnswerIsEntry

-----------------------------------------------------------------------------
(* Facts the steps share *)

\* No id that is past its insertion loses its file or its component: what a
\* step must respect for the indexes to stay sound.
EnteredStay ==
    \A i \in RegReqs : Entered(i) => Entered(i)' /\ reg'[i].comp = reg[i].comp

\* A step that changes neither an index nor what is entered keeps all of them
\* sound.
LEMMA IndexesStay ==
  ASSUME IndInv, EnteredStay, byId' = byId, inode' = inode,
         \A r \in RegReqs : reg'[r].snap = reg[r].snap
  PROVE  IndexesAreSound'
<1>1. /\ byId \in SUBSET RegReqs
      /\ \A r \in RegReqs : reg[r].snap \in SUBSET RegReqs
      /\ \A n \in RegReqs : inode[n].ids \in SUBSET RegReqs
  BY DEF IndInv, TypeOK, RegState, Content
<1> QED BY <1>1 DEF IndInv, IndexesAreSound, SoundIndex, EnteredStay

\* A step that keeps the maps and what is entered keeps the maps inverse.
LEMMA MapsStay ==
  ASSUME IndInv, EnteredStay, byId' = byId, byHash' = byHash
  PROVE  MapsAgree'
<1>1. \A i \in byId : i \in RegReqs /\ Entered(i)
  BY DEF IndInv, TypeOK, IndexesAreSound, SoundIndex
<1>2. \A i \in byId : reg'[i].comp = reg[i].comp
  BY <1>1 DEF EnteredStay
<1> QED BY <1>2 DEF IndInv, MapsAgree

-----------------------------------------------------------------------------
(* One lemma per kind of step *)

\* A registration moves on and changes nothing but its own program point and,
\* when it starts, the component it names.
LEMMA RegMoves ==
  ASSUME IndInv, NEW r \in RegReqs, NEW p \in RegPc,
         service = "up",
         \/ /\ reg[r].pc = "idle" /\ p \in {"lookup", "error"}
            /\ \E c \in Comps : reg' = [reg EXCEPT ![r].pc = p, ![r].comp = c]
         \/ /\ reg[r].pc = "lookup" /\ p = "create"
            /\ reg' = [reg EXCEPT ![r].pc = p]
         \/ /\ reg[r].pc # "idle" /\ p = "error"
            /\ reg' = [reg EXCEPT ![r].pc = p],
         UNCHANGED <<service, crashes, memory, disk, eval>>
  PROVE  IndInv'
<1> USE DEF memory, disk
<1>1. /\ reg'[r].pc = p /\ reg'[r].id = reg[r].id
      /\ reg'[r].snap = reg[r].snap /\ reg'[r].fd = reg[r].fd
      /\ \/ reg[r].pc = "idle" /\ reg'[r].comp \in Comps
         \/ reg[r].pc # "idle" /\ reg'[r].comp = reg[r].comp
      /\ \A q \in RegReqs \ {r} : reg'[q] = reg[q]
  BY DEF IndInv, TypeOK, RegState
<1>2. TypeOK'
  BY DEF IndInv, TypeOK, RegState
<1>3. EnteredStay
  BY <1>1 DEF EnteredStay, Entered
<1>4. RegProgress'
  BY <1>1 DEF IndInv, RegProgress
<1>5. IndexesAreSound' /\ MapsAgree'
  BY <1>1, <1>3, IndexesStay, MapsStay
<1>6. CompiledAreRegistered' /\ EvalProgress'
  BY DEF IndInv, CompiledAreRegistered, EvalProgress
<1>7. AnswerIsEntry'
  BY <1>1 DEF IndInv, AnswerIsEntry
<1> QED BY <1>2, <1>4, <1>5, <1>6, <1>7 DEF IndInv

\* A registration finds the hash in by_hash, before or after writing its file.
LEMMA RegFinds ==
  ASSUME IndInv, NEW r \in RegReqs, RegKnown(r) \/ RegRaced(r)
  PROVE  IndInv'
<1> USE DEF memory, disk, RegKnown, RegRaced, At
<1>1. /\ reg[r].pc # "idle" /\ reg[r].comp \in Comps
      /\ reg[r].pc \in {"lookup", "insert"}
      /\ reg'[r].pc \in {"done", "remove"}
      /\ byHash[reg[r].comp] # None
      /\ reg'[r].id = byHash[reg[r].comp]
      /\ reg'[r].snap = reg[r].snap /\ reg'[r].fd = reg[r].fd
      /\ reg'[r].comp = reg[r].comp
      /\ \A q \in RegReqs \ {r} : reg'[q] = reg[q]
  BY DEF IndInv, TypeOK, RegState, RegProgress
<1>2. TypeOK'
  BY <1>1 DEF IndInv, TypeOK, RegState, RegPc
<1>3. EnteredStay
  BY <1>1 DEF EnteredStay, Entered
<1>4. RegProgress'
  BY <1>1 DEF IndInv, RegProgress
<1>5. IndexesAreSound' /\ MapsAgree'
  BY <1>1, <1>3, IndexesStay, MapsStay
<1>6. CompiledAreRegistered' /\ EvalProgress'
  BY DEF IndInv, CompiledAreRegistered, EvalProgress
<1>7. AnswerIsEntry'
  BY <1>1 DEF IndInv, AnswerIsEntry
<1> QED BY <1>2, <1>4, <1>5, <1>6, <1>7 DEF IndInv

\* A registration creates, writes or removes its own file, which no index
\* names yet.
LEMMA RegFiles ==
  ASSUME IndInv, NEW r \in RegReqs, RegCreate(r) \/ RegWrite(r) \/ RegRemove(r)
  PROVE  IndInv'
<1> USE DEF memory, RegCreate, RegWrite, RegRemove, RemovedBy, At
<1>1. /\ reg[r].pc \in {"create", "write", "remove"}
      /\ reg[r].pc = "create" => reg'[r].pc = "write"
      /\ reg[r].pc = "write" => reg'[r].pc = "insert" /\ file'[r] = "complete"
      /\ reg[r].pc = "remove" => reg'[r].pc = "done"
      /\ reg'[r].id = reg[r].id
      /\ reg'[r].snap = reg[r].snap /\ reg'[r].fd = reg[r].fd
      /\ reg'[r].comp = reg[r].comp
      /\ \A q \in RegReqs \ {r} : reg'[q] = reg[q] /\ file'[q] = file[q]
  BY DEF IndInv, TypeOK, RegState
<1>2. TypeOK'
  <2>1. file' \in [RegReqs -> {"absent", "partial", "complete"}]
    BY DEF IndInv, TypeOK
  <2>2. reg' \in [RegReqs -> RegState]
    BY DEF IndInv, TypeOK, RegState, RegPc
  <2> QED BY <2>1, <2>2 DEF IndInv, TypeOK
<1>3. EnteredStay
  BY <1>1 DEF EnteredStay, Entered
<1>4. RegProgress'
  BY <1>1 DEF IndInv, RegProgress
<1>5. IndexesAreSound' /\ MapsAgree'
  BY <1>1, <1>3, IndexesStay, MapsStay
<1>6. CompiledAreRegistered' /\ EvalProgress'
  BY DEF IndInv, CompiledAreRegistered, EvalProgress
<1>7. AnswerIsEntry'
  BY <1>1 DEF IndInv, AnswerIsEntry
<1> QED BY <1>2, <1>4, <1>5, <1>6, <1>7 DEF IndInv

\* The entry is made: the component has none, so the maps stay inverse and
\* the clone of the index is sound.
LEMMA RegInserts ==
  ASSUME IndInv, NEW r \in RegReqs, RegInsert(r)
  PROVE  IndInv'
<1> DEFINE c == reg[r].comp
<1>0. /\ reg[r].pc = "insert" /\ c \in Comps /\ file[r] = "complete"
      /\ byHash[c] = None /\ byHash \in [Comps -> RegReqs \cup {None}]
      /\ byId \subseteq RegReqs /\ service = "up"
  BY DEF IndInv, TypeOK, RegProgress, RegInsert, StillUnknown, At
<1>1. /\ reg'[r].pc = "open" /\ reg'[r].id = reg[r].id
      /\ reg'[r].snap = byId \cup {r} /\ reg'[r].fd = reg[r].fd
      /\ reg'[r].comp = c
      /\ \A q \in RegReqs \ {r} : reg'[q] = reg[q]
  BY DEF IndInv, TypeOK, RegState, RegInsert
<1>2. /\ byId' = byId \cup {r} /\ compiled' = compiled \cup {r}
      /\ UNCHANGED <<service, crashes, file, inode, tmp, index, eval>>
  BY DEF RegInsert, disk
<1>3. /\ byHash' \in [Comps -> RegReqs \cup {None}]
      /\ byHash'[c] = r
      /\ \A d \in Comps \ {c} : byHash'[d] = byHash[d]
  BY <1>0 DEF RegInsert
<1>4. TypeOK'
  <2>1. [reg[r] EXCEPT !.pc = "open", !.snap = byId \cup {r}] \in RegState
    <3>1. \A S \in SUBSET RegReqs :
            [reg[r] EXCEPT !.pc = "open", !.snap = S] \in RegState
      <4>1. reg[r] \in RegState
        BY DEF IndInv, TypeOK
      <4> HIDE DEF c
      <4> QED BY <4>1 DEF RegState, RegPc
    <3>2. byId \cup {r} \in SUBSET RegReqs
      BY <1>0
    <3> QED BY <3>1, <3>2
  <2>2. reg' = [reg EXCEPT ![r] =
                 [reg[r] EXCEPT !.pc = "open", !.snap = byId \cup {r}]]
    BY <1>2 DEF IndInv, TypeOK, RegInsert
  <2> QED BY <2>1, <2>2, <1>0, <1>2, <1>3 DEF IndInv, TypeOK
<1>5. EnteredStay
  BY <1>0, <1>1, <1>2 DEF EnteredStay, Entered
<1>6. RegProgress'
  BY <1>0, <1>1, <1>2 DEF IndInv, RegProgress
<1>7. \A i \in byId : /\ i \in RegReqs /\ Entered(i) /\ reg[i].comp # c
                      /\ byHash[reg[i].comp] = i
  BY <1>0, RegistryAssumption DEF IndInv, MapsAgree, IndexesAreSound, SoundIndex
<1>8. \A i \in byId : reg'[i].comp = reg[i].comp /\ reg[i].comp \in Comps
  BY <1>7, <1>5 DEF EnteredStay, Entered
<1>9. MapsAgree'
  <2>1. \A d \in Comps : byHash'[d] # None =>
          byHash'[d] \in byId' /\ reg'[byHash'[d]].comp = d
    <3>1. \A d \in Comps : byHash[d] # None =>
            byHash[d] \in byId /\ reg[byHash[d]].comp = d
      BY DEF IndInv, MapsAgree
    <3> QED BY <3>1, <1>0, <1>1, <1>2, <1>3, <1>8
  <2>2. \A i \in byId' : byHash'[reg'[i].comp] = i
    BY <1>1, <1>2, <1>3, <1>7, <1>8
  <2> QED BY <2>1, <2>2 DEF MapsAgree
<1>10. /\ \A i \in byId \cup {r} : Entered(i)'
       /\ \A i, j \in byId \cup {r} : reg'[i].comp = reg'[j].comp => i = j
  <2>1. Entered(r)'
    BY <1>0, <1>1, <1>2 DEF Entered
  <2>2. \A i \in byId : Entered(i)'
    BY <1>5, <1>7 DEF EnteredStay
  <2>3. \A i, j \in byId : reg[i].comp = reg[j].comp => i = j
    BY <1>7
  <2> QED BY <2>1, <2>2, <2>3, <1>1, <1>7, <1>8
<1>11. IndexesAreSound'
  <2>1. \A q \in RegReqs : /\ reg[q].snap \in SUBSET RegReqs
                           /\ inode[q].ids \in SUBSET RegReqs
    BY DEF IndInv, TypeOK, RegState, Content
  <2>2. SoundIndex(byId)'
    BY <1>2, <1>10 DEF SoundIndex
  <2>3. ASSUME NEW q \in RegReqs PROVE SoundIndex(reg[q].snap)'
    <3>1. CASE q = r
      BY <3>1, <1>1, <1>10 DEF SoundIndex
    <3>2. CASE q # r
      <4>1. reg'[q].snap = reg[q].snap /\ SoundIndex(reg[q].snap)
        BY <3>2, <1>1 DEF IndInv, IndexesAreSound
      <4> QED BY <4>1, <2>1, <1>5 DEF SoundIndex, EnteredStay
    <3> QED BY <3>1, <3>2
  <2>4. ASSUME NEW q \in RegReqs PROVE SoundIndex(inode[q].ids)'
    <3>1. inode'[q].ids = inode[q].ids /\ SoundIndex(inode[q].ids)
      BY <1>2 DEF IndInv, IndexesAreSound
    <3> QED BY <3>1, <2>1, <1>5 DEF SoundIndex, EnteredStay
  <2> QED BY <2>2, <2>3, <2>4 DEF IndexesAreSound
<1>12. CompiledAreRegistered' /\ EvalProgress'
  BY <1>2 DEF IndInv, CompiledAreRegistered, EvalProgress
<1>13. AnswerIsEntry'
  <2> SUFFICES ASSUME crashes' = 0, NEW q \in RegReqs
               PROVE  /\ reg'[q].pc \in {"remove", "done"} =>
                            /\ byHash'[reg'[q].comp] # None
                            /\ reg'[q].id = byHash'[reg'[q].comp]
                      /\ reg'[q].pc \in {"open", "flush", "rename"} =>
                            byHash'[reg'[q].comp] = q
    BY <1>0, <1>2 DEF AnswerIsEntry
  <2>1. CASE q = r
    BY <2>1, <1>1, <1>3
  <2>2. CASE q # r /\ reg[q].comp # c
    BY <2>2, <1>1, <1>2, <1>3 DEF IndInv, AnswerIsEntry, RegProgress
  <2>3. CASE q # r /\ reg[q].comp = c
    BY <2>3, <1>0, <1>1, <1>2, RegistryAssumption DEF IndInv, AnswerIsEntry
  <2> QED BY <2>1, <2>2, <2>3
<1> QED BY <1>4, <1>6, <1>9, <1>11, <1>12, <1>13 DEF IndInv

\* persist_registry_index changes files of indexes only, and writes nothing
\* to them but a sound index.
LEMMA Persists ==
  ASSUME IndInv, NEW r \in RegReqs,
         PersistOpen(r) \/ PersistFlush(r) \/ PersistRename(r)
  PROVE  IndInv'
<1> USE DEF memory, PersistOpen, PersistFlush, PersistRename, At
<1>0. /\ reg[r].pc \in {"open", "flush", "rename"} /\ reg[r].comp \in Comps
      /\ reg[r].pc = "flush" => reg[r].fd \in RegReqs
      /\ reg[r] \in RegState
  BY DEF IndInv, TypeOK, RegProgress
<1>1. /\ reg[r].pc = "open" => reg'[r].pc = "flush" /\ reg'[r].fd \in RegReqs
      /\ reg[r].pc = "flush" => reg'[r].pc = "rename"
      /\ reg[r].pc = "rename" => reg'[r].pc = "done" /\ reg'[r].id = r
      /\ reg'[r].snap = reg[r].snap
      /\ reg'[r].comp = reg[r].comp
      /\ \A q \in RegReqs \ {r} : reg'[q] = reg[q]
  BY <1>0 DEF IndInv, TypeOK, RegState
<1>2. TypeOK'
  <2>1. reg' \in [RegReqs -> RegState]
    BY <1>0 DEF IndInv, TypeOK, RegState, RegPc
  <2>2. inode' \in [RegReqs -> Content]
    <3>1. CASE PersistOpen(r)
      <4>1. PICK f \in RegReqs :
              inode' = [inode EXCEPT ![f] = [whole |-> FALSE, ids |-> {}]]
        BY <3>1 DEF IndInv, TypeOK
      <4>2. [whole |-> FALSE, ids |-> {}] \in Content
        BY DEF Content
      <4> QED BY <4>1, <4>2 DEF IndInv, TypeOK
    <3>3. CASE PersistRename(r)
      BY <3>3 DEF IndInv, TypeOK
    <3>2. CASE PersistFlush(r)
      <4> DEFINE old == inode[reg[r].fd]
                 longer == Cardinality(old.ids) > Cardinality(reg[r].snap)
      <4>1. old \in Content /\ reg[r].snap \in SUBSET RegReqs
        BY <3>2, <1>0 DEF IndInv, TypeOK, RegState
      <4>2. inode' = [inode EXCEPT ![reg[r].fd] =
               [whole |-> ~longer,
                ids |-> IF longer THEN old.ids ELSE reg[r].snap]]
        BY <3>2
      <4> HIDE DEF longer, old
      <4>3. CASE longer
        <5>1. inode' = [inode EXCEPT ![reg[r].fd] =
                 [whole |-> FALSE, ids |-> old.ids]]
          BY <4>2, <4>3
        <5> QED BY <4>1, <5>1 DEF IndInv, TypeOK, Content
      <4>4. CASE ~longer
        <5>1. inode' = [inode EXCEPT ![reg[r].fd] =
                 [whole |-> TRUE, ids |-> reg[r].snap]]
          BY <4>2, <4>4
        <5> QED BY <4>1, <5>1 DEF IndInv, TypeOK, Content
      <4> QED BY <4>3, <4>4
    <3> QED BY <3>1, <3>2, <3>3
  <2>3. /\ tmp' \in RegReqs \cup {None} /\ index' \in RegReqs \cup {None}
    BY DEF IndInv, TypeOK
  <2> QED BY <2>1, <2>2, <2>3 DEF IndInv, TypeOK
<1>3. EnteredStay
  BY <1>0, <1>1 DEF EnteredStay, Entered
<1>4. RegProgress'
  BY <1>0, <1>1 DEF IndInv, RegProgress
<1>5. MapsAgree'
  BY <1>3, MapsStay
<1>6. \A n \in RegReqs : \/ inode'[n].ids = {}
                         \/ inode'[n].ids = inode[n].ids
                         \/ inode'[n].ids = reg[r].snap
  BY <1>0 DEF IndInv, TypeOK, Content
<1>7. IndexesAreSound'
  <2>1. /\ byId \in SUBSET RegReqs
        /\ \A q \in RegReqs : /\ reg[q].snap \in SUBSET RegReqs
                              /\ inode[q].ids \in SUBSET RegReqs
    BY DEF IndInv, TypeOK, RegState, Content
  <2>2. \A q \in RegReqs : reg'[q].snap = reg[q].snap
    BY <1>1
  <2>3. SoundIndex(byId)'
    BY <1>3, <2>1 DEF IndInv, IndexesAreSound, SoundIndex, EnteredStay
  <2>4. ASSUME NEW q \in RegReqs PROVE SoundIndex(reg[q].snap)'
    BY <1>3, <2>1, <2>2 DEF IndInv, IndexesAreSound, SoundIndex, EnteredStay
  <2>5. ASSUME NEW n \in RegReqs PROVE SoundIndex(inode[n].ids)'
    BY <1>3, <1>6, <2>1 DEF IndInv, IndexesAreSound, SoundIndex, EnteredStay
  <2> QED BY <2>3, <2>4, <2>5 DEF IndexesAreSound
<1>8. CompiledAreRegistered' /\ EvalProgress'
  BY DEF IndInv, CompiledAreRegistered, EvalProgress
<1>9. AnswerIsEntry'
  BY <1>0, <1>1, RegistryAssumption DEF IndInv, AnswerIsEntry
<1> QED BY <1>2, <1>4, <1>5, <1>7, <1>8, <1>9 DEF IndInv

\* get_compiled_component caches only what by_id names.
LEMMA Evaluates ==
  ASSUME IndInv, NEW e \in EvalReqs, EvalStep(e)
  PROVE  IndInv'
<1> USE DEF memory, disk, EvalAt
<1>1. /\ UNCHANGED <<service, crashes, byId, byHash, disk, reg>>
      /\ service = "up"
      /\ \A d \in EvalReqs \ {e} : eval'[d] = eval[d]
      /\ eval'[e].pc \in EvalPc /\ eval'[e].id \in RegReqs \cup {None}
      /\ eval' \in [EvalReqs -> EvalState]
      /\ eval'[e].pc \in {"read", "cache"} => eval'[e].id \in byId
      /\ compiled' \in {compiled, compiled \cup {eval[e].id}}
      /\ compiled' # compiled => eval[e].id \in byId
  BY DEF IndInv, TypeOK, EvalState, EvalPc, EvalProgress, EvalStep, EvalStart,
         EvalHit, EvalMiss, EvalRead, EvalCache
<1>2. TypeOK'
  BY <1>1 DEF IndInv, TypeOK
<1>3. EnteredStay
  BY <1>1 DEF EnteredStay, Entered
<1>4. RegProgress' /\ AnswerIsEntry'
  BY <1>1 DEF IndInv, RegProgress, AnswerIsEntry
<1>5. IndexesAreSound' /\ MapsAgree'
  BY <1>1, <1>3, IndexesStay, MapsStay
<1>6. CompiledAreRegistered' /\ EvalProgress'
  BY <1>1 DEF IndInv, CompiledAreRegistered, EvalProgress
<1> QED BY <1>2, <1>4, <1>5, <1>6 DEF IndInv

\* A crash ends every request that runs.
LEMMA Crashes ==
  ASSUME IndInv, Crash
  PROVE  IndInv'
<1> USE DEF memory, disk, Crash
<1>1. \A r \in RegReqs :
        /\ reg'[r].pc \in {reg[r].pc, "killed"}
        /\ reg'[r].pc # "killed" => reg'[r].pc \in {"idle", "done", "error"}
        /\ reg[r].pc = "idle" => reg'[r].pc = "idle"
        /\ reg'[r].comp = reg[r].comp /\ reg'[r].snap = reg[r].snap
  BY DEF IndInv, TypeOK, RegState, RegPc
<1>2. \A e \in EvalReqs : eval'[e].pc \notin {"read", "cache"}
  BY DEF IndInv, TypeOK, EvalState
<1>3. TypeOK'
  <2>1. reg' \in [RegReqs -> RegState]
    BY SMTT(30) DEF IndInv, TypeOK, RegState, RegPc
  <2>2. eval' \in [EvalReqs -> EvalState]
    BY SMTT(30) DEF IndInv, TypeOK, EvalState, EvalPc
  <2> QED BY <2>1, <2>2 DEF IndInv, TypeOK
<1>4. EnteredStay
  BY <1>1 DEF EnteredStay, Entered
<1>5. RegProgress'
  BY <1>1 DEF IndInv, RegProgress
<1>6. IndexesAreSound' /\ MapsAgree'
  BY <1>1, <1>4, IndexesStay, MapsStay
<1>7. CompiledAreRegistered' /\ EvalProgress'
  BY <1>2 DEF IndInv, CompiledAreRegistered, EvalProgress
<1>8. AnswerIsEntry'
  BY DEF IndInv, TypeOK, AnswerIsEntry
<1> QED BY <1>3, <1>5, <1>6, <1>7, <1>8 DEF IndInv

\* The index on disk is sound, so by_hash rebuilt from it is its inverse.
LEMMA Restarts ==
  ASSUME IndInv, Restart
  PROVE  IndInv'
<1> USE DEF disk, Restart
<1> DEFINE ids == IF index = None THEN {} ELSE Loaded(inode[index].ids)
<1>1. /\ byId' = ids /\ ids \subseteq RegReqs
      /\ \A i \in ids : Entered(i)
      /\ \A i, j \in ids : reg[i].comp = reg[j].comp => i = j
  BY DEF IndInv, TypeOK, Content, IndexesAreSound, SoundIndex, Loaded
<1>2. /\ byHash' \in [Comps -> ids \cup {None}]
      /\ \A c \in Comps : \/ /\ \A i \in ids : reg[i].comp # c
                             /\ byHash'[c] = None
                          \/ byHash'[c] \in ids /\ reg[byHash'[c]].comp = c
  OBVIOUS
<1> HIDE DEF ids
<1>3. TypeOK'
  BY <1>1, <1>2 DEF IndInv, TypeOK
<1>4. RegProgress'
  BY DEF IndInv, RegProgress
<1>5. IndexesAreSound'
  BY <1>1 DEF IndInv, IndexesAreSound, SoundIndex, Entered
<1>6. MapsAgree'
  BY <1>1, <1>2, RegistryAssumption DEF MapsAgree, Entered
<1>7. CompiledAreRegistered' /\ EvalProgress'
  BY DEF IndInv, CompiledAreRegistered, EvalProgress
<1>8. AnswerIsEntry'
  BY DEF IndInv, TypeOK, AnswerIsEntry
<1> QED BY <1>3, <1>4, <1>5, <1>6, <1>7, <1>8 DEF IndInv

\* The service does not start: nothing but its state changes.
LEMMA RestartsNot ==
  ASSUME IndInv, RestartFails
  PROVE  IndInv'
<1> USE DEF memory, disk, RestartFails
<1>1. EnteredStay
  BY DEF EnteredStay, Entered
<1>2. TypeOK' /\ RegProgress'
  BY DEF IndInv, TypeOK, RegProgress
<1>3. IndexesAreSound' /\ MapsAgree'
  BY <1>1, IndexesStay, MapsStay
<1>4. CompiledAreRegistered' /\ EvalProgress' /\ AnswerIsEntry'
  BY DEF IndInv, CompiledAreRegistered, EvalProgress, AnswerIsEntry
<1> QED BY <1>2, <1>3, <1>4 DEF IndInv

-----------------------------------------------------------------------------
(* The invariant *)

\* An empty registry satisfies the invariant.
LEMMA InitInv == Init => IndInv
  BY DEF Init, IndInv, TypeOK, RegState, RegPc, EvalState, EvalPc, Content,
         RegProgress, IndexesAreSound, SoundIndex, MapsAgree,
         CompiledAreRegistered, EvalProgress, AnswerIsEntry

\* Every step of every request, and every crash and restart, preserves it.
LEMMA NextInv == IndInv /\ [Next]_vars => IndInv'
<1> SUFFICES ASSUME IndInv, [Next]_vars PROVE IndInv'
  OBVIOUS
<1>1. ASSUME NEW r \in RegReqs, RegStep(r) PROVE IndInv'
  <2>1. ASSUME NEW c \in Comps, RegReject(r, c) \/ RegStart(r, c) PROVE IndInv'
    BY <2>1, RegMoves DEF RegReject, RegStart, At, RegPc
  <2>2. CASE RegUnknown(r)
    BY <2>2, RegMoves DEF RegUnknown, At, RegPc
  <2>3. CASE PersistLost(r)
    BY <2>3, RegMoves DEF PersistLost, At, RegPc
  <2>4. CASE RegAbort(r)
    BY <2>4, RegMoves DEF RegAbort, At, RegPc
  <2> QED BY <1>1, <2>1, <2>2, <2>3, <2>4, RegFinds, RegFiles, RegInserts,
             Persists DEF RegStep
<1>2. CASE UNCHANGED vars
  BY <1>2 DEF vars, memory, disk, IndInv, TypeOK, RegProgress, IndexesAreSound,
              SoundIndex, Entered, MapsAgree, CompiledAreRegistered,
              EvalProgress, AnswerIsEntry
<1> QED BY <1>1, <1>2, Evaluates, Crashes, Restarts, RestartsNot DEF Next

\* The invariant holds in every reachable state.
THEOREM Invariance == Spec => []IndInv
  BY InitInv, NextInv, PTL DEF Spec

-----------------------------------------------------------------------------
(* What follows from it *)

\* One id for a component in both maps and in every answer, and no compiled
\* copy of anything else, whatever registrations race and whenever the
\* service crashes.
THEOREM StateIsConsistent == Spec => []StateAgrees
<1>1. IndInv => StateAgrees
  BY DEF IndInv, StateAgrees, AnswersAgree, AnswerIsEntry
<1> QED BY <1>1, Invariance, PTL

\* Every file that memory, or an index on disk, names is there in full in
\* every state, the one a crash leaves included.
THEOREM DiskIsConsistent == Spec => []DiskAgrees
<1>1. IndInv => DiskAgrees
  BY RegistryAssumption
     DEF IndInv, TypeOK, DiskAgrees, EntriesHaveFiles, IndexNamesFiles,
         IndexesAreSound, SoundIndex, Entered
<1> QED BY <1>1, Invariance, PTL

=============================================================================
