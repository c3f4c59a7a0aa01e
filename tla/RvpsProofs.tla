----------------------------- MODULE RvpsProofs -----------------------------
(***************************************************************************)
(* Proofs about Rvps for any names, values, messages and deployments, any  *)
(* number of concurrent requests, crashes and abandoned writes.            *)
(***************************************************************************)
EXTENDS Rvps, FiniteSetTheorems, TLAPS

-----------------------------------------------------------------------------
(* The inductive invariant *)

\* What a request holds at a program point: the reference values it still has
\* to store from the write lock on, and nothing of the kind elsewhere.
ReqProgress ==
    \A c \in Clients :
        /\ req[c].pc \in {"set", "wait"} <=> req[c].items # <<>>
        /\ req[c].pc = "write_lock" => req[c].msg \in Messages
        /\ req[c].pc \in {"read_lock", "get"} => req[c].name \in Names

\* A handler waits for one thread.
OneThreadEach ==
    \A v, w \in writes : (v.by = w.by /\ v.by # None) => v = w

\* sled has no threads and its database always opens.
SledIsWhole == Backend = "LocalFs" => writes = {} /\ Parses

\* The reference value a thread is writing.
Writing(w) == Head(req[w.by].items)

\* Where nothing goes wrong, a thread has a handler, its content is the file
\* with one name replaced, the file is empty exactly while the thread is
\* between truncating and writing, and what it will write has every value
\* that is to be kept.
ThreadKeeps(w) ==
    /\ w.by # None
    /\ w.truncated => file = Empty
    /\ ~w.truncated => Parses /\ w.map = Updated(Writing(w))
    /\ w.map[Writing(w).name] = Writing(w)
    /\ kept[Writing(w).name] = None
    /\ \A n \in Names : kept[n] # None => w.map[n] = kept[n]

FileIsKept ==
    Intact =>
        /\ \A w \in writes : ThreadKeeps(w)
        /\ Parses \/ \E w \in writes : w.truncated
        /\ Parses => \A n \in Names : kept[n] # None => file.map[n] = kept[n]

\* A map holds under a name only values of that name.
Named(map) == \A n \in Names : map[n] # None => map[n].name = n

MapsAreNamed == Named(file.map) /\ \A w \in writes : Named(w.map)

IndInv ==
    /\ TypeOK
    /\ LocksHeld
    /\ ReqProgress
    /\ OneThreadEach
    /\ SledIsWhole
    /\ FileIsKept
    /\ MapsAreNamed

-----------------------------------------------------------------------------
(* Facts about the operators *)

\* The positions SetToSeqs lists are those of a sequence over its set.
LEMMA ListsAreSequences ==
  ASSUME NEW S, IsFiniteSet(S), NEW o \in SetToSeqs(S)
  PROVE  /\ Cardinality(S) \in Nat
         /\ DOMAIN o = 1..Cardinality(S)
         /\ \A i \in DOMAIN o : o[i] \in S
<1>1. Cardinality(S) \in Nat
  BY FS_CardinalityType
<1>2. o \in [1..Cardinality(S) -> S]
  BY DEF SetToSeqs
<1> QED BY <1>1, <1>2

\* A reference value made from a name and contents.
LEMMA NewRVTyped ==
  ASSUME TypeOK, NEW n \in Names, NEW v \in SUBSET Values
  PROVE  NewRV(n, v) \in RV
<1>1. clock + Lifetime \in Nat
  BY RvpsAssumption DEF TypeOK, DeploymentShape
<1> QED BY <1>1 DEF NewRV, RV

\* The extractors give lists of reference values.
LEMMA ExtractedTyped ==
  ASSUME TypeOK, NEW m \in Messages, NEW items \in Extracted(m)
  PROVE  items \in Seq(RV)
<1>1. MessageShape(m)
  BY RvpsAssumption DEF TypeOK, Messages, DeploymentShape
<1>2. items \in Process(m)
  BY DEF Extracted
<1>3. CASE m.type = "sample"
  <2>1. items \in SampleExtract(m.payload)
    BY <1>2, <1>3 DEF Process
  <2>2. PICK o \in SetToSeqs(DOMAIN m.payload) :
          items = [i \in DOMAIN o |-> NewRV(o[i], {m.payload[o[i]]})]
    BY <2>1 DEF SampleExtract
  <2>3. IsFiniteSet(DOMAIN m.payload)
    BY <1>1, <1>3 DEF MessageShape
  <2>4. /\ Cardinality(DOMAIN m.payload) \in Nat
        /\ DOMAIN o = 1..Cardinality(DOMAIN m.payload)
        /\ \A i \in DOMAIN o : o[i] \in DOMAIN m.payload
    BY <2>3, ListsAreSequences
  <2>5. \A n \in DOMAIN m.payload : n \in Names /\ {m.payload[n]} \in SUBSET Values
    BY <1>1, <1>3 DEF MessageShape
  <2>6. \A i \in DOMAIN o : NewRV(o[i], {m.payload[o[i]]}) \in RV
    BY <2>4, <2>5, NewRVTyped
  <2> DEFINE n == Cardinality(DOMAIN m.payload)
             e(i) == NewRV(o[i], {m.payload[o[i]]})
  <2>7. n \in Nat /\ items = [i \in 1..n |-> e(i)] /\ \A i \in 1..n : e(i) \in RV
    BY <2>2, <2>4, <2>6
  <2> HIDE DEF n, e
  <2> QED BY <2>7
<1>4. CASE m.type = "swid"
  <2> DEFINE p == m.payload
             measured == {k \in DOMAIN p : NonZero(p[k].hashes) # {}}
  <2>1. items \in SwidExtract(p)
    BY <1>2, <1>4 DEF Process
  <2>2. PICK o \in SetToSeqs(measured) :
          items = [i \in DOMAIN o |-> NewRV(p[o[i]].name, NonZero(p[o[i]].hashes))]
    BY <2>1 DEF SwidExtract
  <2>3. p \in Seq(Measurement)
    BY <1>1, <1>4 DEF MessageShape
  <2>4. IsFiniteSet(measured)
    <3>1. DOMAIN p = 1..Len(p) /\ Len(p) \in Nat
      BY <2>3
    <3>2. IsFiniteSet(1..Len(p))
      BY <3>1, FS_Interval
    <3>3. measured \subseteq 1..Len(p)
      BY <3>1
    <3> QED BY <3>2, <3>3, FS_Subset
  <2> HIDE DEF measured
  <2>5. /\ Cardinality(measured) \in Nat
        /\ DOMAIN o = 1..Cardinality(measured)
        /\ \A i \in DOMAIN o : o[i] \in measured
    BY <2>4, ListsAreSequences
  <2>6. \A k \in measured : k \in DOMAIN p
    BY DEF measured
  <2> HIDE DEF p
  <2>7. \A k \in DOMAIN p : p[k] \in Measurement
    BY <2>3
  <2>8. \A k \in DOMAIN p : /\ p[k].name \in Names
                            /\ p[k].hashes \in Seq(Values \cup {Zero})
    BY <2>7 DEF Measurement
  <2>9. \A k \in DOMAIN p : NonZero(p[k].hashes) \in SUBSET Values
    BY <2>8 DEF NonZero, ToSet
  <2>10. \A i \in DOMAIN o : NewRV(p[o[i]].name, NonZero(p[o[i]].hashes)) \in RV
    BY <2>5, <2>6, <2>8, <2>9, NewRVTyped
  <2> QED BY <2>2, <2>5, <2>10
<1>5. CASE m.type \notin {"sample", "swid"}
  <2>1. items = <<>>
    BY <1>1, <1>2, <1>5 DEF Process, MessageShape, Provenance
  <2> QED BY <2>1
<1> QED BY <1>3, <1>4, <1>5

\* The first of the values that are left to store, and the rest of them.
LEMMA HeadAndTail ==
  ASSUME NEW s \in Seq(RV), s # <<>>
  PROVE  /\ Head(s) \in RV /\ Head(s).name \in Names
         /\ Tail(s) \in Seq(RV)
         /\ ToSet(Tail(s)) \subseteq ToSet(s)
         /\ Head(s) \in ToSet(s)
<1>1. Head(s) \in RV /\ Tail(s) \in Seq(RV)
  OBVIOUS
<1>2. Head(s) = s[1] /\ 1 \in DOMAIN s
  OBVIOUS
<1>3. \A i \in DOMAIN Tail(s) : i + 1 \in DOMAIN s /\ Tail(s)[i] = s[i + 1]
  OBVIOUS
<1> QED BY <1>1, <1>2, <1>3 DEF ToSet, RV

\* Storing a value of a name keeps a map typed and its values under their
\* names.
LEMMA UpdatedTyped ==
  ASSUME TypeOK, Named(file.map), NEW rv \in RV
  PROVE  /\ Updated(rv) \in Map /\ Named(Updated(rv))
         /\ Updated(rv)[rv.name] = rv
         /\ \A n \in Names : n # rv.name => Updated(rv)[n] = file.map[n]
<1>1. file.map \in Map /\ rv.name \in Names
  BY DEF TypeOK, RV
<1> QED BY <1>1 DEF Updated, Map, Named

\* The empty map is typed, and has nothing under a wrong name.
LEMMA NoValuesTyped == NoValues \in Map /\ Named(NoValues)
  BY DEF NoValues, Map, Named

-----------------------------------------------------------------------------
(* One lemma per kind of step *)

\* What is intact stays so: the deployment never changes.
LEMMA SameDeployment ==
  ASSUME UNCHANGED deployment
  PROVE  /\ (Intact <=> Intact') /\ Backend' = Backend /\ Faults' = Faults
         /\ Messages' = Messages /\ ReqState' = ReqState
  BY DEF Intact, Backend, Faults, Messages, ReqState

\* Locks and threads belong to clients.
LEMMA Owners ==
  ASSUME TypeOK
  PROVE  /\ writer \in Clients \cup {None} /\ None \notin Clients
         /\ readers \subseteq Clients
         /\ \A w \in writes : w.by \in Clients \cup {None}
  BY RvpsAssumption DEF TypeOK, Write

\* A request that holds no lock moves on, and nothing else changes.
LEMMA Quiet ==
  ASSUME IndInv, NEW c \in Clients,
         req[c].pc \in {"idle", "write_lock"},
         UNCHANGED <<env, file, writes, lock, served, kept>>,
         req' \in [Clients -> ReqState],
         \A d \in Clients \ {c} : req'[d] = req[d],
         req'[c].pc \in {"idle", "write_lock", "read_lock"},
         req'[c].items = <<>>,
         req'[c].pc = "write_lock" => req'[c].msg \in Messages,
         req'[c].pc = "read_lock" => req'[c].name \in Names
  PROVE  IndInv'
<1> USE SameDeployment DEF env, lock
<1>1. TypeOK'
  BY DEF IndInv, TypeOK
<1>2. LocksHeld'
  BY Owners DEF IndInv, LocksHeld
<1>3. ReqProgress'
  BY DEF IndInv, ReqProgress
<1>4. OneThreadEach' /\ SledIsWhole' /\ MapsAreNamed'
  BY DEF IndInv, OneThreadEach, SledIsWhole, MapsAreNamed, Named, Parses
<1>5. FileIsKept'
  <2>1. \A w \in writes : w.by # None => w.by \in Clients \ {c}
    BY DEF IndInv, TypeOK, Write, LocksHeld
  <2>2. ASSUME Intact, NEW w \in writes, ThreadKeeps(w) PROVE ThreadKeeps(w)'
    <3>1. req'[w.by] = req[w.by]
      BY <2>1, <2>2 DEF ThreadKeeps
    <3> QED BY <2>2, <3>1 DEF ThreadKeeps, Writing, Parses, Updated, Empty
  <2> QED BY <2>2 DEF IndInv, FileIsKept, Parses
<1> QED BY <1>1, <1>2, <1>3, <1>4, <1>5 DEF IndInv

\* The write lock is taken with the list of values to store.
LEMMA TakesWriteLock ==
  ASSUME IndInv, NEW c \in Clients, RegisterLock(c)
  PROVE  IndInv'
<1> USE SameDeployment DEF env
<1>1. /\ req[c].pc = "write_lock" /\ req[c].msg \in Messages /\ CanWrite
      /\ UNCHANGED <<env, file, writes, readers, served, kept>>
      /\ req[c].items = <<>>
  BY DEF RegisterLock, IndInv, ReqProgress
<1>2. PICK items \in Extracted(req[c].msg) :
        IF items = <<>>
        THEN /\ req' = [req EXCEPT ![c] = Idle]
             /\ UNCHANGED writer
        ELSE /\ req' = [req EXCEPT ![c].pc = "set", ![c].msg = None,
                                   ![c].items = items]
             /\ writer' = c
  BY DEF RegisterLock
<1>3. items \in Seq(RV)
  BY <1>1, <1>2, ExtractedTyped DEF IndInv
<1>4. req \in [Clients -> ReqState] /\ Idle \in ReqState
  BY DEF IndInv, TypeOK, ReqState, Idle
<1>5. CASE items = <<>>
  <2>1. /\ req' = [req EXCEPT ![c] = Idle] /\ UNCHANGED writer
    BY <1>2, <1>5
  <2>2. /\ req' \in [Clients -> ReqState] /\ req'[c] = Idle
        /\ \A d \in Clients \ {c} : req'[d] = req[d]
    BY <1>4, <2>1
  <2> QED BY <1>1, <2>1, <2>2, Quiet DEF Idle, lock
<1>6. CASE items # <<>>
  <2>1. /\ req' = [req EXCEPT ![c].pc = "set", ![c].msg = None, ![c].items = items]
        /\ writer' = c
    BY <1>2, <1>6
  <2>2. [req[c] EXCEPT !.pc = "set", !.msg = None, !.items = items] \in ReqState
    BY <1>3, <1>4 DEF ReqState
  <2>3. /\ req' \in [Clients -> ReqState]
        /\ req'[c].pc = "set" /\ req'[c].items = items
        /\ \A d \in Clients \ {c} : req'[d] = req[d]
    BY <1>4, <2>1, <2>2 DEF ReqState
  <2>4. /\ writer = None /\ readers = {}
        /\ \A d \in Clients : req[d].pc \notin {"set", "wait", "get"}
    BY <1>1, Owners DEF CanWrite, IndInv, LocksHeld
  <2>5. TypeOK'
    BY <1>1, <2>1, <2>3 DEF IndInv, TypeOK
  <2>6. LocksHeld'
    BY <1>1, <2>1, <2>3, <2>4, Owners DEF IndInv, LocksHeld
  <2>7. ReqProgress'
    BY <1>1, <1>6, <2>3 DEF IndInv, ReqProgress
  <2>8. OneThreadEach' /\ SledIsWhole' /\ MapsAreNamed'
    BY <1>1 DEF IndInv, OneThreadEach, SledIsWhole, MapsAreNamed, Named, Parses
  <2>9. FileIsKept'
    <3>1. ASSUME Intact PROVE writes = {}
      BY <2>4, <3>1 DEF IndInv, TypeOK, Write, LocksHeld, FileIsKept, ThreadKeeps
    <3> QED BY <1>1, <3>1 DEF IndInv, FileIsKept, Parses
  <2> QED BY <2>5, <2>6, <2>7, <2>8, <2>9 DEF IndInv
<1> QED BY <1>5, <1>6

\* What the end of `set' does to the request, its lock and what is kept: the
\* request goes on to its next value or is over.
LEMMA SetEnds ==
  ASSUME IndInv, NEW c \in Clients, req[c].pc \in {"set", "wait"},
         SetReturns(c) \/ SetFails(c)
  PROVE  LET rv == Head(req[c].items) IN
         /\ writer = c /\ readers = {} /\ req[c].items \in Seq(RV)
         /\ rv \in RV /\ rv.name \in Names
         /\ req' \in [Clients -> ReqState]
         /\ \A d \in Clients \ {c} : req'[d] = req[d]
         /\ \/ req'[c] = Idle /\ writer' = None
            \/ /\ req'[c].pc = "set" /\ req'[c].items = Tail(req[c].items)
               /\ Tail(req[c].items) # <<>> /\ writer' = c
         /\ kept' \in Map
         /\ \A n \in Names : n # rv.name => kept'[n] = kept[n]
         /\ kept'[rv.name] \in {rv, None}
<1> DEFINE s == req[c].items
           rv == Head(s)
<1>1. /\ req \in [Clients -> ReqState] /\ req[c] \in ReqState /\ Idle \in ReqState
      /\ s \in Seq(RV) /\ s # <<>> /\ kept \in Map
      /\ writer = c /\ c # None /\ readers = {}
  BY RvpsAssumption DEF IndInv, TypeOK, ReqState, Idle, ReqProgress, LocksHeld
<1>2. rv \in RV /\ rv.name \in Names /\ Tail(s) \in Seq(RV)
  BY <1>1, HeadAndTail
<1>3. /\ kept' \in Map
      /\ \A n \in Names : n # rv.name => kept'[n] = kept[n]
      /\ kept'[rv.name] \in {rv, None}
  BY <1>1, <1>2 DEF SetReturns, SetFails, Map
<1>4. \/ req' = [req EXCEPT ![c] = Idle] /\ writer' = None
      \/ /\ req' = [req EXCEPT ![c].pc = "set", ![c].items = Tail(s)]
         /\ Tail(s) # <<>> /\ writer' = writer
  BY DEF SetReturns, SetFails
<1> HIDE DEF s, rv
<1>5. CASE req' = [req EXCEPT ![c] = Idle] /\ writer' = None
  BY <1>1, <1>2, <1>3, <1>5 DEF s, rv
<1>6. CASE /\ req' = [req EXCEPT ![c].pc = "set", ![c].items = Tail(s)]
           /\ Tail(s) # <<>> /\ writer' = writer
  <2>1. [req[c] EXCEPT !.pc = "set", !.items = Tail(s)] \in ReqState
    BY <1>1, <1>2 DEF ReqState
  <2>2. /\ req' \in [Clients -> ReqState]
        /\ req'[c].pc = "set" /\ req'[c].items = Tail(s)
        /\ \A d \in Clients \ {c} : req'[d] = req[d]
    BY <1>1, <1>6, <2>1 DEF ReqState
  <2> QED BY <1>1, <1>2, <1>3, <1>6, <2>2 DEF s, rv
<1> QED BY <1>4, <1>5, <1>6

\* The parts of the invariant about locks and requests once `set' has ended
\* and its thread, if it had one, is gone.
LEMMA SetEndsLocks ==
  ASSUME IndInv, NEW c \in Clients, req[c].pc \in {"set", "wait"},
         SetReturns(c) \/ SetFails(c),
         UNCHANGED <<env, readers, served>>,
         writes' \subseteq writes, \A w \in writes' : w.by # c,
         \A w \in writes \ writes' : w.by = c
  PROVE  /\ LocksHeld' /\ ReqProgress' /\ OneThreadEach'
         /\ writer' \in Clients \cup {None}
<1> USE SameDeployment DEF env
<1>1. /\ writer = c /\ readers = {}
      /\ \A d \in Clients \ {c} : req'[d] = req[d]
      /\ \/ req'[c] = Idle /\ writer' = None
         \/ /\ req'[c].pc = "set" /\ req'[c].items # <<>> /\ writer' = c
  BY SetEnds
<1>2. \A d \in Clients \ {c} : req[d].pc \notin {"set", "wait"}
  BY <1>1 DEF IndInv, LocksHeld
<1>3. LocksHeld'
  <2>1. \A w \in writes' : w.by = None
    BY <1>2 DEF IndInv, TypeOK, Write, LocksHeld
  <2> QED BY <1>1, <1>2, <2>1, RvpsAssumption DEF IndInv, LocksHeld, Idle
<1>4. ReqProgress'
  BY <1>1 DEF IndInv, ReqProgress, Idle
<1>5. OneThreadEach'
  BY DEF IndInv, OneThreadEach
<1> QED BY <1>1, <1>3, <1>4, <1>5

\* sled stores a value, or fails to, and has no threads.
LEMMA SledSteps ==
  ASSUME IndInv, NEW c \in Clients, SledSet(c) \/ SledFails(c)
  PROVE  IndInv'
<1> DEFINE rv == Head(req[c].items)
<1>1. /\ Backend = "LocalFs" /\ req[c].pc = "set"
      /\ SetReturns(c) \/ SetFails(c)
      /\ UNCHANGED <<env, writes, readers, served>>
      /\ \/ file' = Whole(Updated(rv))
         \/ file' = file /\ SetFails(c)
      /\ writes = {} /\ Parses
  BY DEF SledSet, SledFails, IndInv, SledIsWhole
<1> USE SameDeployment DEF env
<1>2. /\ writer = c /\ rv \in RV /\ rv.name \in Names
      /\ req' \in [Clients -> ReqState] /\ kept' \in Map
      /\ \A n \in Names : n # rv.name => kept'[n] = kept[n]
      /\ kept'[rv.name] \in {rv, None}
  BY <1>1, SetEnds
<1>3. LocksHeld' /\ ReqProgress' /\ OneThreadEach' /\ writer' \in Clients \cup {None}
  BY <1>1, SetEndsLocks
<1> HIDE DEF rv
<1>4. /\ Updated(rv) \in Map /\ Named(Updated(rv)) /\ Updated(rv)[rv.name] = rv
      /\ \A n \in Names : n # rv.name => Updated(rv)[n] = file.map[n]
  BY <1>2, UpdatedTyped DEF IndInv, MapsAreNamed
<1>5. TypeOK'
  <2>1. file' \in [state : {"whole", "empty", "mixed"}, map : Map]
    BY <1>1, <1>4 DEF IndInv, TypeOK, Whole
  <2> QED BY <1>1, <1>2, <1>3, <2>1 DEF IndInv, TypeOK
<1>6. SledIsWhole' /\ MapsAreNamed'
  BY <1>1, <1>4 DEF IndInv, SledIsWhole, MapsAreNamed, Named, Parses, Whole
<1>7. \A n \in Names : kept'[n] # None => file'.map[n] = kept'[n]
  <2>1. \A n \in Names : kept[n] # None => file.map[n] = kept[n]
    BY <1>1 DEF IndInv, FileIsKept, Intact
  <2>2. CASE file' = Whole(Updated(rv))
    BY <1>2, <1>4, <2>1, <2>2 DEF Whole
  <2>3. CASE file' = file /\ SetFails(c)
    <3>1. kept'[rv.name] = None
      BY <1>2, <2>3 DEF SetFails, IndInv, TypeOK, Map, rv
    <3> QED BY <1>2, <2>1, <2>3, <3>1
  <2> QED BY <1>1, <2>2, <2>3
<1>8. FileIsKept'
  BY <1>1, <1>7 DEF FileIsKept, Parses, Whole
<1> QED BY <1>3, <1>5, <1>6, <1>8 DEF IndInv

\* LocalJson hands the new content of its file to a thread.
LEMMA JsonReads ==
  ASSUME IndInv, NEW c \in Clients, JsonRead(c)
  PROVE  IndInv'
<1> USE SameDeployment DEF env, lock
<1>1. PICK rv, t :
      /\ rv = Head(req[c].items)
      /\ t = [by |-> c, map |-> Updated(rv), truncated |-> FALSE]
      /\ Backend = "LocalJson" /\ req[c].pc = "set" /\ Parses
      /\ writes' = writes \cup {t}
      /\ UNCHANGED <<env, file, lock, served>>
      /\ req' = [req EXCEPT ![c].pc = "wait"]
      /\ kept' = [kept EXCEPT ![rv.name] = None]
  BY DEF JsonRead, Goto
<1>2. /\ req \in [Clients -> ReqState] /\ kept \in Map
      /\ req[c].items \in Seq(RV) /\ req[c].items # <<>>
  BY <1>1 DEF IndInv, TypeOK, ReqState, ReqProgress
<1>3. rv \in RV /\ rv.name \in Names
  BY <1>1, <1>2, HeadAndTail
<1>4. /\ req' \in [Clients -> ReqState]
      /\ req'[c].pc = "wait" /\ req'[c].items = req[c].items
      /\ \A d \in Clients \ {c} : req'[d] = req[d]
  BY <1>1, <1>2, ZenonT(60) DEF ReqState
<1>5. /\ kept' \in Map /\ kept'[rv.name] = None
      /\ \A n \in Names : n # rv.name => kept'[n] = kept[n]
  BY <1>1, <1>2, <1>3 DEF Map
<1>6. /\ writer = c /\ c # None /\ readers = {}
      /\ \A w \in writes : w.by = None
  BY <1>1, Owners DEF IndInv, LocksHeld
<1>7. /\ Updated(rv) \in Map /\ Named(Updated(rv)) /\ Updated(rv)[rv.name] = rv
      /\ \A n \in Names : n # rv.name => Updated(rv)[n] = file.map[n]
  BY <1>3, UpdatedTyped DEF IndInv, MapsAreNamed
<1>8. t \in Write /\ t.by = c /\ t.map = Updated(rv) /\ t.truncated = FALSE
  BY <1>1, <1>7 DEF Write
<1>9. TypeOK'
  BY <1>1, <1>4, <1>5, <1>8 DEF IndInv, TypeOK
<1>10. LocksHeld'
  BY <1>1, <1>4, <1>6, <1>8, Owners DEF IndInv, LocksHeld
<1>11. ReqProgress'
  BY <1>1, <1>2, <1>4 DEF IndInv, ReqProgress
<1>12. OneThreadEach' /\ SledIsWhole' /\ MapsAreNamed'
  <2>1. OneThreadEach'
    BY <1>1, <1>6, <1>8 DEF OneThreadEach
  <2>2. SledIsWhole'
    BY <1>1 DEF IndInv, SledIsWhole
  <2>3. MapsAreNamed'
    BY <1>1, <1>7, <1>8 DEF IndInv, MapsAreNamed, Named
  <2> QED BY <2>1, <2>2, <2>3
<1>13. FileIsKept'
  <2> SUFFICES ASSUME Intact PROVE FileIsKept'
    BY <1>1 DEF FileIsKept
  <2>1. writes' = {t}
    BY <1>1, <1>6 DEF IndInv, FileIsKept, ThreadKeeps
  <2>2. \A n \in Names : kept[n] # None => file.map[n] = kept[n]
    BY <1>1 DEF IndInv, FileIsKept
  <2>3. Writing(t)' = rv
    BY <1>1, <1>4, <1>8 DEF Writing
  <2>4. Updated(rv)' = Updated(rv) /\ Parses'
    BY <1>1 DEF Updated, Parses
  <2>5. ThreadKeeps(t)'
    BY <1>5, <1>6, <1>7, <1>8, <2>2, <2>3, <2>4 DEF ThreadKeeps
  <2>6. \A n \in Names : kept'[n] # None => file'.map[n] = kept'[n]
    BY <1>1, <1>5, <2>2
  <2> QED BY <2>1, <2>4, <2>5, <2>6 DEF FileIsKept
<1> QED BY <1>9, <1>10, <1>11, <1>12, <1>13 DEF IndInv

\* LocalJson cannot read its file: not where nothing goes wrong.
LEMMA JsonReadsNot ==
  ASSUME IndInv, NEW c \in Clients, JsonReadFails(c)
  PROVE  IndInv'
<1> USE SameDeployment DEF env
<1>1. /\ Backend = "LocalJson" /\ req[c].pc = "set" /\ SetFails(c)
      /\ ~Parses \/ "io" \in Faults
      /\ UNCHANGED <<env, file, writes, readers, served>>
  BY DEF JsonReadFails
<1>2. \A w \in writes : w.by = None
  BY <1>1, Owners DEF IndInv, LocksHeld
<1>3. ~Intact
  BY <1>1, <1>2 DEF Intact, IndInv, FileIsKept, ThreadKeeps
<1>4. req' \in [Clients -> ReqState] /\ kept' \in Map
  BY <1>1, SetEnds
<1>5. LocksHeld' /\ ReqProgress' /\ OneThreadEach' /\ writer' \in Clients \cup {None}
  BY <1>1, <1>2, SetEndsLocks, Owners DEF IndInv
<1>6. TypeOK'
  BY <1>1, <1>4, <1>5 DEF IndInv, TypeOK
<1>7. SledIsWhole' /\ MapsAreNamed' /\ FileIsKept'
  BY <1>1, <1>3 DEF IndInv, SledIsWhole, MapsAreNamed, Named, FileIsKept, Parses
<1> QED BY <1>5, <1>6, <1>7 DEF IndInv

\* A thread truncates the file.
LEMMA Truncates ==
  ASSUME IndInv, NEW w \in writes, Truncate(w)
  PROVE  IndInv'
<1> DEFINE t == [w EXCEPT !.truncated = TRUE]
<1> USE SameDeployment DEF env, lock
<1>1. /\ ~w.truncated /\ file' = Empty
      /\ writes' = (writes \ {w}) \cup {t}
      /\ UNCHANGED <<env, lock, req, served, kept>>
  BY DEF Truncate
<1>2. w \in Write
  BY DEF IndInv, TypeOK
<1>3. t \in Write /\ t.by = w.by /\ t.map = w.map /\ t.truncated = TRUE
  BY <1>2 DEF Write
<1> HIDE DEF t
<1>4. TypeOK'
  <2>1. Empty \in [state : {"whole", "empty", "mixed"}, map : Map]
    BY NoValuesTyped DEF Empty
  <2> QED BY <1>1, <1>3, <2>1 DEF IndInv, TypeOK
<1>5. LocksHeld'
  BY <1>1, <1>3, Owners DEF IndInv, LocksHeld
<1>6. ReqProgress'
  BY <1>1 DEF IndInv, ReqProgress
<1>7. OneThreadEach'
  BY <1>1, <1>3 DEF IndInv, OneThreadEach
<1>8. SledIsWhole' /\ MapsAreNamed'
  BY <1>1, <1>3, NoValuesTyped DEF IndInv, SledIsWhole, MapsAreNamed, Named, Empty
<1>9. FileIsKept'
  <2> SUFFICES ASSUME Intact PROVE FileIsKept'
    BY <1>1 DEF FileIsKept
  <2>1. \A v \in writes : v.by # None /\ v.by = writer
    BY Owners DEF IndInv, LocksHeld, FileIsKept, ThreadKeeps
  <2>2. writes' = {t}
    BY <1>1, <2>1 DEF IndInv, OneThreadEach
  <2>3. ThreadKeeps(w)
    BY DEF IndInv, FileIsKept
  <2>4. Writing(t)' = Writing(w)
    BY <1>1, <1>3 DEF Writing
  <2>5. ThreadKeeps(t)'
    BY <1>1, <1>3, <2>3, <2>4 DEF ThreadKeeps
  <2>6. ~Parses'
    BY <1>1 DEF Parses, Empty
  <2> QED BY <1>3, <2>2, <2>5, <2>6 DEF FileIsKept
<1> QED BY <1>4, <1>5, <1>6, <1>7, <1>8, <1>9 DEF IndInv

\* A thread that no handler waits for ends: only after a fault.
LEMMA OrphanEnds ==
  ASSUME IndInv, NEW w \in writes, w.by = None,
         Finish(w) \/ WriteFails(w)
  PROVE  IndInv'
<1> USE SameDeployment DEF env
<1>1. /\ writes' = writes \ {w}
      /\ file' \in {file, Whole(w.map), Mixed}
      /\ UNCHANGED <<env, readers, served, writer, req, kept>>
  BY DEF Finish, WriteFails
<1>2. ~Intact /\ Backend # "LocalFs"
  BY DEF IndInv, FileIsKept, ThreadKeeps, SledIsWhole
<1>3. w.map \in Map /\ Named(w.map)
  BY DEF IndInv, TypeOK, Write, MapsAreNamed
<1>4. TypeOK'
  <2>1. file' \in [state : {"whole", "empty", "mixed"}, map : Map]
    BY <1>1, <1>3, NoValuesTyped DEF IndInv, TypeOK, Whole, Mixed
  <2> QED BY <1>1, <2>1 DEF IndInv, TypeOK
<1>5. LocksHeld'
  BY <1>1, Owners DEF IndInv, LocksHeld
<1>6. ReqProgress' /\ OneThreadEach'
  BY <1>1 DEF IndInv, ReqProgress, OneThreadEach
<1>7. SledIsWhole' /\ FileIsKept'
  BY <1>1, <1>2 DEF SledIsWhole, FileIsKept
<1>8. MapsAreNamed'
  BY <1>1, <1>3, NoValuesTyped DEF IndInv, MapsAreNamed, Named, Whole, Mixed
<1> QED BY <1>4, <1>5, <1>6, <1>7, <1>8 DEF IndInv

\* A thread ends and the handler that waits for it goes on.  Where nothing goes
\* wrong the file is what the thread was given.
LEMMA ThreadEnds ==
  ASSUME IndInv, NEW w \in writes, w.by # None, Finish(w) \/ WriteFails(w)
  PROVE  IndInv'
<1> DEFINE c == w.by
           rv == Writing(w)
<1> USE SameDeployment DEF env
<1>1. c \in Clients /\ req[c].pc = "wait"
  BY Owners DEF IndInv, LocksHeld
<1>2. /\ writes' = writes \ {w}
      /\ file' \in {file, Whole(w.map), Mixed}
      /\ UNCHANGED <<env, readers, served>>
      /\ SetReturns(c) \/ SetFails(c)
      /\ WriteFails(w) => "io" \in Faults
      /\ Finish(w) => /\ SetReturns(c) /\ w.truncated
                      /\ file' = Whole(w.map) \/ file # Empty
  BY DEF Finish, WriteFails
<1>3. /\ rv \in RV /\ rv.name \in Names
      /\ req' \in [Clients -> ReqState] /\ kept' \in Map
      /\ \A n \in Names : n # rv.name => kept'[n] = kept[n]
      /\ kept'[rv.name] \in {rv, None}
  BY <1>1, <1>2, SetEnds DEF Writing
<1>4. \A v \in writes' : v.by # c
  BY <1>2 DEF IndInv, OneThreadEach
<1>5. LocksHeld' /\ ReqProgress' /\ OneThreadEach' /\ writer' \in Clients \cup {None}
  BY <1>1, <1>2, <1>4, SetEndsLocks
<1>6. w.map \in Map /\ Named(w.map)
  BY DEF IndInv, TypeOK, Write, MapsAreNamed
<1> HIDE DEF c, rv
<1>7. TypeOK'
  <2>1. file' \in [state : {"whole", "empty", "mixed"}, map : Map]
    BY <1>2, <1>6, NoValuesTyped DEF IndInv, TypeOK, Whole, Mixed
  <2> QED BY <1>2, <1>3, <1>5, <2>1 DEF IndInv, TypeOK
<1>8. SledIsWhole'
  BY <1>2 DEF IndInv, SledIsWhole
<1>9. MapsAreNamed'
  BY <1>2, <1>6, NoValuesTyped DEF IndInv, MapsAreNamed, Named, Whole, Mixed
<1>10. FileIsKept'
  <2> SUFFICES ASSUME Intact PROVE FileIsKept'
    BY <1>2 DEF FileIsKept
  <2>1. Faults = {} /\ Finish(w)
    BY <1>2 DEF Intact, IndInv, SledIsWhole
  <2>2. \A v \in writes : v.by # None /\ v.by = writer
    BY Owners DEF IndInv, LocksHeld, FileIsKept, ThreadKeeps
  <2>3. writes' = {}
    BY <1>2, <2>2 DEF IndInv, OneThreadEach
  <2>4. ThreadKeeps(w) /\ w.truncated
    BY <1>2, <2>1 DEF IndInv, FileIsKept
  <2>5. file' = Whole(w.map)
    BY <1>2, <2>1, <2>4 DEF ThreadKeeps
  <2>6. /\ w.map[rv.name] = rv
        /\ \A n \in Names : kept[n] # None => w.map[n] = kept[n]
    BY <2>4 DEF ThreadKeeps, rv
  <2>7. \A n \in Names : kept'[n] # None => w.map[n] = kept'[n]
    BY <1>3, <2>6
  <2> QED BY <2>3, <2>5, <2>7 DEF FileIsKept, Parses, Whole
<1> QED BY <1>5, <1>7, <1>8, <1>9, <1>10 DEF IndInv

\* A query takes the read lock; nobody writes then.
LEMMA TakesReadLock ==
  ASSUME IndInv, NEW c \in Clients, QueryLock(c)
  PROVE  IndInv'
<1> USE SameDeployment DEF env
<1>1. /\ req[c].pc = "read_lock" /\ writer = None
      /\ req' = [req EXCEPT ![c].pc = "get"]
      /\ readers' = readers \cup {c}
      /\ UNCHANGED <<env, file, writes, writer, served, kept>>
  BY DEF QueryLock, Goto
<1>2. /\ req' \in [Clients -> ReqState]
      /\ req'[c].pc = "get" /\ req'[c].items = req[c].items
      /\ req'[c].name = req[c].name
      /\ \A d \in Clients \ {c} : req'[d] = req[d]
  BY <1>1, ZenonT(60) DEF IndInv, TypeOK, ReqState
<1>3. TypeOK'
  BY <1>1, <1>2 DEF IndInv, TypeOK
<1>4. LocksHeld'
  BY <1>1, <1>2, Owners DEF IndInv, LocksHeld
<1>5. ReqProgress'
  BY <1>1, <1>2 DEF IndInv, ReqProgress
<1>6. OneThreadEach' /\ SledIsWhole' /\ MapsAreNamed'
  BY <1>1 DEF IndInv, OneThreadEach, SledIsWhole, MapsAreNamed, Named, Parses
<1>7. FileIsKept'
  <2>1. ASSUME Intact PROVE writes = {}
    BY <1>1, <2>1, Owners DEF IndInv, LocksHeld, FileIsKept, ThreadKeeps
  <2> QED BY <1>1, <2>1 DEF IndInv, FileIsKept, Parses
<1> QED BY <1>3, <1>4, <1>5, <1>6, <1>7 DEF IndInv

\* A query ends.
LEMMA QueryEnds ==
  ASSUME IndInv, NEW c \in Clients, QueryAnswers(c) \/ QueryFails(c)
  PROVE  IndInv'
<1> USE SameDeployment DEF env
<1>1. /\ req[c].pc = "get"
      /\ req' = [req EXCEPT ![c] = Idle]
      /\ readers' = readers \ {c}
      /\ UNCHANGED <<env, file, writes, writer, kept>>
      /\ served' = served \/ served' = [name |-> req[c].name,
                                        rv |-> file.map[req[c].name],
                                        at |-> clock]
  BY DEF QueryAnswers, QueryFails
<1>2. req \in [Clients -> ReqState] /\ Idle \in ReqState
  BY DEF IndInv, TypeOK, ReqState, Idle
<1>3. /\ req' \in [Clients -> ReqState] /\ req'[c] = Idle
      /\ \A d \in Clients \ {c} : req'[d] = req[d]
  BY <1>1, <1>2
<1>4. writer = None
  BY <1>1 DEF IndInv, LocksHeld
<1>5. TypeOK'
  <2>1. req[c].name \in Names /\ file.map \in Map /\ clock \in Nat
    BY <1>1, RvpsAssumption
       DEF IndInv, ReqProgress, TypeOK, DeploymentShape
  <2>2. file.map[req[c].name] \in RV \cup {None}
    BY <2>1 DEF Map
  <2>3. served' \in [name : Names \cup {None}, rv : RV \cup {None}, at : Nat]
    BY <1>1, <2>1, <2>2 DEF IndInv, TypeOK
  <2> QED BY <1>1, <1>3, <2>3 DEF IndInv, TypeOK
<1>6. LocksHeld'
  BY <1>1, <1>3, <1>4, Owners DEF IndInv, LocksHeld, Idle
<1>7. ReqProgress'
  BY <1>1, <1>3 DEF IndInv, ReqProgress, Idle
<1>8. OneThreadEach' /\ SledIsWhole' /\ MapsAreNamed'
  BY <1>1 DEF IndInv, OneThreadEach, SledIsWhole, MapsAreNamed, Named, Parses
<1>9. FileIsKept'
  <2>1. ASSUME Intact PROVE writes = {}
    BY <1>4, <2>1, Owners DEF IndInv, LocksHeld, FileIsKept, ThreadKeeps
  <2> QED BY <1>1, <2>1 DEF IndInv, FileIsKept, Parses
<1> QED BY <1>5, <1>6, <1>7, <1>8, <1>9 DEF IndInv

\* A handler is dropped: its locks are free, its thread goes on alone.
LEMMA Cancels ==
  ASSUME IndInv, NEW c \in Clients, Cancel(c)
  PROVE  IndInv'
<1> DEFINE left(w) == IF w.by = c THEN [w EXCEPT !.by = None] ELSE w
<1> USE SameDeployment DEF env
<1>1. /\ "cancel" \in Faults
      /\ req' = [req EXCEPT ![c] = Idle]
      /\ writer' = IF writer = c THEN None ELSE writer
      /\ readers' = readers \ {c}
      /\ writes' = {left(w) : w \in writes}
      /\ UNCHANGED <<env, file, served, kept>>
      /\ Backend = "LocalFs" => req[c].pc \notin {"set", "get"}
  BY DEF Cancel
<1>2. req \in [Clients -> ReqState] /\ Idle \in ReqState
  BY DEF IndInv, TypeOK, ReqState, Idle
<1>3. /\ req' \in [Clients -> ReqState] /\ req'[c] = Idle
      /\ \A d \in Clients \ {c} : req'[d] = req[d]
  BY <1>1, <1>2
<1>4. \A w \in writes : /\ left(w) \in Write /\ left(w).map = w.map
                        /\ left(w).by = IF w.by = c THEN None ELSE w.by
                        /\ w.by # c => left(w) = w
  BY DEF IndInv, TypeOK, Write
<1> HIDE DEF left
<1>5. TypeOK'
  BY <1>1, <1>3, <1>4 DEF IndInv, TypeOK
<1>6. LocksHeld'
  <2>1. /\ writer' # None => req'[writer'].pc \in {"set", "wait"}
        /\ readers' = {d \in Clients : req'[d].pc = "get"}
        /\ writer' # None => readers' = {}
        /\ \A d \in Clients : req'[d].pc \in {"set", "wait"} => writer' = d
    BY <1>1, <1>3, Owners DEF IndInv, LocksHeld, Idle
  <2>2. ASSUME NEW d \in Clients, req'[d].pc = "wait"
        PROVE  \E w \in writes' : w.by = d
    <3>1. d # c /\ req[d].pc = "wait"
      BY <1>3, <2>2 DEF Idle
    <3>2. PICK w \in writes : w.by = d
      BY <3>1 DEF IndInv, LocksHeld
    <3>3. left(w) \in writes' /\ left(w).by = d
      BY <1>1, <1>4, <3>1, <3>2
    <3> QED BY <3>3
  <2>3. ASSUME NEW v \in writes', v.by # None PROVE req'[v.by].pc = "wait"
    <3>1. PICK w \in writes : v = left(w)
      BY <1>1
    <3>2. w.by # c /\ v = w
      BY <1>4, <2>3, <3>1
    <3> QED BY <1>3, <2>3, <3>2, Owners DEF IndInv, LocksHeld
  <2> QED BY <2>1, <2>2, <2>3 DEF LocksHeld
<1>7. ReqProgress'
  BY <1>1, <1>3 DEF IndInv, ReqProgress, Idle
<1>8. OneThreadEach'
  BY <1>1, <1>4 DEF IndInv, OneThreadEach
<1>9. SledIsWhole' /\ MapsAreNamed'
  BY <1>1, <1>4 DEF IndInv, SledIsWhole, MapsAreNamed, Named, Parses
<1>10. FileIsKept'
  <2>1. ASSUME Intact PROVE writes = {}
    BY <1>1, <2>1 DEF Intact, IndInv, SledIsWhole
  <2> QED BY <1>1, <2>1 DEF IndInv, FileIsKept, Parses
<1> QED BY <1>5, <1>6, <1>7, <1>8, <1>9, <1>10 DEF IndInv

\* A crash ends every request and every thread.
LEMMA Crashes ==
  ASSUME IndInv, Crash
  PROVE  IndInv'
<1> USE SameDeployment
<1>1. /\ "crash" \in Faults /\ crashes < MaxCrashes /\ crashes' = crashes + 1
      /\ writes' = {} /\ writer' = None /\ readers' = {}
      /\ req' = [c \in Clients |-> Idle]
      /\ UNCHANGED <<deployment, clock, file, served, kept>>
  BY DEF Crash
<1>2. Idle \in ReqState
  BY DEF ReqState, Idle
<1>3. TypeOK'
  BY <1>1, <1>2, RvpsAssumption DEF IndInv, TypeOK
<1>4. LocksHeld' /\ ReqProgress' /\ OneThreadEach'
  BY <1>1 DEF LocksHeld, ReqProgress, OneThreadEach, Idle
<1>5. SledIsWhole' /\ MapsAreNamed'
  BY <1>1 DEF IndInv, SledIsWhole, MapsAreNamed, Named, Parses
<1>6. FileIsKept'
  <2>1. ASSUME Intact PROVE writes = {}
    BY <1>1, <2>1 DEF Intact, IndInv, SledIsWhole
  <2> QED BY <1>1, <2>1 DEF IndInv, FileIsKept, Parses
<1> QED BY <1>3, <1>4, <1>5, <1>6 DEF IndInv

\* Neither a stuttering step nor the passing of time changes anything else.
LEMMA Idles ==
  ASSUME IndInv, UNCHANGED vars \/ Tick
  PROVE  IndInv'
<1> USE SameDeployment
<1>1. /\ UNCHANGED <<deployment, crashes, file, writes, writer, readers, req,
                     served, kept>>
      /\ clock' \in 0..deployment.maxTime
  BY RvpsAssumption DEF vars, env, lock, Tick, IndInv, TypeOK, DeploymentShape
<1>2. TypeOK'
  BY <1>1 DEF IndInv, TypeOK
<1>3. LocksHeld' /\ ReqProgress' /\ OneThreadEach' /\ SledIsWhole' /\ MapsAreNamed'
  BY <1>1 DEF IndInv, LocksHeld, ReqProgress, OneThreadEach, SledIsWhole,
              MapsAreNamed, Named, Parses
<1>4. \A w : ThreadKeeps(w) => ThreadKeeps(w)'
  BY <1>1 DEF ThreadKeeps, Writing, Updated, Empty, Parses
<1>5. FileIsKept'
  BY <1>1, <1>4 DEF IndInv, FileIsKept, Parses
<1> QED BY <1>2, <1>3, <1>5 DEF IndInv

-----------------------------------------------------------------------------
(* The invariant *)

\* An empty storage and an idle server satisfy the invariant.
LEMMA InitInv == Init => IndInv
<1> SUFFICES ASSUME Init PROVE IndInv
  OBVIOUS
<1>1. TypeOK
  BY NoValuesTyped, RvpsAssumption
     DEF Init, TypeOK, ReqState, Idle, Whole, NoAnswer, DeploymentShape
<1>2. LocksHeld /\ ReqProgress /\ OneThreadEach
  BY DEF Init, LocksHeld, ReqProgress, OneThreadEach, Idle
<1>3. SledIsWhole /\ FileIsKept /\ MapsAreNamed
  BY NoValuesTyped
     DEF Init, SledIsWhole, FileIsKept, MapsAreNamed, Whole, Parses, NoValues
<1> QED BY <1>1, <1>2, <1>3 DEF IndInv

\* Every step preserves it.
LEMMA NextInv == IndInv /\ [Next]_vars => IndInv'
<1> SUFFICES ASSUME IndInv, [Next]_vars PROVE IndInv'
  OBVIOUS
<1>0. /\ req \in [Clients -> ReqState] /\ Idle \in ReqState
      /\ \A c \in Clients :
            req[c].pc \in {"idle", "write_lock"} => req[c].items = <<>>
  BY DEF IndInv, TypeOK, ReqState, Idle, ReqProgress
<1>1. ASSUME NEW c \in Clients, NEW m \in Messages, RegisterStart(c, m)
      PROVE  IndInv'
  <2>1. [req[c] EXCEPT !.pc = "write_lock", !.msg = m] \in ReqState
    BY <1>0 DEF ReqState
  <2>2. /\ req' \in [Clients -> ReqState]
        /\ \A d \in Clients \ {c} : req'[d] = req[d]
        /\ req'[c].pc = "write_lock" /\ req'[c].msg = m
        /\ req'[c].items = req[c].items
    BY <1>0, <1>1, <2>1 DEF RegisterStart, ReqState
  <2> QED BY <1>0, <1>1, <2>2, Quiet DEF RegisterStart
<1>2. ASSUME NEW c \in Clients, NEW n \in Names, QueryStart(c, n)
      PROVE  IndInv'
  <2>1. [req[c] EXCEPT !.pc = "read_lock", !.name = n] \in ReqState
    BY <1>0 DEF ReqState
  <2>2. /\ req' \in [Clients -> ReqState]
        /\ \A d \in Clients \ {c} : req'[d] = req[d]
        /\ req'[c].pc = "read_lock" /\ req'[c].name = n
        /\ req'[c].items = req[c].items
    BY <1>0, <1>2, <2>1 DEF QueryStart, ReqState
  <2> QED BY <1>0, <1>2, <2>2, Quiet DEF QueryStart
<1>3. ASSUME NEW c \in Clients, RegisterRefused(c) PROVE IndInv'
  <2>1. /\ req' \in [Clients -> ReqState] /\ req'[c] = Idle
        /\ \A d \in Clients \ {c} : req'[d] = req[d]
    BY <1>0, <1>3 DEF RegisterRefused
  <2> QED BY <1>3, <2>1, Quiet DEF RegisterRefused, Idle
<1>4. ASSUME NEW c \in Clients, Register(c) PROVE IndInv'
  BY <1>3, <1>4, TakesWriteLock, SledSteps, JsonReads, JsonReadsNot DEF Register
<1>5. ASSUME NEW c \in Clients, Query(c) PROVE IndInv'
  BY <1>5, TakesReadLock, QueryEnds DEF Query
<1>6. ASSUME Thread PROVE IndInv'
  BY <1>6, Truncates, OrphanEnds, ThreadEnds DEF Thread
<1> QED BY <1>1, <1>2, <1>4, <1>5, <1>6, Cancels, Crashes, Idles DEF Next

\* The invariant holds in every reachable state.
THEOREM Invariance == Spec => []IndInv
  BY InitInv, NextInv, PTL DEF Spec

-----------------------------------------------------------------------------
(* What follows from it *)

\* Where nothing goes wrong at most one thread writes, for the holder of the
\* write lock.
LEMMA OneThread ==
  ASSUME IndInv, Intact, NEW w \in writes
  PROVE  writes = {w} /\ w.by = writer /\ writer # None
<1>1. \A v \in writes : v.by # None /\ v.by = writer
  BY Owners DEF IndInv, LocksHeld, FileIsKept, ThreadKeeps
<1> QED BY <1>1 DEF IndInv, OneThreadEach

\* The locks belong to live handlers, one thread writes the file of LocalJson
\* and nobody reads it then, whatever is dropped, fails or crashes.
THEOREM LocksDoTheirWork == Spec => []LocksWork
<1>1. IndInv => LocksWork
  <2> SUFFICES ASSUME IndInv PROVE LocksWork
    OBVIOUS
  <2>1. OneWriterNoReader
    <3> SUFFICES ASSUME Intact, NEW w \in writes
                 PROVE  /\ Cardinality(writes) = 1
                        /\ \A v \in writes : v.by = writer /\ writer # None
                        /\ readers = {}
      BY DEF OneWriterNoReader
    <3>1. writes = {w} /\ w.by = writer /\ writer # None
      BY OneThread
    <3>2. Cardinality(writes) = 1
      BY <3>1, FS_Singleton
    <3> QED BY <3>1, <3>2 DEF IndInv, LocksHeld
  <2>2. QueriesParse
    <3> SUFFICES ASSUME Intact, NEW c \in Clients, req[c].pc = "get", ~Parses
                 PROVE  FALSE
      BY DEF QueriesParse
    <3>1. PICK w \in writes : TRUE
      BY DEF IndInv, FileIsKept
    <3> QED BY <3>1, OneThread DEF IndInv, LocksHeld
  <2> QED BY <2>1, <2>2 DEF LocksWork, IndInv
<1> QED BY <1>1, Invariance, PTL

\* What `set' acknowledged is what the storage holds until another `set' of
\* that name.
THEOREM AcknowledgedIsStored == Spec => []KeptAreStored
<1>1. IndInv => KeptAreStored
  BY DEF IndInv, FileIsKept, KeptAreStored
<1> QED BY <1>1, Invariance, PTL

-----------------------------------------------------------------------------
(* The service implements the abstract store *)

\* The values being registered after a step are reference values.
LEMMA WantedTyped ==
  ASSUME IndInv'
  PROVE  Wanted' \in SUBSET RV
<1>1. \A c \in Clients : req'[c].items \in Seq(RV)
  BY DEF IndInv, TypeOK, ReqState
<1> QED BY <1>1 DEF Wanted, ToSet

\* They change with the lists of the requests.
LEMMA WantedSame ==
  ASSUME \A c \in Clients : req'[c].items = req[c].items
  PROVE  Wanted' = Wanted
  BY DEF Wanted

\* When `set' ends, only values of its own request stop being registered.
LEMMA WantedShrinks ==
  ASSUME IndInv, NEW c \in Clients, req[c].pc \in {"set", "wait"},
         SetReturns(c) \/ SetFails(c)
  PROVE  Wanted' \in SUBSET Wanted
<1>1. /\ \A d \in Clients \ {c} : req'[d] = req[d]
      /\ req'[c] = Idle \/ req'[c].items = Tail(req[c].items)
      /\ req[c].items \in Seq(RV)
  BY SetEnds
<1>2. req[c].items # <<>>
  BY DEF IndInv, ReqProgress
<1>3. ToSet(Tail(req[c].items)) \subseteq ToSet(req[c].items) /\ ToSet(<<>>) = {}
  BY <1>1, <1>2, HeadAndTail DEF ToSet
<1>4. \A d \in Clients : ToSet(req'[d].items) \subseteq ToSet(req[d].items)
  BY <1>1, <1>3 DEF Idle
<1> QED BY <1>4 DEF Wanted

\* What a reader would find.
LEMMA AbstractFileIs ==
  ASSUME IndInv
  PROVE  /\ Parses \/ ~Intact => AbstractFile = file.map
         /\ \A w \in writes : (Intact /\ w.truncated) => AbstractFile = w.map
<1>1. Parses \/ ~Intact => AbstractFile = file.map
  BY DEF AbstractFile
<1>2. ASSUME NEW w \in writes, Intact, w.truncated PROVE AbstractFile = w.map
  <2>1. writes = {w}
    BY <1>2, OneThread
  <2>2. ~Parses
    BY <1>2 DEF IndInv, FileIsKept, ThreadKeeps, Parses, Empty
  <2>3. (CHOOSE v \in writes : v.truncated) = w
    BY <1>2, <2>1
  <2> QED BY <1>2, <2>2, <2>3 DEF AbstractFile
<1> QED BY <1>1, <1>2

\* A step that leaves the storage and the last answer alone is a stuttering
\* step or lets registrations come and go.
LEMMA AskStep ==
  ASSUME IndInv, IndInv', UNCHANGED <<deployment, served>>,
         AbstractFile' = AbstractFile
  PROVE  Store!Ask
<1>1. Wanted' \in SUBSET RV
  BY WantedTyped
<1>2. Intact' = Intact
  BY DEF Intact, Backend, Faults
<1> QED BY <1>1, <1>2 DEF Store!Ask

\* A step that leaves the file and the threads alone leaves what a reader
\* would find.
LEMMA AbstractFileSame ==
  ASSUME UNCHANGED <<deployment, file, writes>>
  PROVE  AbstractFile' = AbstractFile
  BY DEF AbstractFile, Parses, Intact, Backend, Faults

\* sled's insert stores a value that is being registered.
LEMMA SledRefines ==
  ASSUME IndInv, IndInv', NEW c \in Clients, SledSet(c) \/ SledFails(c)
  PROVE  Store!SNext
<1>1. /\ Backend = "LocalFs" /\ req[c].pc = "set"
      /\ SetReturns(c) \/ SetFails(c)
      /\ UNCHANGED <<deployment, writes, served>>
      /\ file' = file \/ file' = Whole(Updated(Head(req[c].items)))
  BY DEF SledSet, SledFails, env
<1>2. CASE file' = file
  BY <1>1, <1>2, AbstractFileSame, AskStep DEF Store!SNext
<1>3. CASE file' = Whole(Updated(Head(req[c].items)))
  <2> DEFINE rv == Head(req[c].items)
  <2>1. /\ req[c].items \in Seq(RV) /\ req[c].items # <<>>
    BY <1>1 DEF IndInv, TypeOK, ReqState, ReqProgress
  <2>2. rv \in Wanted
    BY <2>1, HeadAndTail DEF Wanted
  <2>3. Parses /\ Parses'
    BY <1>1, <1>3 DEF IndInv, SledIsWhole, Parses, Whole
  <2>4. AbstractFile = file.map /\ AbstractFile' = Updated(rv)
    BY <1>3, <2>3 DEF AbstractFile, Whole
  <2>5. Intact' = Intact
    BY <1>1 DEF Intact, Backend, Faults
  <2>6. Wanted' \in SUBSET Wanted
    BY <1>1, WantedShrinks
  <2>7. AbstractFile' = [AbstractFile EXCEPT ![rv.name] = rv]
    BY <2>4 DEF Updated
  <2>8. Store!Put(rv)
    BY <1>1, <2>5, <2>6, <2>7 DEF Store!Put
  <2> QED BY <2>2, <2>8 DEF Store!SNext
<1> QED BY <1>1, <1>2, <1>3

\* A step of a thread where something may go wrong: the map is another one.
LEMMA LoseStep ==
  ASSUME IndInv, IndInv', ~Intact, UNCHANGED <<deployment, served>>
  PROVE  Store!Lose
<1>1. Intact' = Intact
  BY DEF Intact, Backend, Faults
<1>2. AbstractFile' = file'.map
  BY <1>1 DEF AbstractFile
<1>3. file'.map \in Map /\ Named(file.map)'
  BY DEF IndInv, TypeOK, MapsAreNamed
<1>4. \A n \in Names : AbstractFile'[n] # None => AbstractFile'[n].name = n
  BY <1>2, <1>3 DEF Named
<1>5. Wanted' \in SUBSET RV
  BY WantedTyped
<1> QED BY <1>1, <1>2, <1>3, <1>4, <1>5 DEF Store!Lose, Map

\* Where nothing goes wrong, truncating the file is the instant in which the
\* new value is stored, and writing it changes nothing.
LEMMA ThreadRefines ==
  ASSUME IndInv, IndInv', NEW w \in writes,
         Truncate(w) \/ Finish(w) \/ WriteFails(w)
  PROVE  Store!SNext
<1>0. UNCHANGED <<deployment, served>>
  BY DEF Truncate, Finish, WriteFails, env
<1>1. CASE ~Intact
  BY <1>0, <1>1, LoseStep DEF Store!SNext
<1>2. CASE Intact /\ Truncate(w)
  <2> DEFINE rv == Writing(w)
             t == [w EXCEPT !.truncated = TRUE]
  <2>1. /\ ~w.truncated /\ UNCHANGED req /\ writes' = (writes \ {w}) \cup {t}
    BY <1>2 DEF Truncate
  <2>2. w \in Write
    BY DEF IndInv, TypeOK
  <2>3. t.map = w.map /\ t.truncated /\ t \in writes'
    BY <2>1, <2>2 DEF Write
  <2>4. Intact' = Intact
    BY <1>0 DEF Intact, Backend, Faults
  <2>5. /\ w.by \in Clients /\ w.by # None /\ req[w.by].pc = "wait"
        /\ Parses /\ w.map = Updated(rv)
    BY <1>2, <2>1, Owners DEF IndInv, LocksHeld, FileIsKept, ThreadKeeps
  <2>6. /\ req[w.by].items \in Seq(RV) /\ req[w.by].items # <<>>
    BY <2>5 DEF IndInv, TypeOK, ReqState, ReqProgress
  <2>7. rv \in Wanted
    BY <2>5, <2>6, HeadAndTail DEF Wanted, Writing
  <2>8. AbstractFile = file.map
    BY <2>5 DEF AbstractFile
  <2>9. AbstractFile' = t.map
    <3> HIDE DEF t
    <3>1. writes = {w}
      BY <1>2, OneThread
    <3>2. (CHOOSE v \in writes' : v.truncated) = t
      BY <2>1, <2>3, <3>1
    <3>3. ~Parses'
      BY <1>2 DEF Truncate, Parses, Empty
    <3> QED BY <1>2, <2>4, <3>2, <3>3 DEF AbstractFile
  <2>10. AbstractFile' = [AbstractFile EXCEPT ![rv.name] = rv]
    BY <2>3, <2>5, <2>8, <2>9 DEF Updated
  <2>11. Wanted' = Wanted
    BY <2>1, WantedSame
  <2>12. Store!Put(rv)
    BY <1>0, <2>4, <2>10, <2>11 DEF Store!Put
  <2> QED BY <2>7, <2>12 DEF Store!SNext
<1>3. CASE Intact /\ (Finish(w) \/ WriteFails(w))
  <2>1. Faults = {}
    BY <1>3 DEF Intact, IndInv, SledIsWhole
  <2>2. /\ Finish(w) /\ w.truncated
    BY <1>3, <2>1 DEF Finish, WriteFails
  <2>3. file = Empty
    BY <1>3, <2>2 DEF IndInv, FileIsKept, ThreadKeeps
  <2>4. file' = Whole(w.map)
    BY <2>2, <2>3 DEF Finish
  <2>5. AbstractFile = w.map
    BY <1>3, <2>2, AbstractFileIs
  <2>6. AbstractFile' = w.map
    BY <2>4 DEF AbstractFile, Parses, Whole
  <2> QED BY <1>0, <2>5, <2>6, AskStep DEF Store!SNext
<1> QED BY <1>1, <1>2, <1>3

\* A query answers with what the map holds.
LEMMA QueryRefines ==
  ASSUME IndInv, IndInv', NEW c \in Clients, QueryAnswers(c)
  PROVE  Store!SNext
<1>1. /\ req[c].pc = "get" /\ Parses
      /\ UNCHANGED <<deployment, file, writes>>
      /\ served' = [name |-> req[c].name, rv |-> file.map[req[c].name],
                    at |-> clock]
      /\ req' = [req EXCEPT ![c] = Idle]
  BY DEF QueryAnswers, env
<1>2. /\ req[c].name \in Names /\ req[c].items = <<>>
  BY <1>1 DEF IndInv, ReqProgress
<1>3. \A d \in Clients : req'[d].items = req[d].items
  BY <1>1, <1>2 DEF IndInv, TypeOK, Idle
<1>4. Wanted' = Wanted
  BY <1>3, WantedSame
<1>5. AbstractFile' = AbstractFile /\ AbstractFile = file.map
  BY <1>1, AbstractFileSame DEF AbstractFile
<1>6. Intact' = Intact
  BY <1>1 DEF Intact, Backend, Faults
<1>7. Store!Get(req[c].name)
  BY <1>1, <1>4, <1>5, <1>6 DEF Store!Get
<1> QED BY <1>2, <1>7 DEF Store!SNext

\* Every step is a step of the store or a stuttering step of it.
LEMMA NextRefines == IndInv /\ IndInv' /\ [Next]_vars => [Store!SNext]_(Store!svars)
<1> SUFFICES ASSUME IndInv, IndInv', [Next]_vars PROVE [Store!SNext]_(Store!svars)
  OBVIOUS
<1>1. ASSUME UNCHANGED <<deployment, file, served>>,
             UNCHANGED writes \/ Parses \/ ~Intact
      PROVE  Store!SNext
  <2>1. AbstractFile' = AbstractFile
    <3>1. (Intact' <=> Intact) /\ (Parses' <=> Parses)
      BY <1>1 DEF Parses, Intact, Backend, Faults
    <3>2. CASE UNCHANGED writes
      BY <1>1, <3>2, AbstractFileSame
    <3>3. CASE Parses \/ ~Intact
      BY <1>1, <3>1, <3>3 DEF AbstractFile
    <3> QED BY <1>1, <3>2, <3>3
  <2> QED BY <1>1, <2>1, AskStep DEF Store!SNext
<1>2. ASSUME NEW c \in Clients, Register(c) PROVE Store!SNext
  <2>1. CASE RegisterRefused(c) \/ RegisterLock(c) \/ JsonRead(c) \/ JsonReadFails(c)
    <3>1. UNCHANGED <<deployment, file, served>> /\ (UNCHANGED writes \/ Parses)
      BY <2>1 DEF RegisterRefused, RegisterLock, JsonRead, JsonReadFails, env
    <3> QED BY <1>1, <3>1
  <2> QED BY <1>2, <2>1, SledRefines DEF Register
<1>3. ASSUME NEW c \in Clients, Query(c) PROVE Store!SNext
  <2>1. CASE QueryLock(c) \/ QueryFails(c)
    BY <1>1, <2>1 DEF QueryLock, QueryFails, env
  <2> QED BY <1>3, <2>1, QueryRefines DEF Query
<1>4. ASSUME NEW c \in Clients, Cancel(c) PROVE Store!SNext
  <2>1. UNCHANGED <<deployment, file, served>> /\ Faults # {}
    BY <1>4 DEF Cancel, env
  <2>2. Intact => Parses
    BY <2>1 DEF Intact, IndInv, SledIsWhole
  <2> QED BY <1>1, <2>1, <2>2
<1>5. ASSUME Crash PROVE Store!SNext
  <2>1. UNCHANGED <<deployment, file, served>> /\ Faults # {}
    BY <1>5 DEF Crash
  <2>2. Intact => Parses
    BY <2>1 DEF Intact, IndInv, SledIsWhole
  <2> QED BY <1>1, <2>1, <2>2
<1>6. ASSUME NEW c \in Clients, NEW m \in Messages, RegisterStart(c, m)
      PROVE  Store!SNext
  BY <1>1, <1>6 DEF RegisterStart, env
<1>7. ASSUME NEW c \in Clients, NEW n \in Names, QueryStart(c, n)
      PROVE  Store!SNext
  BY <1>1, <1>7 DEF QueryStart, env
<1>8. ASSUME Tick \/ UNCHANGED vars PROVE Store!SNext
  BY <1>1, <1>8 DEF Tick, vars, env
<1>9. ASSUME Thread PROVE Store!SNext
  BY <1>9, ThreadRefines DEF Thread
<1> QED BY <1>2, <1>3, <1>4, <1>5, <1>6, <1>7, <1>8, <1>9 DEF Next

\* The service is a map that changes one name at a time, to a value that is
\* being registered, and queries answer with it.
THEOREM ServiceIsStore == Spec => ImplementsStore
<1>1. Init => Store!SInit
  <2> SUFFICES ASSUME Init PROVE Store!SInit
    OBVIOUS
  <2>1. Intact \in BOOLEAN
    BY DEF Intact
  <2>2. AbstractFile = NoValues
    BY DEF Init, AbstractFile, Parses, Whole
  <2>3. Wanted = {}
    <3>1. \A c \in Clients : ToSet(req[c].items) = {}
      BY DEF Init, Idle, ToSet
    <3> QED BY <3>1 DEF Wanted
  <2>4. served.name = None /\ served.rv = None
    BY DEF Init, NoAnswer
  <2> QED BY <2>1, <2>2, <2>3, <2>4 DEF Store!SInit, NoValues
<1> QED BY <1>1, NextRefines, Invariance, PTL DEF Spec, ImplementsStore, Store!SSpec

=============================================================================
