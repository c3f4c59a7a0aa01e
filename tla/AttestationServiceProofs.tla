---------------------- MODULE AttestationServiceProofs ----------------------
(***************************************************************************)
(* Proofs about AttestationService for any requests, workers, policies and *)
(* deployments, and any number of dropped handlers and crashes.            *)
(***************************************************************************)
EXTENDS AttestationService, TLAPS

-----------------------------------------------------------------------------
(* The inductive invariant *)

\* A request spawns one thread at most: it asks the RVPS once, and waits for
\* the answer or has given up.
ThreadsOnce ==
    \A r \in Reqs : Thread(r) \in ToSet(rvps) =>
        req[r].pc \in {"blocked", "finish", "done"}

\* Nothing goes on in a service that is not up.
DownIsIdle ==
    up # "up" => /\ queue = <<>> /\ rvps = <<>> /\ writes = {}
                 /\ \A r \in Reqs : req[r].pc \in {"idle", "done"}

\* The RwLock: who may write has it alone.
LockIsExclusive ==
    \A g, h \in Holders : g # h => ~Writes(req[g].kind) /\ ~Writes(req[h].kind)

\* What a request that sets a policy carries: the policy, or Torn once its
\* write has failed; and that it has not succeeded before its write has ended.
SetsPolicy(r) ==
    /\ req[r].kind = "set_policy" =>
          /\ req[r].pc # "rvps" /\ req[r].policy \in Policies \cup {Torn}
          /\ req[r].pc \in {"idle", "pool", "queued", "locked", "writing"} =>
                req[r].policy \in Policies
    /\ req[r].pc \in {"idle", "pool", "queued", "locked", "writing"} => ~req[r].ok
    /\ req[r].pc = "written" => req[r].ok \/ req[r].policy = Torn

\* A write has the handler that waits for it, or is loose; one that another
\* has disturbed is not the only one of the last writes without an answer.
WritesAreOwned ==
    \A w \in writes :
        /\ req[w.of].pc \in {"writing", "done"}
        /\ \/ w.policy \in loose
           \/ req[w.of].pc = "writing" /\ w.policy = req[w.of].policy
        /\ w.alone \/ loose # {}
        /\ \A v \in writes : v.of = w.of => v = w

\* What the file holds: what the last answer said, or what the request says
\* that is about to answer, or something loose.
FileFits ==
    /\ \A r \in Reqs : Unanswered(r) =>
          file \in LooseContents \cup
             (IF req[r].pc = "writing" THEN {Torn} ELSE {req[r].policy})
    /\ up # "starting" /\ (\A r \in Reqs : ~Unanswered(r)) =>
          file \in {latest} \cup LooseContents
    /\ up = "starting" => file = Torn /\ latest = None

IndInv ==
    /\ TypeOK
    /\ PlacesAreOwned
    /\ ThreadsOnce
    /\ DownIsIdle
    /\ LockIsExclusive
    /\ \A r \in Reqs : SetsPolicy(r)
    /\ WritesAreOwned
    /\ FileFits
    /\ PoliciesWhole

-----------------------------------------------------------------------------
(* Queues *)

\* Somebody joins a queue at its end.
LEMMA Joins ==
  ASSUME NEW S, NEW s \in Seq(S), NEW x \in S, x \notin ToSet(s), IsInjective(s)
  PROVE  /\ Append(s, x) \in Seq(S)
         /\ ToSet(Append(s, x)) = ToSet(s) \cup {x}
         /\ IsInjective(Append(s, x))
<1>1. /\ Append(s, x) \in Seq(S) /\ DOMAIN Append(s, x) = 1..(Len(s) + 1)
      /\ DOMAIN s = 1..Len(s) /\ Len(s) \in Nat
      /\ \A i \in 1..Len(s) : Append(s, x)[i] = s[i]
      /\ Append(s, x)[Len(s) + 1] = x
  OBVIOUS
<1>2. ToSet(Append(s, x)) = ToSet(s) \cup {x}
  BY <1>1 DEF ToSet
<1>3. IsInjective(Append(s, x))
  <2>1. \A i \in 1..Len(s) : s[i] # x
    BY <1>1 DEF ToSet
  <2> QED BY <1>1, <2>1 DEF IsInjective
<1> QED BY <1>1, <1>2, <1>3

\* The first in a queue leaves it.
LEMMA Leaves ==
  ASSUME NEW S, NEW s \in Seq(S), s # <<>>, IsInjective(s)
  PROVE  /\ Tail(s) \in Seq(S) /\ Head(s) \in ToSet(s)
         /\ ToSet(Tail(s)) = ToSet(s) \ {Head(s)}
         /\ IsInjective(Tail(s))
<1>1. /\ Tail(s) \in Seq(S) /\ DOMAIN Tail(s) = 1..(Len(s) - 1)
      /\ DOMAIN s = 1..Len(s) /\ Len(s) \in Nat /\ Len(s) > 0
      /\ \A i \in 1..(Len(s) - 1) : Tail(s)[i] = s[i + 1]
      /\ Head(s) = s[1]
  OBVIOUS
<1>2. Head(s) \in ToSet(s)
  BY <1>1 DEF ToSet
<1>3. \A i \in 2..Len(s) : i - 1 \in 1..(Len(s) - 1) /\ Tail(s)[i - 1] = s[i]
  BY <1>1
<1>4. ToSet(Tail(s)) = ToSet(s) \ {Head(s)}
  <2>1. ASSUME NEW x \in ToSet(Tail(s)) PROVE x \in ToSet(s) \ {Head(s)}
    <3>1. PICK i \in 1..(Len(s) - 1) : x = Tail(s)[i]
      BY <1>1 DEF ToSet
    <3>2. x = s[i + 1] /\ i + 1 \in 1..Len(s) /\ i + 1 # 1
      BY <1>1, <3>1
    <3>3. s[i + 1] # s[1]
      BY <1>1, <3>2 DEF IsInjective
    <3> QED BY <1>1, <3>2, <3>3 DEF ToSet
  <2>2. ASSUME NEW x \in ToSet(s) \ {Head(s)} PROVE x \in ToSet(Tail(s))
    <3>1. PICK i \in 1..Len(s) : x = s[i]
      BY <1>1 DEF ToSet
    <3>2. i \in 2..Len(s)
      BY <1>1, <2>2, <3>1
    <3> QED BY <1>1, <1>3, <3>1, <3>2 DEF ToSet
  <2> QED BY <2>1, <2>2
<1>5. IsInjective(Tail(s))
  BY <1>1 DEF IsInjective
<1> QED BY <1>1, <1>2, <1>4, <1>5

\* Somebody gives up its place.
LEMMA GivesUp ==
  ASSUME NEW S, NEW s \in Seq(S), NEW x, IsInjective(s)
  PROVE  /\ Without(s, x) \in Seq(S)
         /\ ToSet(Without(s, x)) = ToSet(s) \ {x}
         /\ IsInjective(Without(s, x))
<1>1. CASE x \notin ToSet(s)
  BY <1>1 DEF Without
<1>2. CASE x \in ToSet(s)
  <2>1. PICK k \in 1..Len(s) : k = (CHOOSE i \in DOMAIN s : s[i] = x) /\ s[k] = x
    <3>1. \E i \in DOMAIN s : s[i] = x
      BY <1>2 DEF ToSet
    <3> QED BY <3>1
  <2>2. PICK u : u = Without(s, x)
    OBVIOUS
  <2>3. /\ u \in Seq(S) /\ Len(u) = Len(s) - 1 /\ DOMAIN u = 1..(Len(s) - 1)
        /\ \A i \in 1..(k - 1) : u[i] = s[i]
        /\ \A i \in k..(Len(s) - 1) : u[i] = s[i + 1]
        /\ DOMAIN s = 1..Len(s) /\ Len(s) \in Nat
    <3>1. u = SubSeq(s, 1, k - 1) \o SubSeq(s, k + 1, Len(s))
      BY <1>2, <2>1, <2>2 DEF Without, RemoveAt
    <3>2. PICK a : a = SubSeq(s, 1, k - 1)
      OBVIOUS
    <3>3. PICK b : b = SubSeq(s, k + 1, Len(s))
      OBVIOUS
    <3>4. /\ a \in Seq(S) /\ Len(a) = k - 1 /\ \A i \in 1..(k - 1) : a[i] = s[i]
      BY <3>2
    <3>5. /\ b \in Seq(S) /\ Len(b) = Len(s) - k
          /\ \A i \in 1..(Len(s) - k) : b[i] = s[i + k]
      BY <3>3
    <3>6. u = a \o b
      BY <3>1, <3>2, <3>3
    <3> HIDE <3>2, <3>3, <3>1
    <3>7. u \in Seq(S) /\ Len(u) = Len(s) - 1 /\ DOMAIN u = 1..(Len(s) - 1)
      BY <3>4, <3>5, <3>6
    <3>8. ASSUME NEW i \in 1..(k - 1) PROVE u[i] = s[i]
      BY <3>4, <3>5, <3>6, <3>8
    <3>9. ASSUME NEW i \in k..(Len(s) - 1) PROVE u[i] = s[i + 1]
      <4>1. i - (k - 1) \in 1..(Len(s) - k) /\ (i - (k - 1)) + k = i + 1
        BY <2>1, <3>9
      <4>2. u[i] = b[i - (k - 1)]
        BY <3>4, <3>5, <3>6, <3>9
      <4> QED BY <3>5, <4>1, <4>2
    <3> QED BY <3>7, <3>8, <3>9
  <2>4. \A i \in 1..Len(s) : s[i] = x => i = k
    BY <2>1, <2>3 DEF IsInjective
  <2>5. ASSUME NEW i \in 1..(Len(s) - 1)
        PROVE  \E j \in 1..Len(s) : /\ j = IF i < k THEN i ELSE i + 1
                                    /\ u[i] = s[j] /\ j # k
    <3>0. Len(s) \in Nat /\ k \in Int /\ k >= 1 /\ k <= Len(s)
      BY <2>1
    <3>1. CASE i < k
      <4>1. i \in 1..(k - 1) /\ i \in 1..Len(s) /\ i # k
        BY <3>0, <3>1
      <4> QED BY <2>3, <3>1, <4>1
    <3>2. CASE ~(i < k)
      <4>1. i \in k..(Len(s) - 1) /\ i + 1 \in 1..Len(s) /\ i + 1 # k
        BY <3>0, <3>2
      <4> QED BY <2>3, <3>2, <4>1
    <3> QED BY <3>1, <3>2
  <2>6. ASSUME NEW j \in 1..Len(s), j # k
        PROVE  \E i \in 1..(Len(s) - 1) : u[i] = s[j]
    <3>1. CASE j < k
      <4>1. j \in 1..(Len(s) - 1) /\ j \in 1..(k - 1)
        BY <2>1, <2>3, <3>1
      <4> QED BY <2>3, <4>1
    <3>2. CASE ~(j < k)
      <4>1. j - 1 \in k..(Len(s) - 1) /\ (j - 1) + 1 = j /\ j - 1 \in 1..(Len(s) - 1)
        BY <2>1, <2>3, <2>6, <3>2
      <4> QED BY <2>3, <4>1
    <3> QED BY <3>1, <3>2
  <2>7. ToSet(u) = ToSet(s) \ {x}
    <3>1. ASSUME NEW y \in ToSet(u) PROVE y \in ToSet(s) \ {x}
      <4>1. PICK i \in 1..(Len(s) - 1) : y = u[i]
        BY <2>3 DEF ToSet
      <4>2. PICK j \in 1..Len(s) : y = s[j] /\ j # k
        BY <2>5, <4>1
      <4> QED BY <2>3, <2>4, <4>2 DEF ToSet
    <3>2. ASSUME NEW y \in ToSet(s) \ {x} PROVE y \in ToSet(u)
      <4>1. PICK j \in 1..Len(s) : y = s[j]
        BY <2>3 DEF ToSet
      <4>2. j # k
        BY <2>1, <3>2, <4>1
      <4>3. PICK i \in 1..(Len(s) - 1) : u[i] = y
        BY <2>6, <4>1, <4>2
      <4> QED BY <2>3, <4>3 DEF ToSet
    <3> QED BY <3>1, <3>2
  <2>8. IsInjective(u)
    <3> SUFFICES ASSUME NEW i \in 1..(Len(s) - 1), NEW j \in 1..(Len(s) - 1), u[i] = u[j]
                 PROVE  i = j
      BY <2>3 DEF IsInjective
    <3>1. PICK a \in 1..Len(s) : a = (IF i < k THEN i ELSE i + 1) /\ u[i] = s[a]
      BY <2>5
    <3>2. PICK b \in 1..Len(s) : b = (IF j < k THEN j ELSE j + 1) /\ u[j] = s[b]
      BY <2>5
    <3>3. a = b
      BY <2>3, <3>1, <3>2 DEF IsInjective
    <3>4. Len(s) \in Nat /\ k \in Int
      BY <2>1
    <3>5. (IF i < k THEN i ELSE i + 1) = (IF j < k THEN j ELSE j + 1)
      BY <3>1, <3>2, <3>3
    <3> HIDE <3>1, <3>2, <3>3
    <3> QED BY <3>4, <3>5
  <2> QED BY <2>2, <2>3, <2>7, <2>8
<1> QED BY <1>1, <1>2

-----------------------------------------------------------------------------
(* Steps of one request *)

Readers == {"evaluate", "get_policy", "list_policies"}

\* The queues after a step of a request that moves its own places only.
LEMMA PlacesMove ==
  ASSUME IndInv, NEW r \in Reqs, \A s \in Reqs \ {r} : req'[s] = req[s],
         IsInjective(queue'), IsInjective(rvps'),
         \A s \in Reqs \ {r} :
            /\ s \in ToSet(queue') <=> s \in ToSet(queue)
            /\ Task(s) \in ToSet(rvps') <=> Task(s) \in ToSet(rvps)
            /\ Thread(s) \in ToSet(rvps') <=> Thread(s) \in ToSet(rvps),
         req'[r].pc = "queued" <=> r \in ToSet(queue'),
         req'[r].pc = "rvps" <=> Task(r) \in ToSet(rvps'),
         req'[r].pc = "blocked" => Thread(r) \in ToSet(rvps'),
         Thread(r) \in ToSet(rvps') => req'[r].pc \in {"blocked", "finish", "done"}
  PROVE  PlacesAreOwned' /\ ThreadsOnce'
<1>1. PlacesAreOwned /\ ThreadsOnce
  BY DEF IndInv
<1>2. ASSUME NEW s \in Reqs
      PROVE  /\ req'[s].pc = "queued" <=> s \in ToSet(queue')
             /\ req'[s].pc = "rvps" <=> Task(s) \in ToSet(rvps')
             /\ req'[s].pc = "blocked" => Thread(s) \in ToSet(rvps')
             /\ Thread(s) \in ToSet(rvps') =>
                   req'[s].pc \in {"blocked", "finish", "done"}
  <2>1. CASE s = r
    BY <2>1
  <2>2. CASE s # r
    BY <1>1, <2>2 DEF PlacesAreOwned, ThreadsOnce
  <2> QED BY <2>1, <2>2
<1>3. Task(r)' = Task(r) /\ Thread(r)' = Thread(r)
  BY DEF Task, Thread
<1> QED BY <1>2, <1>3 DEF PlacesAreOwned, ThreadsOnce, Task, Thread

\* A request moves, and neither begins nor ends the setting of a policy.
LEMMA Moves ==
  ASSUME IndInv, NEW r \in Reqs, up = "up",
         UNCHANGED <<deployment, up, drops, crashes, file, writes, latest, loose>>,
         req' \in [Reqs -> Request],
         \A s \in Reqs \ {r} : req'[s] = req[s],
         queue' \in Seq(Reqs), rvps' \in Seq({"task", "thread"} \X Reqs),
         PlacesAreOwned', ThreadsOnce',
         req[r].pc # "writing", req'[r].pc \notin {"writing", "written"},
         req[r].pc = "done" => req'[r].pc = "done",
         req'[r].pc \in {"ask", "blocked", "answered"} => req'[r].kind = "evaluate",
         SetsPolicy(r)',
         req'[r].pc \in Locked =>
            \/ req[r].pc \in Locked /\ req'[r].kind = req[r].kind
            \/ \A h \in Holders : ~Writes(req[h].kind) /\ ~Writes(req'[r].kind),
         Unanswered(r)' <=> Unanswered(r),
         Unanswered(r) => req'[r].policy = req[r].policy,
         req'[r].pc \in Locked \ {"locked"} /\ req'[r].kind \in Readers
            => req'[r].policy \in {latest} \cup LooseContents
  PROVE  IndInv'
<1>1. TypeOK'
  <2>1. ASSUME NEW s \in Reqs
        PROVE  /\ req'[s].pc \in {"writing", "written"} => req'[s].kind = "set_policy"
               /\ req'[s].pc \in {"ask", "blocked", "answered"} => req'[s].kind = "evaluate"
    BY DEF IndInv, TypeOK
  <2> QED BY <2>1 DEF IndInv, TypeOK
<1>2. DownIsIdle'
  BY DEF DownIsIdle
<1>3. LockIsExclusive'
  <2>1. LockIsExclusive
    BY DEF IndInv
  <2>2. ASSUME NEW g \in Holders', NEW h \in Holders', g # h
        PROVE  ~Writes(req'[g].kind)
    <3>1. g \in Reqs /\ h \in Reqs
      BY DEF Holders
    <3>2. CASE g # r /\ h # r
      BY <2>1, <2>2, <3>1, <3>2 DEF LockIsExclusive, Holders
    <3>3. CASE g = r
      <4>1. h \in Holders /\ h # g
        BY <2>2, <3>1, <3>3 DEF Holders
      <4>2. req'[r].pc \in Locked
        BY <3>3 DEF Holders
      <4> QED BY <2>1, <3>1, <3>3, <4>1, <4>2 DEF LockIsExclusive, Holders
    <3>4. CASE h = r
      <4>1. g \in Holders /\ h # g /\ req'[g] = req[g]
        BY <2>2, <3>1, <3>4 DEF Holders
      <4>2. req'[r].pc \in Locked
        BY <3>4 DEF Holders
      <4> QED BY <2>1, <3>1, <3>4, <4>1, <4>2 DEF LockIsExclusive, Holders
    <3> QED BY <3>2, <3>3, <3>4
  <2> QED BY <2>2 DEF LockIsExclusive
<1>4. \A s \in Reqs : SetsPolicy(s)'
  BY DEF IndInv, SetsPolicy
<1>5. \A s \in Reqs : Unanswered(s)' <=> Unanswered(s)
  BY DEF Unanswered
<1>6. WritesAreOwned' /\ FileFits'
  <2>1. WritesAreOwned /\ FileFits /\ writes \subseteq Write /\ LooseContents' = LooseContents
    BY DEF IndInv, TypeOK, LooseContents
  <2>2. WritesAreOwned'
    <3> SUFFICES ASSUME NEW w \in writes
                 PROVE  /\ req'[w.of].pc \in {"writing", "done"}
                        /\ \/ w.policy \in loose
                           \/ req'[w.of].pc = "writing" /\ w.policy = req'[w.of].policy
                        /\ w.alone \/ loose # {}
                        /\ \A v \in writes : v.of = w.of => v = w
      BY DEF WritesAreOwned
    <3>1. w.of \in Reqs
      BY <2>1 DEF Write
    <3>2. CASE w.of = r
      BY <2>1, <3>2 DEF WritesAreOwned
    <3>3. CASE w.of # r
      BY <2>1, <3>1, <3>3 DEF WritesAreOwned
    <3> QED BY <3>2, <3>3
  <2>3. ASSUME NEW s \in Reqs, Unanswered(s)'
        PROVE  file \in LooseContents \cup
                  (IF req'[s].pc = "writing" THEN {Torn} ELSE {req'[s].policy})
    <3>1. CASE s = r
      BY <1>5, <2>1, <2>3, <3>1 DEF FileFits
    <3>2. CASE s # r
      BY <1>5, <2>1, <2>3, <3>2 DEF FileFits
    <3> QED BY <3>1, <3>2
  <2> QED BY <1>5, <2>1, <2>2, <2>3 DEF FileFits
<1>7. PoliciesWhole'
  <2>1. PoliciesWhole /\ LooseContents' = LooseContents
    BY DEF IndInv, LooseContents
  <2> SUFFICES ASSUME NEW s \in Holders', req'[s].kind \in Readers, req'[s].pc # "locked"
               PROVE  req'[s].policy \in {latest} \cup LooseContents
    BY <2>1 DEF PoliciesWhole, Readers
  <2>2. s \in Reqs /\ req'[s].pc \in Locked
    BY DEF Holders
  <2>3. CASE s = r
    BY <2>2, <2>3
  <2>4. CASE s # r
    <3>1. req'[s] = req[s] /\ s \in Holders
      BY <2>2, <2>4 DEF Holders
    <3> QED BY <2>1, <3>1 DEF PoliciesWhole, Readers
  <2> QED BY <2>3, <2>4
<1> QED BY <1>1, <1>2, <1>3, <1>4, <1>6, <1>7 DEF IndInv

\* Where a request under way is, the service is up; of one that has the lock
\* and reads, nobody writes beside it.
LEMMA UnderWay ==
  ASSUME IndInv, NEW r \in Reqs, req[r].pc \notin {"idle", "done"}
  PROVE  up = "up"
BY DEF IndInv, DownIsIdle

\* Who reads the policy file under the lock reads what the last answer said, or
\* something loose.
LEMMA ReadsLatest ==
  ASSUME IndInv, NEW r \in Reqs, req[r].pc \in Locked, req[r].kind \in Readers
  PROVE  file \in {latest} \cup LooseContents
<1>1. up = "up"
  BY UnderWay DEF Locked
<1>2. ASSUME NEW s \in Reqs, Unanswered(s) PROVE FALSE
  <2>1. s \in Holders /\ r \in Holders /\ s # r /\ Writes(req[s].kind)
    BY <1>2 DEF Unanswered, Holders, Locked, Readers, Writes
  <2> QED BY <2>1 DEF IndInv, LockIsExclusive
<1> QED BY <1>1, <1>2 DEF IndInv, FileFits

\* A request with the lock goes on without the queues.
LEMMA StaysLocked ==
  ASSUME IndInv, NEW r \in Reqs,
         UNCHANGED <<faults, queue, rvps, file, writes, latest, loose>>,
         req' \in [Reqs -> Request], \A s \in Reqs \ {r} : req'[s] = req[s],
         req[r].pc \in {"locked", "written", "ask", "blocked", "answered"},
         req'[r].kind = req[r].kind, req'[r].pc \in {"finish", "ask"},
         req'[r].pc = "ask" => req[r].kind = "evaluate",
         req[r].pc = "blocked" => req'[r].pc = "finish",
         req[r].kind = "set_policy" =>
            /\ req'[r].policy = req[r].policy /\ req'[r].ok = req[r].ok
            /\ req'[r].pc = "finish",
         req[r].kind \in Readers =>
            \/ req'[r].policy = file
            \/ req'[r].policy = req[r].policy /\ req[r].pc # "locked"
  PROVE  IndInv'
<1>1. TypeOK /\ PlacesAreOwned /\ ThreadsOnce /\ SetsPolicy(r)
  BY DEF IndInv
<1>2. /\ queue' \in Seq(Reqs) /\ rvps' \in Seq({"task", "thread"} \X Reqs)
      /\ UNCHANGED <<deployment, up, drops, crashes>>
  BY <1>1 DEF TypeOK, faults
<1>3. up = "up"
  BY UnderWay
<1>4. PlacesAreOwned' /\ ThreadsOnce'
  <2>1. IsInjective(queue') /\ IsInjective(rvps')
    BY <1>1 DEF PlacesAreOwned
  <2>2. /\ r \notin ToSet(queue) /\ Task(r) \notin ToSet(rvps)
        /\ Thread(r) \in ToSet(rvps) => req'[r].pc = "finish"
    BY <1>1 DEF PlacesAreOwned, ThreadsOnce
  <2> QED BY <2>1, <2>2, PlacesMove
<1>5. SetsPolicy(r)'
  BY <1>1 DEF SetsPolicy
<1>6. Unanswered(r)' <=> Unanswered(r)
  <2>1. CASE req[r].kind = "set_policy"
    <3>1. req[r].pc \in {"locked", "written"}
      BY <1>1, <2>1 DEF TypeOK
    <3>2. req[r].pc = "locked" => ~req[r].ok /\ req[r].policy # Torn
      BY <1>1, <2>1, ServiceAssumption DEF SetsPolicy
    <3>3. req[r].pc = "written" => req[r].ok \/ req[r].policy = Torn
      BY <1>1, <2>1 DEF SetsPolicy
    <3> QED BY <2>1, <3>1, <3>2, <3>3 DEF Unanswered
  <2>2. CASE req[r].kind # "set_policy"
    BY <2>2 DEF Unanswered
  <2> QED BY <2>1, <2>2
<1>7. Unanswered(r) => req'[r].policy = req[r].policy
  BY DEF Unanswered
<1>8. req[r].pc \in Locked
  BY DEF Locked
<1>9. req'[r].kind \in Readers => req'[r].policy \in {latest} \cup LooseContents
  <2> SUFFICES ASSUME req[r].kind \in Readers
               PROVE  req'[r].policy \in {latest} \cup LooseContents
    OBVIOUS
  <2>1. CASE req'[r].policy = file
    BY <1>8, <2>1, ReadsLatest
  <2>2. CASE req'[r].policy = req[r].policy /\ req[r].pc # "locked"
    BY <1>8, <2>2 DEF IndInv, PoliciesWhole, Holders, Readers
  <2> QED BY <2>1, <2>2
<1> QED BY <1>2, <1>3, <1>4, <1>5, <1>6, <1>7, <1>8, <1>9, Moves

\* A handler moves on.
LEMMA SetsPc ==
  ASSUME req \in [Reqs -> Request], NEW r \in Reqs, NEW p \in Pcs,
         Set(r, p)
  PROVE  /\ req' \in [Reqs -> Request] /\ \A s \in Reqs \ {r} : req'[s] = req[s]
         /\ req'[r].kind = req[r].kind /\ req'[r].pc = p
         /\ req'[r].ok = req[r].ok /\ req'[r].policy = req[r].policy
BY DEF Request, Set

\* A handler moves on and knows how it ended.
LEMMA SetsOk ==
  ASSUME req \in [Reqs -> Request], NEW r \in Reqs, NEW p \in Pcs,
         NEW ok \in BOOLEAN, req' = [req EXCEPT ![r].pc = p, ![r].ok = ok]
  PROVE  /\ req' \in [Reqs -> Request] /\ \A s \in Reqs \ {r} : req'[s] = req[s]
         /\ req'[r].kind = req[r].kind /\ req'[r].pc = p
         /\ req'[r].ok = ok /\ req'[r].policy = req[r].policy
BY DEF Request, Set

\* A handler ends with the bytes of the policy file.
LEMMA SetsAll ==
  ASSUME req \in [Reqs -> Request], NEW r \in Reqs, NEW p \in Pcs,
         NEW ok \in BOOLEAN, NEW policy \in File,
         req' = [req EXCEPT ![r].pc = p, ![r].ok = ok, ![r].policy = policy]
  PROVE  /\ req' \in [Reqs -> Request] /\ \A s \in Reqs \ {r} : req'[s] = req[s]
         /\ req'[r].kind = req[r].kind /\ req'[r].pc = p
         /\ req'[r].ok = ok /\ req'[r].policy = policy
BY DEF Request, Set

\* What a handler does with the lock, and without the queues.
LEMMA LockedSteps ==
  ASSUME IndInv, NEW r \in Reqs,
         \/ get_challenge(r) \/ register_component(r) \/ RefusePolicy(r)
         \/ Written(r) \/ ReadFile(r) \/ LoadPolicy(r) \/ Appraised(r) \/ Timeout(r)
  PROVE  IndInv'
<1>1. /\ TypeOK /\ SetsPolicy(r) /\ req \in [Reqs -> Request] /\ file \in File
      /\ req[r].policy \in File /\ req[r].ok \in BOOLEAN
      /\ {"finish", "ask"} \subseteq Pcs
  BY DEF IndInv, TypeOK, Request, Pcs, Locked
<1>2. ASSUME NEW kind \in {"challenge", "register_component"}, Answer(r, kind)
      PROVE  IndInv'
  <2>1. PICK ok \in BOOLEAN : req' = [req EXCEPT ![r].pc = "finish", ![r].ok = ok]
    BY <1>2 DEF Answer
  <2>2. /\ req' \in [Reqs -> Request] /\ \A s \in Reqs \ {r} : req'[s] = req[s]
        /\ req'[r].kind = req[r].kind /\ req'[r].pc = "finish"
        /\ req'[r].ok = ok /\ req'[r].policy = req[r].policy
    BY <1>1, <1>2, <2>1, SetsOk DEF Answer
  <2>3. req[r].kind \notin Readers /\ req[r].kind # "set_policy"
    BY <1>1, <1>2 DEF Answer, TypeOK, SetsPolicy, Readers
  <2> QED BY <1>2, <2>1, <2>2, <2>3, StaysLocked DEF Answer
<1>3. CASE RefusePolicy(r)
  <2>1. UNCHANGED <<faults, queue, rvps, file, writes, latest, loose>>
    BY <1>3 DEF RefusePolicy
  <2>2. /\ req' \in [Reqs -> Request] /\ \A s \in Reqs \ {r} : req'[s] = req[s]
        /\ req'[r].kind = req[r].kind /\ req'[r].pc = "finish"
        /\ req'[r].ok = req[r].ok /\ req'[r].policy = req[r].policy
    BY <1>1, <1>3, <2>1, SetsPc DEF RefusePolicy
  <2>3. ~req[r].ok /\ req[r].kind \notin Readers
    BY <1>1, <1>3 DEF RefusePolicy, TypeOK, SetsPolicy, Readers
  <2> QED BY <1>3, <2>1, <2>2, <2>3, StaysLocked DEF RefusePolicy
<1>4. CASE Written(r)
  <2>1. UNCHANGED <<faults, queue, rvps, file, writes, latest, loose>>
    BY <1>4 DEF Written
  <2>2. /\ req' \in [Reqs -> Request] /\ \A s \in Reqs \ {r} : req'[s] = req[s]
        /\ req'[r].kind = req[r].kind /\ req'[r].pc = "finish"
        /\ req'[r].ok = req[r].ok /\ req'[r].policy = req[r].policy
    BY <1>1, <1>4, <2>1, SetsPc DEF Written
  <2>3. req[r].kind \notin Readers
    BY <1>1, <1>4 DEF Written, TypeOK, SetsPolicy, Readers
  <2> QED BY <1>4, <2>1, <2>2, <2>3, StaysLocked DEF Written
<1>5. CASE ReadFile(r)
  <2>1. UNCHANGED <<faults, queue, rvps, file, writes, latest, loose>>
    BY <1>5 DEF ReadFile
  <2>2. /\ req' \in [Reqs -> Request] /\ \A s \in Reqs \ {r} : req'[s] = req[s]
        /\ req'[r].kind = req[r].kind /\ req'[r].pc = "finish"
        /\ req'[r].ok = TRUE /\ req'[r].policy = file
    BY <1>1, <1>5, <2>1, SetsAll DEF ReadFile
  <2>3. req[r].kind # "set_policy"
    BY <1>1, <1>5 DEF ReadFile, TypeOK, SetsPolicy, Readers
  <2> QED BY <1>5, <2>1, <2>2, <2>3, StaysLocked DEF ReadFile
<1>6. CASE LoadPolicy(r)
  <2>1. PICK p \in {"finish", "ask"} :
           req' = [req EXCEPT ![r].policy = file, ![r].pc = p]
    BY <1>6 DEF LoadPolicy
  <2>2. /\ req' \in [Reqs -> Request] /\ \A s \in Reqs \ {r} : req'[s] = req[s]
        /\ req'[r].kind = req[r].kind /\ req'[r].pc = p
        /\ req'[r].ok = req[r].ok /\ req'[r].policy = file
    <3>1. p \in Pcs
      BY <1>1
    <3> QED BY <1>1, <2>1, <3>1 DEF Request
  <2>3. req[r].kind = "evaluate"
    BY <1>1, <1>6 DEF LoadPolicy, TypeOK, SetsPolicy, Readers
  <2> QED BY <1>6, <2>1, <2>2, <2>3, StaysLocked DEF LoadPolicy
<1>7. CASE Appraised(r)
  <2>1. PICK ok \in BOOLEAN : req' = [req EXCEPT ![r].pc = "finish", ![r].ok = ok]
    BY <1>7 DEF Appraised
  <2>2. /\ req' \in [Reqs -> Request] /\ \A s \in Reqs \ {r} : req'[s] = req[s]
        /\ req'[r].kind = req[r].kind /\ req'[r].pc = "finish"
        /\ req'[r].ok = ok /\ req'[r].policy = req[r].policy
    BY <1>1, <1>7, <2>1, SetsOk DEF Appraised
  <2>3. req[r].kind = "evaluate"
    BY <1>1, <1>7 DEF Appraised, TypeOK, SetsPolicy, Readers
  <2> QED BY <1>7, <2>1, <2>2, <2>3, StaysLocked DEF Appraised
<1>8. CASE Timeout(r)
  <2>1. UNCHANGED <<faults, queue, rvps, file, writes, latest, loose>>
    BY <1>8 DEF Timeout
  <2>2. /\ req' \in [Reqs -> Request] /\ \A s \in Reqs \ {r} : req'[s] = req[s]
        /\ req'[r].kind = req[r].kind /\ req'[r].pc = "finish"
        /\ req'[r].ok = req[r].ok /\ req'[r].policy = req[r].policy
    BY <1>1, <1>8, <2>1, SetsPc DEF Timeout
  <2>3. req[r].kind = "evaluate"
    BY <1>1, <1>8 DEF Timeout, TypeOK, SetsPolicy, Readers
  <2> QED BY <1>8, <2>1, <2>2, <2>3, StaysLocked DEF Timeout
<1> QED BY <1>2, <1>3, <1>4, <1>5, <1>6, <1>7, <1>8
        DEF get_challenge, register_component

\* Places of tasks, of threads and of requests are told apart.
LEMMA PlacesDiffer ==
  ASSUME NEW r \in Reqs, NEW s \in Reqs
  PROVE  /\ Task(r) \in {"task", "thread"} \X Reqs
         /\ Thread(r) \in {"task", "thread"} \X Reqs
         /\ Task(r) # Thread(s)
         /\ r # s => Task(r) # Task(s) /\ Thread(r) # Thread(s)
BY DEF Task, Thread

\* A request joins the queue of the RwLock, or waits for a connection, or gets
\* none.
LEMMA QueueSteps ==
  ASSUME IndInv, NEW r \in Reqs, up = "up",
         UNCHANGED <<faults, rvps, file, writes, latest, loose>>,
         req' \in [Reqs -> Request], \A s \in Reqs \ {r} : req'[s] = req[s],
         req[r].pc \in {"idle", "pool"}, SetsPolicy(r)',
         \/ req'[r].pc \in {"pool", "done"} /\ UNCHANGED queue
         \/ req'[r].pc = "queued" /\ queue' = Append(queue, r)
  PROVE  IndInv'
<1>1. TypeOK /\ PlacesAreOwned /\ ThreadsOnce
  BY DEF IndInv
<1>2. /\ queue \in Seq(Reqs) /\ IsInjective(queue) /\ r \notin ToSet(queue)
      /\ Task(r) \notin ToSet(rvps) /\ Thread(r) \notin ToSet(rvps)
      /\ IsInjective(rvps') /\ rvps' \in Seq({"task", "thread"} \X Reqs)
      /\ UNCHANGED <<deployment, up, drops, crashes>>
  BY <1>1 DEF TypeOK, PlacesAreOwned, ThreadsOnce, faults
<1>3. /\ queue' \in Seq(Reqs) /\ IsInjective(queue')
      /\ ToSet(queue') = IF req'[r].pc = "queued" THEN ToSet(queue) \cup {r}
                                                  ELSE ToSet(queue)
  <2>1. CASE UNCHANGED queue /\ req'[r].pc # "queued"
    BY <1>2, <2>1
  <2>2. CASE req'[r].pc = "queued" /\ queue' = Append(queue, r)
    BY <1>2, <2>2, Joins
  <2> QED BY <2>1, <2>2
<1>4. PlacesAreOwned' /\ ThreadsOnce'
  BY <1>2, <1>3, PlacesMove
<1>5. ~Unanswered(r) /\ ~Unanswered(r)' /\ req'[r].pc \notin Locked
  BY DEF Unanswered, Locked
<1> QED BY <1>2, <1>3, <1>4, <1>5, Moves

\* A request comes in.
LEMMA Arrives ==
  ASSUME IndInv, NEW r \in Reqs, NEW kind \in Kinds, NEW policy \in Policies \cup {None},
         kind = "set_policy" => policy \in Policies, Arrive(r, kind, policy)
  PROVE  IndInv'
<1>1. PICK p \in {"pool", "queued"} : p = IF deployment.pool THEN "pool" ELSE "queued"
  OBVIOUS
<1>2. PICK a : a = [Fresh EXCEPT !.kind = kind, !.policy = policy, !.pc = p]
  OBVIOUS
<1>3. a = [kind |-> kind, pc |-> p, policy |-> policy, ok |-> FALSE]
  BY <1>2 DEF Fresh
<1>4. a \in Request /\ a.kind = kind /\ a.pc = p /\ a.policy = policy /\ ~a.ok
  BY <1>3 DEF Request, Pcs, File
<1>5. req \in [Reqs -> Request] /\ req' = [req EXCEPT ![r] = a]
  BY <1>1, <1>2 DEF Arrive, IndInv, TypeOK
<1>6. /\ req' \in [Reqs -> Request] /\ req'[r] = a
      /\ \A s \in Reqs \ {r} : req'[s] = req[s]
  BY <1>4, <1>5
<1>7. SetsPolicy(r)'
  BY <1>4, <1>6 DEF SetsPolicy
<1>8. queue' = IF p = "pool" THEN queue ELSE Append(queue, r)
  BY <1>1 DEF Arrive
<1> HIDE <1>1, <1>2, <1>3, <1>5
<1> QED BY <1>4, <1>6, <1>7, <1>8, QueueSteps DEF Arrive

\* A request gets a connection, or none.
LEMMA PoolSteps ==
  ASSUME IndInv, NEW r \in Reqs, GetConnection(r) \/ NoConnection(r)
  PROVE  IndInv'
<1>1. /\ TypeOK /\ SetsPolicy(r) /\ req \in [Reqs -> Request] /\ req[r].pc = "pool"
      /\ "queued" \in Pcs /\ "done" \in Pcs
  BY DEF IndInv, TypeOK, Pcs, GetConnection, NoConnection
<1>2. up = "up"
  BY <1>1, UnderWay
<1>3. CASE GetConnection(r)
  <2>1. /\ req' \in [Reqs -> Request] /\ \A s \in Reqs \ {r} : req'[s] = req[s]
        /\ req'[r].kind = req[r].kind /\ req'[r].pc = "queued"
        /\ req'[r].ok = req[r].ok /\ req'[r].policy = req[r].policy
    BY <1>1, <1>3, SetsPc DEF GetConnection
  <2>2. SetsPolicy(r)'
    BY <1>1, <2>1 DEF SetsPolicy
  <2> QED BY <1>1, <1>2, <1>3, <2>1, <2>2, QueueSteps DEF GetConnection
<1>4. CASE NoConnection(r)
  <2>1. /\ req' \in [Reqs -> Request] /\ \A s \in Reqs \ {r} : req'[s] = req[s]
        /\ req'[r].kind = req[r].kind /\ req'[r].pc = "done"
        /\ req'[r].ok = FALSE /\ req'[r].policy = req[r].policy
    BY <1>1, <1>4, SetsOk DEF NoConnection, End
  <2>2. SetsPolicy(r)'
    BY <1>1, <2>1 DEF SetsPolicy
  <2> QED BY <1>1, <1>2, <1>4, <2>1, <2>2, QueueSteps DEF NoConnection
<1> QED BY <1>3, <1>4

\* The first in the queue is given the lock.
LEMMA Grants ==
  ASSUME IndInv, NEW r \in Reqs, Grant(r)
  PROVE  IndInv'
<1>1. /\ TypeOK /\ PlacesAreOwned /\ ThreadsOnce /\ SetsPolicy(r)
      /\ req \in [Reqs -> Request] /\ "locked" \in Pcs
  BY DEF IndInv, TypeOK, Pcs, Locked
<1>2. /\ queue' \in Seq(Reqs) /\ r \in ToSet(queue) /\ IsInjective(queue')
      /\ ToSet(queue') = ToSet(queue) \ {r}
  BY <1>1, Leaves DEF TypeOK, PlacesAreOwned, Grant
<1>3. req[r].pc = "queued"
  BY <1>1, <1>2 DEF PlacesAreOwned
<1>4. up = "up"
  BY <1>3, UnderWay
<1>5. /\ req' \in [Reqs -> Request] /\ \A s \in Reqs \ {r} : req'[s] = req[s]
      /\ req'[r].kind = req[r].kind /\ req'[r].pc = "locked"
      /\ req'[r].ok = req[r].ok /\ req'[r].policy = req[r].policy
  BY <1>1, SetsPc DEF Grant
<1>6. /\ IsInjective(rvps') /\ rvps' \in Seq({"task", "thread"} \X Reqs)
      /\ Task(r) \notin ToSet(rvps) /\ Thread(r) \notin ToSet(rvps)
      /\ UNCHANGED <<deployment, up, drops, crashes, rvps, file, writes, latest, loose>>
  BY <1>1, <1>3 DEF TypeOK, PlacesAreOwned, ThreadsOnce, Grant, faults
<1>7. PlacesAreOwned' /\ ThreadsOnce'
  BY <1>2, <1>5, <1>6, PlacesMove
<1>8. SetsPolicy(r)' /\ ~Unanswered(r) /\ ~Unanswered(r)'
  BY <1>1, <1>3, <1>5 DEF SetsPolicy, Unanswered
<1>9. \A h \in Holders : ~Writes(req[h].kind) /\ ~Writes(req'[r].kind)
  BY <1>5 DEF Grant
<1> HIDE DEF Grant
<1> QED BY <1>2, <1>3, <1>4, <1>5, <1>6, <1>7, <1>8, <1>9, Moves

\* A request that has the lock joins or leaves the queue of the RVPS' mutex.
LEMMA RvpsMoves ==
  ASSUME IndInv, NEW r \in Reqs,
         UNCHANGED <<faults, queue, file, writes, latest, loose>>,
         req' \in [Reqs -> Request], \A s \in Reqs \ {r} : req'[s] = req[s],
         rvps' \in Seq({"task", "thread"} \X Reqs), IsInjective(rvps'),
         \A s \in Reqs \ {r} :
            /\ Task(s) \in ToSet(rvps') <=> Task(s) \in ToSet(rvps)
            /\ Thread(s) \in ToSet(rvps') <=> Thread(s) \in ToSet(rvps),
         req'[r].pc = "rvps" <=> Task(r) \in ToSet(rvps'),
         req'[r].pc = "blocked" => Thread(r) \in ToSet(rvps'),
         Thread(r) \in ToSet(rvps') => req'[r].pc \in {"blocked", "finish", "done"},
         req[r].pc \in {"locked", "ask", "rvps", "blocked"},
         req[r].kind # "set_policy",
         req'[r].kind = req[r].kind, req'[r].policy = req[r].policy,
         req'[r].pc \in {"rvps", "blocked", "answered", "finish"},
         req'[r].pc \in {"blocked", "answered"} => req[r].kind = "evaluate",
         req[r].kind \in Readers => req[r].pc # "locked"
  PROVE  IndInv'
<1>1. TypeOK /\ PlacesAreOwned /\ ThreadsOnce /\ SetsPolicy(r)
  BY DEF IndInv
<1>2. /\ queue' \in Seq(Reqs) /\ IsInjective(queue') /\ r \notin ToSet(queue)
      /\ UNCHANGED <<deployment, up, drops, crashes>>
  BY <1>1 DEF TypeOK, PlacesAreOwned, faults
<1>3. up = "up"
  BY UnderWay
<1>4. PlacesAreOwned' /\ ThreadsOnce'
  BY <1>2, PlacesMove
<1>5. SetsPolicy(r)' /\ ~Unanswered(r) /\ ~Unanswered(r)'
  BY <1>1 DEF SetsPolicy, Unanswered
<1>6. req[r].pc \in Locked
  BY DEF Locked
<1>7. req'[r].kind \in Readers => req'[r].policy \in {latest} \cup LooseContents
  BY <1>6 DEF IndInv, PoliciesWhole, Holders, Readers
<1> QED BY <1>2, <1>3, <1>4, <1>5, <1>6, <1>7, Moves

\* A request waits for the RVPS, as a worker that blocks or as a task.
LEMMA JoinsRvps ==
  ASSUME IndInv, NEW r \in Reqs, Ask(r) \/ LockRvps(r)
  PROVE  IndInv'
<1>1. /\ TypeOK /\ PlacesAreOwned /\ ThreadsOnce /\ req \in [Reqs -> Request]
      /\ "rvps" \in Pcs /\ "blocked" \in Pcs
      /\ rvps \in Seq({"task", "thread"} \X Reqs) /\ IsInjective(rvps)
      /\ req[r].pc \in {"locked", "ask"}
  BY DEF IndInv, TypeOK, Pcs, Locked, PlacesAreOwned, Ask, LockRvps
<1>2. Task(r) \notin ToSet(rvps) /\ Thread(r) \notin ToSet(rvps)
  BY <1>1 DEF PlacesAreOwned, ThreadsOnce
<1>3. /\ Task(r) \in {"task", "thread"} \X Reqs /\ Thread(r) \in {"task", "thread"} \X Reqs
      /\ Task(r) # Thread(r)
      /\ \A s \in Reqs \ {r} : /\ Task(s) # Thread(r) /\ Thread(s) # Task(r)
                               /\ Task(s) # Task(r) /\ Thread(s) # Thread(r)
  BY PlacesDiffer
<1>4. CASE Ask(r)
  <2>1. /\ req' \in [Reqs -> Request] /\ \A s \in Reqs \ {r} : req'[s] = req[s]
        /\ req'[r].kind = req[r].kind /\ req'[r].pc = "blocked"
        /\ req'[r].ok = req[r].ok /\ req'[r].policy = req[r].policy
    BY <1>1, <1>4, SetsPc DEF Ask
  <2>2. /\ rvps' \in Seq({"task", "thread"} \X Reqs) /\ IsInjective(rvps')
        /\ ToSet(rvps') = ToSet(rvps) \cup {Thread(r)}
    BY <1>1, <1>2, <1>3, <1>4, Joins DEF Ask
  <2>3. req[r].pc = "ask" /\ req[r].kind = "evaluate"
    BY <1>1, <1>4 DEF Ask, TypeOK
  <2>4. UNCHANGED <<faults, queue, file, writes, latest, loose>>
    BY <1>4 DEF Ask
  <2> QED BY <1>2, <1>3, <2>1, <2>2, <2>3, <2>4, RvpsMoves
<1>5. CASE LockRvps(r)
  <2>1. /\ req' \in [Reqs -> Request] /\ \A s \in Reqs \ {r} : req'[s] = req[s]
        /\ req'[r].kind = req[r].kind /\ req'[r].pc = "rvps"
        /\ req'[r].ok = req[r].ok /\ req'[r].policy = req[r].policy
    BY <1>1, <1>5, SetsPc DEF LockRvps
  <2>2. /\ rvps' \in Seq({"task", "thread"} \X Reqs) /\ IsInjective(rvps')
        /\ ToSet(rvps') = ToSet(rvps) \cup {Task(r)}
    BY <1>1, <1>2, <1>3, <1>5, Joins DEF LockRvps
  <2>3. req[r].pc = "locked" /\ req[r].kind \notin Readers \cup {"set_policy"}
    BY <1>5 DEF LockRvps, Readers
  <2>4. UNCHANGED <<faults, queue, file, writes, latest, loose>>
    BY <1>5 DEF LockRvps
  <2> QED BY <1>2, <1>3, <2>1, <2>2, <2>3, <2>4, RvpsMoves
<1> QED BY <1>4, <1>5

\* The RVPS has answered a task, or a thread whose worker may still wait.
LEMMA LeavesRvps ==
  ASSUME IndInv, NEW r \in Reqs, ThreadAnswers(r) \/ RvpsServed(r)
  PROVE  IndInv'
<1>1. /\ TypeOK /\ PlacesAreOwned /\ ThreadsOnce /\ req \in [Reqs -> Request]
      /\ "answered" \in Pcs /\ "finish" \in Pcs
      /\ rvps \in Seq({"task", "thread"} \X Reqs) /\ IsInjective(rvps)
      /\ rvps # <<>> /\ SetsPolicy(r)
  BY DEF IndInv, TypeOK, Pcs, Locked, PlacesAreOwned, ThreadAnswers, RvpsServed
<1>2. /\ rvps' \in Seq({"task", "thread"} \X Reqs) /\ IsInjective(rvps')
      /\ Head(rvps) \in ToSet(rvps) /\ ToSet(rvps') = ToSet(rvps) \ {Head(rvps)}
  <2>1. rvps' = Tail(rvps)
    BY DEF ThreadAnswers, RvpsServed
  <2> QED BY <1>1, <2>1, Leaves
<1>3. /\ Task(r) # Thread(r)
      /\ \A s \in Reqs \ {r} : /\ Task(s) # Thread(r) /\ Thread(s) # Task(r)
                               /\ Task(s) # Task(r) /\ Thread(s) # Thread(r)
  BY PlacesDiffer
<1>4. UNCHANGED <<faults, queue, file, writes, latest, loose>>
  BY DEF ThreadAnswers, RvpsServed
<1>5. CASE RvpsServed(r)
  <2>1. PICK ok \in BOOLEAN : req' = [req EXCEPT ![r].pc = "finish", ![r].ok = ok]
    BY <1>5 DEF RvpsServed
  <2>2. /\ req' \in [Reqs -> Request] /\ \A s \in Reqs \ {r} : req'[s] = req[s]
        /\ req'[r].kind = req[r].kind /\ req'[r].pc = "finish"
        /\ req'[r].ok = ok /\ req'[r].policy = req[r].policy
    BY <1>1, <2>1, SetsOk
  <2>3. Head(rvps) = Task(r) /\ req[r].pc = "rvps"
    BY <1>1, <1>2, <1>5 DEF RvpsServed, PlacesAreOwned
  <2>4. req[r].kind # "set_policy"
    BY <1>1, <2>3 DEF SetsPolicy
  <2> QED BY <1>2, <1>3, <1>4, <2>2, <2>3, <2>4, RvpsMoves
<1>6. CASE ThreadAnswers(r) /\ req[r].pc = "blocked"
  <2>1. /\ req' \in [Reqs -> Request] /\ \A s \in Reqs \ {r} : req'[s] = req[s]
        /\ req'[r].kind = req[r].kind /\ req'[r].pc = "answered"
        /\ req'[r].ok = req[r].ok /\ req'[r].policy = req[r].policy
    BY <1>1, <1>6, SetsPc DEF ThreadAnswers, Set
  <2>2. Head(rvps) = Thread(r) /\ req[r].kind = "evaluate" /\ Task(r) \notin ToSet(rvps)
    BY <1>1, <1>6 DEF ThreadAnswers, TypeOK, PlacesAreOwned
  <2> QED BY <1>2, <1>3, <1>4, <1>6, <2>1, <2>2, RvpsMoves
<1>7. CASE ThreadAnswers(r) /\ req[r].pc # "blocked"
  <2>1. req' = req /\ Head(rvps) = Thread(r)
    BY <1>7 DEF ThreadAnswers
  <2>2. req[r].pc \in {"finish", "done"}
    BY <1>1, <1>2, <1>7, <2>1 DEF ThreadsOnce
  <2>3. up = "up"
    BY <1>1 DEF IndInv, DownIsIdle
  <2>4. IsInjective(queue') /\ queue' \in Seq(Reqs)
    BY <1>1, <1>4 DEF PlacesAreOwned, TypeOK
  <2>5. r \notin ToSet(queue) /\ Task(r) \notin ToSet(rvps)
    BY <1>1, <2>2 DEF PlacesAreOwned
  <2>6. PlacesAreOwned' /\ ThreadsOnce'
    BY <1>2, <1>3, <1>4, <2>1, <2>2, <2>4, <2>5, PlacesMove
  <2>7. SetsPolicy(r)' /\ (Unanswered(r)' <=> Unanswered(r))
    BY <1>1, <2>1 DEF SetsPolicy, Unanswered
  <2>8. req'[r].pc \in Locked \ {"locked"} /\ req'[r].kind \in Readers
           => req'[r].policy \in {latest} \cup LooseContents
    BY <2>1 DEF IndInv, PoliciesWhole, Holders, Readers
  <2>9. UNCHANGED <<deployment, up, drops, crashes, file, writes, latest, loose>>
    BY <1>4 DEF faults
  <2> QED BY <1>1, <1>2, <2>1, <2>2, <2>3, <2>4, <2>6, <2>7, <2>8, <2>9, Moves
<1> QED BY <1>5, <1>6, <1>7

-----------------------------------------------------------------------------
(* Steps that change the policy file, or what was acknowledged *)

\* Who has the lock to write has it alone.
LEMMA Alone ==
  ASSUME IndInv, NEW r \in Reqs, req[r].pc \in Locked, req[r].kind = "set_policy",
         NEW s \in Reqs, req[s].pc \in Locked
  PROVE  s = r
<1>1. s \in Holders /\ r \in Holders /\ Writes(req[r].kind)
  BY DEF Holders, Writes
<1> QED BY <1>1 DEF IndInv, LockIsExclusive

\* The lock stays as it is, or is given back.
LEMMA LockKept ==
  ASSUME LockIsExclusive,
         \A h \in Reqs : req'[h].pc \in Locked =>
            req[h].pc \in Locked /\ req'[h].kind = req[h].kind
  PROVE  LockIsExclusive'
<1>1. \A h \in Holders' : h \in Holders /\ req'[h].kind = req[h].kind
  BY DEF Holders
<1> QED BY <1>1 DEF LockIsExclusive

\* A request that sets a policy goes on alone: what is left to show.
LEMMA SetterMoves ==
  ASSUME IndInv, NEW r \in Reqs, req[r].kind = "set_policy",
         req[r].pc \in Locked \ {"rvps", "blocked"},
         UNCHANGED <<faults, queue, rvps>>,
         req' \in [Reqs -> Request], \A s \in Reqs \ {r} : req'[s] = req[s],
         req'[r].kind = "set_policy", SetsPolicy(r)',
         req'[r].pc \in {"writing", "written", "done"},
         req[r].pc = "finish" => req'[r].pc = "done",
         file' \in File \ {None}, latest' \in File, writes' \subseteq Write,
         loose' \subseteq File \ {None}, WritesAreOwned',
         req'[r].pc = "writing" => file' \in LooseContents' \cup {Torn},
         req'[r].pc = "written" => file' \in LooseContents' \cup {req'[r].policy},
         req'[r].pc = "done" => file' \in LooseContents' \cup {latest'}
  PROVE  IndInv'
<1>1. TypeOK /\ PlacesAreOwned /\ ThreadsOnce /\ LockIsExclusive
  BY DEF IndInv
<1>2. up = "up" /\ UNCHANGED <<deployment, up, drops, crashes>>
  BY UnderWay DEF faults, Locked
<1>3. TypeOK'
  <2>1. ASSUME NEW s \in Reqs
        PROVE  /\ req'[s].pc \in {"writing", "written"} => req'[s].kind = "set_policy"
               /\ req'[s].pc \in {"ask", "blocked", "answered"} => req'[s].kind = "evaluate"
    BY <1>1 DEF TypeOK
  <2> QED BY <1>1, <1>2, <2>1 DEF TypeOK
<1>4. PlacesAreOwned' /\ ThreadsOnce'
  <2>1. /\ IsInjective(queue') /\ IsInjective(rvps') /\ r \notin ToSet(queue)
        /\ Task(r) \notin ToSet(rvps)
    BY <1>1 DEF PlacesAreOwned, Locked
  <2>2. Thread(r) \in ToSet(rvps) => req[r].pc \in {"finish", "done"}
    BY <1>1 DEF ThreadsOnce
  <2>3. Thread(r) \in ToSet(rvps) => req'[r].pc \in {"finish", "done"}
    BY <2>2 DEF Locked
  <2> QED BY <2>1, <2>3, PlacesMove
<1>5. DownIsIdle'
  BY <1>2 DEF DownIsIdle
<1>6. LockIsExclusive'
  BY <1>1, LockKept
<1>7. \A s \in Reqs : SetsPolicy(s)'
  BY DEF IndInv, SetsPolicy
<1>8. \A s \in Reqs \ {r} : req'[s].pc \notin Locked
  BY Alone
<1>9. \A s \in Reqs \ {r} : ~Unanswered(s)'
  BY <1>8 DEF Unanswered, Locked
<1>10. FileFits'
  <2>1. req'[r].pc \in {"writing", "written"} <=> Unanswered(r)'
    BY DEF Unanswered
  <2> QED BY <1>2, <1>9, <2>1 DEF FileFits
<1>11. PoliciesWhole'
  BY <1>8 DEF PoliciesWhole, Holders
<1> QED BY <1>3, <1>4, <1>5, <1>6, <1>7, <1>10, <1>11 DEF IndInv

\* While nothing is loose, a write has a handler that waits, and that is alone.
LEMMA WritesWait ==
  ASSUME IndInv, NEW r \in Reqs, req[r].pc \in Locked, req[r].kind = "set_policy",
         NEW w \in writes
  PROVE  w.policy \in loose \/ (w.of = r /\ req[r].pc = "writing")
<1>1. w \in Write /\ WritesAreOwned /\ w.of \in Reqs
  BY DEF IndInv, TypeOK, Write
<1>2. CASE req[w.of].pc = "writing"
  <2>1. req[w.of].pc \in Locked
    BY <1>2 DEF Locked
  <2> QED BY <1>1, <1>2, <2>1, Alone
<1>3. CASE req[w.of].pc # "writing"
  BY <1>1, <1>3 DEF WritesAreOwned
<1> QED BY <1>2, <1>3

\* A write begins: its handler is alone, and what else is being written is
\* loose.
LEMMA BeginsWrite ==
  ASSUME IndInv, NEW r \in Reqs, BeginWrite(r)
  PROVE  IndInv'
<1>1. /\ TypeOK /\ SetsPolicy(r) /\ req \in [Reqs -> Request] /\ writes \subseteq Write
      /\ latest \in File /\ "writing" \in Pcs /\ loose \subseteq File \ {None}
      /\ WritesAreOwned
  BY DEF IndInv, TypeOK, Pcs, Locked
<1>2. /\ req[r].kind = "set_policy" /\ req[r].pc = "locked"
      /\ file' = Torn /\ UNCHANGED <<faults, queue, rvps, latest>>
      /\ loose' = IF writes = {} THEN {} ELSE loose
  BY DEF BeginWrite
<1>3. /\ req' \in [Reqs -> Request] /\ \A s \in Reqs \ {r} : req'[s] = req[s]
      /\ req'[r].kind = req[r].kind /\ req'[r].pc = "writing"
      /\ req'[r].ok = req[r].ok /\ req'[r].policy = req[r].policy
  BY <1>1, SetsPc DEF BeginWrite
<1>4. PICK n : n = [of |-> r, policy |-> req[r].policy, alone |-> writes = {}]
  OBVIOUS
<1>5. /\ n \in Write /\ n.of = r /\ n.policy = req[r].policy
      /\ n.alone = (writes = {})
  BY <1>1, <1>2, <1>4 DEF SetsPolicy, Write
<1>6. writes' = {[w EXCEPT !.alone = FALSE] : w \in writes} \cup {n}
  BY <1>4 DEF BeginWrite
<1>7. ASSUME NEW w \in writes
      PROVE  /\ [w EXCEPT !.alone = FALSE] \in Write
             /\ [w EXCEPT !.alone = FALSE].of = w.of
             /\ [w EXCEPT !.alone = FALSE].policy = w.policy
  BY <1>1 DEF Write
<1>8. req[r].pc \in Locked /\ req[r].pc \notin {"rvps", "blocked", "finish"}
  BY <1>2 DEF Locked
<1>9. ASSUME NEW w \in writes
      PROVE  w.policy \in loose /\ w.of \in Reqs /\ w.of # r /\ req[w.of].pc = "done"
  <2>1. w.policy \in loose
    BY <1>2, <1>8, WritesWait
  <2>2. w.of \in Reqs /\ req[w.of].pc \in {"writing", "done"}
    BY <1>1 DEF WritesAreOwned, Write
  <2>3. CASE req[w.of].pc = "writing"
    <3>1. req[w.of].pc \in Locked
      BY <2>3 DEF Locked
    <3> QED BY <1>2, <1>8, <2>2, <2>3, <3>1, Alone
  <2> QED BY <1>2, <2>1, <2>2, <2>3
<1>10. WritesAreOwned'
  <2>1. ASSUME NEW v \in writes'
        PROVE  \/ v = n
               \/ \E w \in writes : /\ v = [w EXCEPT !.alone = FALSE] /\ v.of = w.of
                                    /\ v.policy = w.policy
    BY <1>6, <1>7
  <2>2. ASSUME NEW v \in writes'
        PROVE  /\ req'[v.of].pc \in {"writing", "done"}
               /\ \/ v.policy \in loose'
                  \/ req'[v.of].pc = "writing" /\ v.policy = req'[v.of].policy
               /\ v.alone \/ loose' # {}
    <3>1. CASE v = n
      <4>1. CASE writes = {}
        BY <1>3, <1>5, <3>1, <4>1
      <4>2. CASE writes # {}
        <5>1. loose # {} /\ loose' = loose
          BY <1>2, <1>9, <4>2
        <5> QED BY <1>3, <1>5, <3>1, <5>1
      <4> QED BY <4>1, <4>2
    <3>2. CASE v # n
      <4>1. PICK w \in writes : v.of = w.of /\ v.policy = w.policy
        BY <2>1, <3>2
      <4>2. loose' = loose /\ w.policy \in loose
        BY <1>2, <1>9
      <4>3. req'[w.of].pc = "done"
        BY <1>3, <1>9
      <4> QED BY <4>1, <4>2, <4>3
    <3> QED BY <3>1, <3>2
  <2>3. ASSUME NEW v \in writes', NEW u \in writes', u.of = v.of PROVE u = v
    <3>1. CASE v = n \/ u = n
      BY <1>5, <1>9, <2>1, <2>3, <3>1
    <3>2. CASE v # n /\ u # n
      <4>1. PICK w \in writes : v = [w EXCEPT !.alone = FALSE] /\ v.of = w.of
        BY <2>1, <3>2
      <4>2. PICK x \in writes : u = [x EXCEPT !.alone = FALSE] /\ u.of = x.of
        BY <2>1, <3>2
      <4>3. w = x
        BY <1>1, <2>3, <4>1, <4>2 DEF WritesAreOwned
      <4> QED BY <4>1, <4>2, <4>3
    <3> QED BY <3>1, <3>2
  <2> QED BY <2>2, <2>3 DEF WritesAreOwned
<1>11. writes' \subseteq Write
  BY <1>5, <1>6, <1>7
<1>12. /\ file' \in File \ {None} /\ latest' \in File /\ loose' \subseteq File \ {None}
       /\ file' \in LooseContents' \cup {Torn}
  BY <1>1, <1>2, ServiceAssumption DEF File
<1>13. SetsPolicy(r)'
  BY <1>1, <1>2, <1>3 DEF SetsPolicy
<1> HIDE <1>4
<1> QED BY <1>2, <1>3, <1>8, <1>10, <1>11, <1>12, <1>13, SetterMoves

\* What a write that ends leaves to the others.
LEMMA OthersWrite ==
  ASSUME IndInv, NEW w \in writes, writes' = writes \ {w}, UNCHANGED loose,
         \A s \in Reqs \ {w.of} : req'[s] = req[s]
  PROVE  WritesAreOwned'
<1>1. writes \subseteq Write /\ WritesAreOwned
  BY DEF IndInv, TypeOK
<1>2. ASSUME NEW v \in writes'
      PROVE  v \in writes /\ v.of \in Reqs \ {w.of} /\ req'[v.of] = req[v.of]
  BY <1>1 DEF WritesAreOwned, Write
<1> QED BY <1>1, <1>2 DEF WritesAreOwned

\* A write ends that a handler waits for.
LEMMA EndsWrite ==
  ASSUME IndInv, NEW w \in writes, EndWrite(w), req[w.of].pc = "writing"
  PROVE  IndInv'
<1>1. /\ TypeOK /\ req \in [Reqs -> Request] /\ writes \subseteq Write
      /\ latest \in File /\ loose \subseteq File \ {None} /\ "written" \in Pcs
      /\ w.of \in Reqs /\ w.policy \in Policies /\ w \in Write /\ WritesAreOwned
  BY DEF IndInv, TypeOK, Pcs, Locked, Write
<1>2. /\ writes' = writes \ {w} /\ UNCHANGED <<faults, queue, rvps, latest, loose>>
  BY DEF EndWrite
<1>3. req[w.of].kind = "set_policy" /\ req[w.of].pc \in Locked \ {"rvps", "blocked", "finish"}
  BY <1>1 DEF TypeOK, Locked
<1>4. PICK policy \in {w.policy, Torn}, ok \in BOOLEAN :
         /\ req' = [req EXCEPT ![w.of].pc = "written", ![w.of].ok = ok,
                               ![w.of].policy = policy]
         /\ ok \/ policy = Torn
         /\ \/ file' = policy
            \/ (~w.alone \/ writes' # {}) /\ file' = Torn
  BY DEF EndWrite, Tell
<1>5. policy \in File \ {None} /\ policy \in Policies \cup {Torn}
  BY <1>1, <1>4, ServiceAssumption DEF File
<1>6. /\ req' \in [Reqs -> Request] /\ \A s \in Reqs \ {w.of} : req'[s] = req[s]
      /\ req'[w.of].kind = req[w.of].kind /\ req'[w.of].pc = "written"
      /\ req'[w.of].ok = ok /\ req'[w.of].policy = policy
  <2>1. /\ req \in [Reqs -> Request] /\ w.of \in Reqs /\ "written" \in Pcs
        /\ policy \in File
    BY <1>1, <1>5
  <2>2. req' = [req EXCEPT ![w.of].pc = "written", ![w.of].ok = ok,
                           ![w.of].policy = policy]
    BY <1>4
  <2> HIDE <1>4
  <2> QED BY <2>1, <2>2 DEF Request, Set
<1>7. WritesAreOwned'
  BY <1>2, <1>6, OthersWrite
<1>8. ~w.alone \/ writes' # {} => loose # {}
  <2>1. ~w.alone => loose # {}
    BY <1>1 DEF WritesAreOwned
  <2>2. ASSUME NEW v \in writes' PROVE loose # {}
    <3>1. v \in writes /\ v.of # w.of
      BY <1>1, <1>2 DEF WritesAreOwned
    <3>2. v.policy \in loose
      BY <1>1, <1>3, <3>1, WritesWait
    <3> QED BY <3>2
  <2> QED BY <2>1, <2>2
<1>9. file' \in LooseContents' \cup {policy}
  BY <1>2, <1>4, <1>8 DEF LooseContents
<1>10. file' \in File \ {None} /\ writes' \subseteq Write
  BY <1>1, <1>2, <1>4, <1>5, ServiceAssumption DEF File
<1>11. SetsPolicy(w.of)'
  BY <1>3, <1>4, <1>5, <1>6 DEF SetsPolicy
<1> HIDE <1>4
<1> QED BY <1>1, <1>2, <1>3, <1>6, <1>7, <1>9, <1>10, <1>11, SetterMoves

\* A write ends whose handler was dropped: what it wrote is loose.
LEMMA EndsOrphan ==
  ASSUME IndInv, NEW w \in writes, EndWrite(w), req[w.of].pc # "writing"
  PROVE  IndInv'
<1>1. /\ TypeOK /\ writes \subseteq Write /\ w.policy \in Policies /\ w.policy \in loose
  BY DEF IndInv, TypeOK, Write, WritesAreOwned
<1>2. /\ writes' = writes \ {w} /\ UNCHANGED <<faults, queue, rvps, latest, loose, req>>
      /\ file' \in {w.policy, Torn}
  BY DEF EndWrite, Tell
<1>3. LooseContents' = LooseContents /\ file' \in LooseContents
  BY <1>1, <1>2 DEF LooseContents
<1>4. up = "up" /\ UNCHANGED <<deployment, up, drops, crashes>>
  BY <1>2 DEF IndInv, DownIsIdle, faults
<1>5. file' \in File \ {None} /\ writes' \subseteq Write
  BY <1>1, <1>2, ServiceAssumption DEF File
<1>6. TypeOK' /\ DownIsIdle'
  BY <1>1, <1>2, <1>4, <1>5 DEF TypeOK, DownIsIdle
<1>7. PlacesAreOwned' /\ ThreadsOnce' /\ LockIsExclusive' /\ \A s \in Reqs : SetsPolicy(s)'
  BY <1>2 DEF IndInv, PlacesAreOwned, ThreadsOnce, LockIsExclusive, Holders, SetsPolicy,
     Task, Thread
<1>8. WritesAreOwned'
  BY <1>2, OthersWrite
<1>9. FileFits'
  BY <1>3, <1>4 DEF FileFits
<1>10. PoliciesWhole'
  BY <1>2, <1>3 DEF IndInv, PoliciesWhole, Holders
<1> QED BY <1>6, <1>7, <1>8, <1>9, <1>10 DEF IndInv

\* A response is sent; that of a request that has touched the file says what
\* is in it.
LEMMA Finishes ==
  ASSUME IndInv, NEW r \in Reqs, Finish(r)
  PROVE  IndInv'
<1>1. /\ TypeOK /\ SetsPolicy(r) /\ PlacesAreOwned /\ req \in [Reqs -> Request]
      /\ "done" \in Pcs /\ FileFits /\ WritesAreOwned /\ writes \subseteq Write
      /\ loose \subseteq File \ {None} /\ latest \in File
  BY DEF IndInv, TypeOK, Pcs
<1>2. /\ req' \in [Reqs -> Request] /\ \A s \in Reqs \ {r} : req'[s] = req[s]
      /\ req'[r].kind = req[r].kind /\ req'[r].pc = "done"
      /\ req'[r].ok = req[r].ok /\ req'[r].policy = req[r].policy
  BY <1>1, SetsPc DEF Finish
<1>3. req[r].pc = "finish" /\ req[r].pc \in Locked
  BY DEF Finish, Locked
<1>4. /\ up = "up"
      /\ UNCHANGED <<deployment, up, drops, crashes, queue, rvps, file, writes, loose>>
  BY <1>3, UnderWay DEF Finish, faults
<1>5. SetsPolicy(r)'
  BY <1>1, <1>2 DEF SetsPolicy
<1>6. CASE Unanswered(r)
  <2>1. latest' = req[r].policy /\ req[r].kind = "set_policy" /\ req[r].policy \in Policies \cup {Torn}
    BY <1>1, <1>6 DEF Finish, SetsPolicy, Unanswered
  <2>2. file' \in LooseContents' \cup {latest'}
    BY <1>1, <1>3, <1>4, <1>6, <2>1 DEF FileFits, LooseContents
  <2>3. latest' \in File /\ file' \in File \ {None} /\ writes' \subseteq Write
        /\ loose' \subseteq File \ {None}
    BY <1>1, <1>4, <2>1, ServiceAssumption DEF File, TypeOK
  <2>4. WritesAreOwned'
    <3>1. \A w \in writes : w.of \in Reqs \ {r}
      BY <1>1, <1>3 DEF WritesAreOwned, Write
    <3> QED BY <1>1, <1>2, <1>4, <3>1 DEF WritesAreOwned
  <2>5. UNCHANGED <<faults, queue, rvps>>
    BY DEF Finish
  <2> QED BY <1>2, <1>3, <1>5, <2>1, <2>2, <2>3, <2>4, <2>5, SetterMoves
<1>7. CASE ~Unanswered(r)
  <2>1. latest' = latest
    BY <1>7 DEF Finish
  <2>2. /\ r \notin ToSet(queue) /\ Task(r) \notin ToSet(rvps)
        /\ IsInjective(queue') /\ IsInjective(rvps')
        /\ queue' \in Seq(Reqs) /\ rvps' \in Seq({"task", "thread"} \X Reqs)
    BY <1>1, <1>3, <1>4 DEF PlacesAreOwned, TypeOK
  <2>3. PlacesAreOwned' /\ ThreadsOnce'
    BY <1>2, <1>4, <2>2, PlacesMove
  <2>4. ~Unanswered(r)' /\ req'[r].pc \notin Locked
    BY <1>2 DEF Unanswered, Locked
  <2> QED BY <1>2, <1>3, <1>4, <1>5, <1>7, <2>1, <2>2, <2>3, <2>4, Moves
<1> QED BY <1>6, <1>7

-----------------------------------------------------------------------------
(* Faults and start-up *)

\* A handler is dropped: its places are given up, its write goes on.
LEMMA Drops ==
  ASSUME IndInv, NEW r \in Reqs, Drop(r)
  PROVE  IndInv'
<1>1. /\ TypeOK /\ PlacesAreOwned /\ ThreadsOnce /\ LockIsExclusive
      /\ req \in [Reqs -> Request] /\ "done" \in Pcs
  BY DEF IndInv, TypeOK, Pcs
<1>2. /\ req' \in [Reqs -> Request] /\ \A s \in Reqs \ {r} : req'[s] = req[s]
      /\ req'[r].kind = req[r].kind /\ req'[r].pc = "done"
      /\ req'[r].ok = FALSE /\ req'[r].policy = req[r].policy
  BY <1>1, SetsOk DEF Drop, End
<1>3. req[r].pc \notin {"idle", "blocked", "done"} /\ up = "up"
  BY UnderWay DEF Drop
<1>4. /\ UNCHANGED <<deployment, up, file, writes, latest, crashes>>
      /\ drops' \in 0..MaxDrops
      /\ loose' = IF Unanswered(r) THEN loose \cup {req[r].policy} ELSE loose
  BY <1>1, ServiceAssumption DEF Drop, TypeOK
<1>5. /\ queue' \in Seq(Reqs) /\ IsInjective(queue')
      /\ ToSet(queue') = ToSet(queue) \ {r}
  BY <1>1, GivesUp DEF Drop, TypeOK, PlacesAreOwned
<1>6. /\ rvps' \in Seq({"task", "thread"} \X Reqs) /\ IsInjective(rvps')
      /\ ToSet(rvps') = ToSet(rvps) \ {Task(r)}
  BY <1>1, GivesUp DEF Drop, TypeOK, PlacesAreOwned
<1>7. /\ Task(r) # Thread(r)
      /\ \A s \in Reqs \ {r} : Thread(s) # Task(r) /\ Task(s) # Task(r)
  BY PlacesDiffer
<1>8. PlacesAreOwned' /\ ThreadsOnce'
  BY <1>2, <1>5, <1>6, <1>7, PlacesMove
<1>9. TypeOK'
  <2>1. ASSUME NEW s \in Reqs
        PROVE  /\ req'[s].pc \in {"writing", "written"} => req'[s].kind = "set_policy"
               /\ req'[s].pc \in {"ask", "blocked", "answered"} => req'[s].kind = "evaluate"
    BY <1>1, <1>2 DEF TypeOK
  <2>2. loose' \subseteq File \ {None}
    <3>1. Unanswered(r) => req[r].policy \in Policies \cup {Torn}
      BY DEF IndInv, SetsPolicy, Unanswered
    <3> QED BY <1>1, <1>4, <3>1, ServiceAssumption DEF TypeOK, File
  <2> QED BY <1>1, <1>2, <1>3, <1>4, <1>5, <1>6, <2>1, <2>2 DEF TypeOK
<1>10. LockIsExclusive'
  <2>1. req'[r].pc \notin Locked
    BY <1>2 DEF Locked
  <2> QED BY <1>1, <1>2, <2>1, LockKept
<1>11. \A s \in Reqs : SetsPolicy(s)'
  BY <1>2 DEF IndInv, SetsPolicy
<1>12. DownIsIdle' /\ loose \subseteq loose' /\ LooseContents \subseteq LooseContents'
  BY <1>3, <1>4 DEF DownIsIdle, LooseContents
<1>13. WritesAreOwned'
  <2>1. WritesAreOwned /\ writes \subseteq Write
    BY DEF IndInv, TypeOK
  <2> SUFFICES ASSUME NEW w \in writes
               PROVE  /\ req'[w.of].pc \in {"writing", "done"}
                      /\ \/ w.policy \in loose'
                         \/ req'[w.of].pc = "writing" /\ w.policy = req'[w.of].policy
                      /\ w.alone \/ loose' # {}
                      /\ \A v \in writes : v.of = w.of => v = w
    BY <1>4 DEF WritesAreOwned
  <2>2. w.of \in Reqs
    BY <2>1 DEF Write
  <2>3. CASE w.of # r
    BY <1>2, <1>12, <2>1, <2>2, <2>3 DEF WritesAreOwned
  <2>4. CASE w.of = r
    <3>1. req[r].pc = "writing"
      BY <1>3, <2>1, <2>4 DEF WritesAreOwned
    <3>2. Unanswered(r)
      BY <1>1, <3>1 DEF Unanswered, TypeOK
    <3>3. w.policy \in loose'
      BY <1>4, <2>1, <2>4, <3>2 DEF WritesAreOwned
    <3> QED BY <1>2, <2>1, <2>4, <3>3 DEF WritesAreOwned
  <2> QED BY <2>3, <2>4
<1>14. FileFits'
  <2>1. FileFits /\ ~Unanswered(r)'
    BY <1>2 DEF IndInv, Unanswered
  <2>2. \A s \in Reqs \ {r} : Unanswered(s)' <=> Unanswered(s)
    BY <1>2 DEF Unanswered
  <2>3. ASSUME NEW s \in Reqs, Unanswered(s)'
        PROVE  file' \in LooseContents' \cup
                  (IF req'[s].pc = "writing" THEN {Torn} ELSE {req'[s].policy})
    BY <1>2, <1>4, <1>12, <2>1, <2>2, <2>3 DEF FileFits
  <2>4. ASSUME \A s \in Reqs : ~Unanswered(s)'
        PROVE  file' \in {latest'} \cup LooseContents'
    <3>1. CASE Unanswered(r)
      <4>1. {Torn, req[r].policy} \subseteq LooseContents'
        BY <1>4, <3>1 DEF LooseContents
      <4> QED BY <1>4, <1>12, <2>1, <3>1, <4>1 DEF FileFits
    <3>2. CASE ~Unanswered(r)
      BY <1>3, <1>4, <1>12, <2>1, <2>2, <2>4, <3>2 DEF FileFits
    <3> QED BY <3>1, <3>2
  <2> QED BY <1>3, <1>4, <2>3, <2>4 DEF FileFits
<1>15. PoliciesWhole'
  <2> SUFFICES ASSUME NEW s \in Holders', req'[s].kind \in Readers, req'[s].pc # "locked"
               PROVE  req'[s].policy \in {latest'} \cup LooseContents'
    BY DEF PoliciesWhole, Readers
  <2>1. s # r /\ s \in Holders /\ req'[s] = req[s]
    BY <1>2 DEF Holders, Locked
  <2>2. req[s].policy \in {latest} \cup LooseContents
    BY <2>1 DEF IndInv, PoliciesWhole, Readers
  <2> QED BY <1>4, <1>12, <2>1, <2>2
<1> QED BY <1>8, <1>9, <1>10, <1>11, <1>12, <1>13, <1>14, <1>15 DEF IndInv

\* Nothing goes on: only the file and the counters matter.
Resting ==
    /\ req \in [Reqs -> Request] /\ deployment \in Deployments
    /\ up \in {"down", "starting", "up"} /\ drops \in 0..MaxDrops
    /\ crashes \in 0..MaxCrashes /\ file \in File /\ latest \in File
    /\ loose \subseteq File \ {None}
    /\ queue = <<>> /\ rvps = <<>> /\ writes = {}
    /\ \A r \in Reqs : req[r].pc \in {"idle", "done"} /\ SetsPolicy(r)
    /\ file = None => up = "down"
    /\ up = "starting" => file = Torn /\ latest = None
    /\ up # "starting" => file \in {latest} \cup LooseContents

\* A service at rest, whether it is up or not.
LEMMA Idle ==
  ASSUME Resting
  PROVE  IndInv
<1>1. ToSet(queue) = {} /\ ToSet(rvps) = {} /\ IsInjective(queue) /\ IsInjective(rvps)
  BY DEF ToSet, IsInjective, Resting
<1>2. queue \in Seq(Reqs) /\ rvps \in Seq({"task", "thread"} \X Reqs)
  BY DEF Resting
<1>3. TypeOK
  BY <1>2 DEF TypeOK, Resting
<1>4. PlacesAreOwned /\ ThreadsOnce /\ DownIsIdle
  BY <1>1 DEF PlacesAreOwned, ThreadsOnce, DownIsIdle, Resting
<1>5. Holders = {}
  BY DEF Holders, Locked, Resting
<1>6. LockIsExclusive /\ PoliciesWhole
  BY <1>5 DEF LockIsExclusive, PoliciesWhole
<1>7. \A r \in Reqs : ~Unanswered(r)
  BY DEF Unanswered, Resting
<1>8. FileFits /\ WritesAreOwned
  BY <1>7 DEF FileFits, WritesAreOwned, Resting
<1>9. \A r \in Reqs : SetsPolicy(r)
  BY DEF Resting
<1> QED BY <1>3, <1>4, <1>6, <1>8, <1>9 DEF IndInv

\* The same of the next state.
LEMMA IdleNext ==
  ASSUME Resting'
  PROVE  IndInv'
BY Idle, PTL

\* The first start-up.
LEMMA InitInv == Init => IndInv
<1> SUFFICES ASSUME Init PROVE IndInv
  OBVIOUS
<1>1. Fresh \in Request /\ Fresh.pc = "idle" /\ ~Fresh.ok /\ Fresh.kind = None
      /\ Fresh.policy = None
  BY DEF Fresh, Request, Pcs, File
<1>2. req \in [Reqs -> Request] /\ \A r \in Reqs : req[r] = Fresh
  BY <1>1 DEF Init
<1>3. \A r \in Reqs : req[r].pc \in {"idle", "done"} /\ SetsPolicy(r)
  BY <1>1, <1>2, ServiceAssumption DEF SetsPolicy, Kinds
<1>4. /\ deployment \in Deployments /\ up = "down" /\ drops \in 0..MaxDrops
      /\ crashes \in 0..MaxCrashes /\ file = None /\ file \in File
      /\ latest \in File /\ latest = file /\ loose \subseteq File \ {None}
  BY ServiceAssumption DEF Init, File
<1>5. queue = <<>> /\ rvps = <<>> /\ writes = {}
  BY DEF Init
<1> QED BY <1>2, <1>3, <1>4, <1>5, Idle DEF Resting

\* The service crashes.
LEMMA Crashes ==
  ASSUME IndInv, Crash
  PROVE  IndInv'
<1>1. TypeOK /\ req \in [Reqs -> Request] /\ "done" \in Pcs
  BY DEF IndInv, TypeOK, Pcs
<1>2. Fresh \in Request /\ Fresh.pc = "idle" /\ ~Fresh.ok /\ Fresh.kind = None
      /\ Fresh.policy = None
  BY DEF Fresh, Request, Pcs, File
<1>3. ASSUME NEW r \in Reqs
      PROVE  /\ req'[r] \in Request /\ req'[r].pc \in {"idle", "done"}
             /\ SetsPolicy(r)'
  <2>1. CASE req[r].pc = "idle"
    <3>1. req'[r] = Fresh
      BY <2>1 DEF Crash
    <3> QED BY <1>2, <3>1, ServiceAssumption DEF SetsPolicy, Kinds
  <2>2. CASE req[r].pc # "idle"
    <3>1. req'[r] = [req[r] EXCEPT !.pc = "done"]
      BY <2>2 DEF Crash
    <3>2. req'[r] \in Request /\ req'[r].pc = "done" /\ req'[r].kind = req[r].kind
          /\ req'[r].policy = req[r].policy
      BY <1>1, <3>1 DEF Request
    <3> QED BY <3>2 DEF IndInv, SetsPolicy
  <2> QED BY <2>1, <2>2
<1>4. req' \in [Reqs -> Request]
  <2>1. PICK f : f = req'
    OBVIOUS
  <2>2. f = [r \in Reqs |-> f[r]] /\ \A r \in Reqs : f[r] \in Request
    BY <1>3, <2>1 DEF Crash
  <2> QED BY <2>1, <2>2
<1>5. /\ deployment' \in Deployments /\ up' = "down" /\ drops' \in 0..MaxDrops
      /\ crashes' \in 0..MaxCrashes /\ file' \in File
      /\ latest' \in File /\ queue' = <<>> /\ rvps' = <<>> /\ writes' = {}
      /\ UNCHANGED <<file, latest>> /\ up # "down"
  BY <1>1, ServiceAssumption DEF Crash, TypeOK
<1>6. loose' \subseteq File \ {None} /\ file' \in {latest'} \cup LooseContents'
  <2>1. PICK L : L = {req[r].policy : r \in {s \in Reqs : Unanswered(s)}}
    OBVIOUS
  <2>2. loose' = (loose \cup L) \cup (IF up = "starting" THEN {Default} ELSE {})
    BY <2>1 DEF Crash
  <2>3. L \subseteq Policies \cup {Torn} /\ \A r \in Reqs : Unanswered(r) => req[r].policy \in L
    BY <2>1 DEF IndInv, SetsPolicy, Unanswered
  <2>4. loose' \subseteq File \ {None} /\ loose \subseteq loose'
    BY <1>1, <2>2, <2>3, ServiceAssumption DEF TypeOK, File
  <2>5. LooseContents \subseteq LooseContents' /\ FileFits
    BY <2>4 DEF LooseContents, IndInv
  <2>6. CASE up = "starting"
    <3>1. file = Torn /\ Default \in loose'
      BY <2>2, <2>5, <2>6 DEF FileFits
    <3> QED BY <1>5, <2>4, <3>1 DEF LooseContents
  <2>7. CASE up # "starting" /\ \E r \in Reqs : Unanswered(r)
    <3>1. PICK r \in Reqs : Unanswered(r)
      BY <2>7
    <3>2. file \in LooseContents \cup {Torn, req[r].policy}
      BY <2>5, <3>1 DEF FileFits
    <3>3. {Torn, req[r].policy} \subseteq LooseContents'
      BY <2>2, <2>3, <3>1 DEF LooseContents
    <3> QED BY <1>5, <2>4, <2>5, <3>2, <3>3
  <2>8. CASE up # "starting" /\ ~\E r \in Reqs : Unanswered(r)
    BY <1>5, <2>4, <2>5, <2>8 DEF FileFits
  <2> QED BY <2>6, <2>7, <2>8
<1> QED BY <1>3, <1>4, <1>5, <1>6, IdleNext DEF Resting

\* The service starts, and writes the default policy unless there is one.
LEMMA Starts ==
  ASSUME IndInv, Start \/ Started \/ StartFails
  PROVE  IndInv'
<1>1. /\ TypeOK /\ req' = req /\ up # "up" /\ FileFits
      /\ UNCHANGED <<deployment, req, queue, rvps, writes, drops, crashes>>
  BY DEF IndInv, Start, Started, StartFails
<1>2. /\ queue' = <<>> /\ rvps' = <<>> /\ writes' = {}
      /\ \A r \in Reqs : req[r].pc \in {"idle", "done"} /\ SetsPolicy(r)
  BY <1>1 DEF IndInv, DownIsIdle
<1>3. \A r \in Reqs : req'[r].pc \in {"idle", "done"} /\ SetsPolicy(r)'
  BY <1>1, <1>2 DEF SetsPolicy
<1>4. /\ req' \in [Reqs -> Request] /\ deployment' \in Deployments
      /\ drops' \in 0..MaxDrops /\ crashes' \in 0..MaxCrashes
  BY <1>1 DEF TypeOK
<1>5. \A r \in Reqs : ~Unanswered(r)
  BY <1>2 DEF Unanswered
<1>6. loose \subseteq File \ {None} /\ None \notin LooseContents
  BY <1>1, ServiceAssumption DEF TypeOK, LooseContents
<1>7. CASE Start
  <2>1. up = "down" /\ file \in {latest} \cup LooseContents /\ UNCHANGED <<latest, loose>>
    BY <1>1, <1>5, <1>7 DEF Start, FileFits
  <2>2. CASE file = None
    <3>1. latest = None /\ up' = "starting" /\ file' = Torn
      BY <1>6, <1>7, <2>1, <2>2 DEF Start
    <3> QED BY <1>1, <1>2, <1>3, <1>4, <1>6, <2>1, <3>1, IdleNext, ServiceAssumption
            DEF Resting, TypeOK, File
  <2>3. CASE file # None
    <3>1. up' = "up" /\ file' = file /\ LooseContents' = LooseContents
      BY <1>7, <2>1, <2>3 DEF Start, LooseContents
    <3> QED BY <1>1, <1>2, <1>3, <1>4, <1>6, <2>1, <2>3, <3>1, IdleNext DEF Resting, TypeOK
  <2> QED BY <2>2, <2>3
<1>8. CASE Started
  <2>1. up' = "up" /\ file' = Default /\ latest' = Default /\ UNCHANGED loose
    BY <1>1, <1>8 DEF Started, FileFits
  <2>2. Default \in File \ {None}
    BY ServiceAssumption DEF File
  <2> QED BY <1>2, <1>3, <1>4, <1>6, <2>1, <2>2, IdleNext DEF Resting
<1>9. CASE StartFails
  <2>1. /\ up' = "down" /\ file' = Torn /\ UNCHANGED latest
        /\ loose' = loose \cup {Default}
    BY <1>1, <1>9 DEF StartFails, FileFits
  <2>2. Default \in File \ {None} /\ Torn \in File \ {None}
    BY ServiceAssumption DEF File
  <2>3. Torn \in LooseContents'
    BY <2>1 DEF LooseContents
  <2> QED BY <1>1, <1>2, <1>3, <1>4, <1>6, <2>1, <2>2, <2>3, IdleNext DEF Resting, TypeOK
<1> QED BY <1>7, <1>8, <1>9

-----------------------------------------------------------------------------
(* Theorems *)

\* Nothing happens.
LEMMA Stutters ==
  ASSUME IndInv, UNCHANGED vars
  PROVE  IndInv'
BY DEF vars, IndInv, TypeOK, PlacesAreOwned, ThreadsOnce, DownIsIdle, LockIsExclusive,
   SetsPolicy, WritesAreOwned, FileFits, Unanswered, LooseContents, PoliciesWhole,
   Holders, Task, Thread

\* Every step keeps the inductive invariant.
LEMMA NextInv ==
  ASSUME IndInv, [Next]_vars
  PROVE  IndInv'
<1>1. CASE Start \/ Started \/ StartFails
  BY <1>1, Starts
<1>2. CASE Crash
  BY <1>2, Crashes
<1>3. ASSUME NEW r \in Reqs, NEW kind \in deployment.kinds,
             NEW policy \in Policies \cup {None},
             kind = "set_policy" => policy \in Policies, Arrive(r, kind, policy)
      PROVE  IndInv'
  <2>1. kind \in Kinds
    BY ServiceAssumption DEF IndInv, TypeOK
  <2> QED BY <1>3, <2>1, Arrives
<1>4. ASSUME NEW r \in Reqs, Handle(r) PROVE IndInv'
  BY <1>4, PoolSteps, Grants, Finishes, LockedSteps, BeginsWrite, JoinsRvps, LeavesRvps
     DEF Handle
<1>5. ASSUME NEW r \in Reqs, Drop(r) PROVE IndInv'
  BY <1>5, Drops
<1>6. ASSUME NEW w \in writes, EndWrite(w) PROVE IndInv'
  BY <1>6, EndsWrite, EndsOrphan
<1>7. CASE UNCHANGED vars
  BY <1>7, Stutters
<1> QED BY <1>1, <1>2, <1>3, <1>4, <1>5, <1>6, <1>7 DEF Next

\* The inductive invariant holds in every state the service reaches.
THEOREM Invariance == Spec => []IndInv
BY InitInv, NextInv, PTL DEF Spec

\* Whoever is in a queue is alive, and nobody waits outside the queues.
THEOREM QueuesAreOwned == Spec => []QueuesWork
<1>1. IndInv => QueuesWork
  BY DEF IndInv, QueuesWork
<1> QED BY <1>1, Invariance, PTL

\* Policies are read as the last answer about them said, over writes that fail,
\* dropped handlers, crashes and restarts; anything else that is read is loose.
THEOREM PoliciesAreWhole == Spec => []PoliciesWhole
<1>1. IndInv => PoliciesWhole
  BY DEF IndInv
<1> QED BY <1>1, Invariance, PTL

=============================================================================
