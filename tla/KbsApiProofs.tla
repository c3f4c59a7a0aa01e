---------------------------- MODULE KbsApiProofs ----------------------------
(***************************************************************************)
(* Proofs about KbsApi for any requests, scenarios, resources, policies,   *)
(* tokens and plugin configuration.                                        *)
(***************************************************************************)
EXTENDS KbsApi, FiniteSetTheorems, TLAPS

-----------------------------------------------------------------------------
(* The inductive invariant *)

\* The requester has shown what its query needs: the admin's signature, or a
\* token that verifies.
Authenticated(q) ==
    IF NeedsAdmin(q) THEN q.admin
                     ELSE TokenOf(q) \in Tokens /\ Verified(TokenOf(q))

\* What is known of a request at a program point: it was authenticated before
\* the first await, the policy file it may be decided by is among those it has
\* seen, past the policy engine one of those let it pass, and nothing was
\* answered before the end.
ReqProgress(r) ==
    LET q == req[r].q
    IN  /\ req[r].pc # "idle" => q \in Queries
        /\ req[r].pc \in {"policy_lock", "policy_read", "eval_lock", "handle",
                          "read", "wait"} => Authenticated(q)
        /\ req[r].pc \in {"policy_lock", "policy_read"} => NeedsAdmin(q)
        /\ req[r].pc = "eval_lock" => ~NeedsAdmin(q) /\ file[Policy] \in req[r].seen
        /\ req[r].pc \in {"handle", "read"} /\ ~NeedsAdmin(q) =>
              \E f \in req[r].seen : Granting(f, q)
        /\ req[r].pc = "read" => q.plugin = "resource" /\ q.method = "GET"
                                                       /\ q.target \in Descs
        /\ req[r].pc # "done" => req[r].data = None

\* A handler waits for one thread, and a thread that writes the policy for a
\* handler has the mutex.
ThreadsOwned ==
    /\ \A w \in writes : w.by # None => req[w.by].pc = "wait"
    /\ \A v, w \in writes : v.by = w.by /\ v.by # None => v = w

\* A write that is alone has the file for itself, and what was acknowledged is
\* not being written.
WritesAlone ==
    /\ \A w \in writes : w.alone =>
          /\ \A v \in writes : v.target = w.target => v = w
          /\ w.truncated => file[w.target] = Empty
    /\ \A w \in writes : kept[w.target] = None

\* Where no handler is dropped, no file of policies mixes two.
PolicyUnmixed ==
    "drop" \notin Faults =>
        /\ file[Policy].state # "mixed"
        /\ \A w \in writes : w.by # None
        /\ \A w \in writes : w.target = Policy /\ w.truncated => file[Policy] = Empty

\* Where no write fails, the file holds no part of a policy.
PolicyComplete == "io" \notin Faults => file[Policy].state # "partial"

\* The gauge of active connections is the number of requests under way and of
\* those whose handler was dropped: they never leave it.
ActiveIsInFlight ==
    metric.active = Cardinality({r \in Reqs : InFlight(r)} \cup Dropped)

CountsAddUp == MetricsAddUp /\ ActiveIsInFlight

IndInv ==
    /\ TypeOK
    /\ \A r \in Reqs : ReqProgress(r)
    /\ SecretsGated
    /\ PolicyExclusive
    /\ ThreadsOwned
    /\ WritesAlone
    /\ AcknowledgedStored
    /\ PolicyUnmixed
    /\ PolicyComplete
    /\ CountsAddUp

-----------------------------------------------------------------------------
(* Counting requests *)

\* The requests at certain program points.
At(X) == {r \in Reqs : req[r].pc \in X}
Busy == Pc \ {"idle", "done"}
One(P) == IF P THEN 1 ELSE 0

\* When one request moves, the number of those at certain points changes with
\* it alone.
LEMMA CountingOne ==
  ASSUME NEW X, NEW r \in Reqs,
         \A s \in Reqs \ {r} : req'[s].pc = req[s].pc
  PROVE  /\ Cardinality(At(X)) \in Nat /\ Cardinality(At(X)') \in Nat
         /\ Cardinality(At(X)') = Cardinality(At(X)) + One(req'[r].pc \in X)
                                                     - One(req[r].pc \in X)
<1>1. IsFiniteSet(At(X)) /\ IsFiniteSet(At(X)')
  <2>1. At(X) \subseteq Reqs /\ At(X)' \subseteq Reqs
    BY DEF At
  <2> QED BY <2>1, ApiAssumption, FS_Subset
<1>2. Cardinality(At(X)) \in Nat /\ Cardinality(At(X)') \in Nat
  BY <1>1, FS_CardinalityType
<1>3. CASE (req'[r].pc \in X) <=> (req[r].pc \in X)
  <2>1. At(X)' = At(X)
    BY <1>3 DEF At
  <2> QED BY <1>2, <1>3, <2>1 DEF One
<1>4. CASE req'[r].pc \in X /\ req[r].pc \notin X
  <2>1. At(X)' = At(X) \cup {r} /\ r \notin At(X)
    BY <1>4 DEF At
  <2>2. Cardinality(At(X)') = Cardinality(At(X)) + 1
    BY <1>1, <2>1, FS_AddElement
  <2> QED BY <1>2, <1>4, <2>2 DEF One
<1>5. CASE req'[r].pc \notin X /\ req[r].pc \in X
  <2>1. At(X)' = At(X) \ {r} /\ r \in At(X)
    BY <1>5 DEF At
  <2>2. Cardinality(At(X)') = Cardinality(At(X)) - 1
    BY <1>1, <2>1, FS_RemoveElement
  <2> QED BY <1>2, <1>5, <2>2 DEF One
<1> QED BY <1>3, <1>4, <1>5

\* The metrics in terms of these numbers.
LEMMA MetricsCount ==
  ASSUME req \in [Reqs -> ReqState]
  PROVE  /\ ActiveIsInFlight <=> metric.active = Cardinality(At(Busy))
         /\ MetricsAddUp <=>
              metric.evals - metric.approvals - metric.violations
                - metric.errors - Cardinality(At({"eval_lock"}))
                   \in 0..Cardinality(At({"dropped"}))
<1>1. {r \in Reqs : InFlight(r)} \cup Dropped = At(Busy)
  BY DEF InFlight, Dropped, At, Busy, ReqState, Pc
<1>2. {r \in Reqs : req[r].pc = "eval_lock"} = At({"eval_lock"})
  BY DEF At
<1>3. Dropped = At({"dropped"})
  BY DEF Dropped, At
<1> QED BY <1>1, <1>2, <1>3 DEF ActiveIsInFlight, MetricsAddUp

\* The same in the next state.
LEMMA MetricsCountNext ==
  ASSUME req' \in [Reqs -> ReqState]
  PROVE  /\ ActiveIsInFlight' <=> metric'.active = Cardinality(At(Busy)')
         /\ MetricsAddUp' <=>
              metric'.evals - metric'.approvals - metric'.violations
                - metric'.errors - Cardinality(At({"eval_lock"})')
                   \in 0..Cardinality(At({"dropped"})')
<1>1. {r \in Reqs : InFlight(r)}' \cup Dropped' = At(Busy)'
  BY DEF InFlight, Dropped, At, Busy, ReqState, Pc
<1>2. {r \in Reqs : req'[r].pc = "eval_lock"} = At({"eval_lock"})'
  BY DEF At
<1>3. Dropped' = At({"dropped"})'
  BY DEF Dropped, At
<1> QED BY <1>1, <1>2, <1>3 DEF ActiveIsInFlight, MetricsAddUp

\* The metrics add up after a step that moves one request and counts what it
\* does: one that arrives or leaves, that begins or ends an evaluation.
LEMMA MetricsFollow ==
  ASSUME IndInv, req' \in [Reqs -> ReqState], NEW r \in Reqs,
         \A s \in Reqs \ {r} : req'[s].pc = req[s].pc,
         metric' \in [Counters -> Int],
         metric'.active = metric.active + One(req'[r].pc \in Busy)
                                        - One(req[r].pc \in Busy),
         metric'.requests >= metric.requests,
         metric'.evals >= metric.evals,
         metric'.approvals >= metric.approvals,
         metric'.violations >= metric.violations,
         metric'.errors >= metric.errors,
         req[r].pc # "dropped",
         (metric'.evals - metric'.approvals - metric'.violations - metric'.errors)
           - (metric.evals - metric.approvals - metric.violations - metric.errors)
           = One(req'[r].pc = "eval_lock") - One(req[r].pc = "eval_lock")
               + One(req'[r].pc = "dropped" /\ req[r].pc = "eval_lock")
  PROVE  metric' \in [Counters -> Nat] /\ CountsAddUp'
<1>1. /\ Cardinality(At(Busy)') \in Nat
      /\ Cardinality(At(Busy)') = Cardinality(At(Busy)) + One(req'[r].pc \in Busy)
                                                        - One(req[r].pc \in Busy)
  BY CountingOne
<1>2. /\ Cardinality(At({"eval_lock"})) \in Nat
      /\ Cardinality(At({"eval_lock"})') \in Nat
      /\ Cardinality(At({"eval_lock"})') =
            Cardinality(At({"eval_lock"})) + One(req'[r].pc = "eval_lock")
                                           - One(req[r].pc = "eval_lock")
  <2>1. \A x : x \in {"eval_lock"} <=> x = "eval_lock"
    OBVIOUS
  <2> QED BY <2>1, CountingOne DEF One
<1>3. /\ Cardinality(At({"dropped"})) \in Nat
      /\ Cardinality(At({"dropped"})') =
            Cardinality(At({"dropped"})) + One(req'[r].pc = "dropped")
  <2>1. \A x : x \in {"dropped"} <=> x = "dropped"
    OBVIOUS
  <2>2. /\ Cardinality(At({"dropped"})) \in Nat
        /\ Cardinality(At({"dropped"})') =
              Cardinality(At({"dropped"})) + One(req'[r].pc = "dropped")
                                           - One(req[r].pc = "dropped")
    BY <2>1, CountingOne DEF One
  <2> QED BY <2>2 DEF One
<1>4. /\ metric \in [Counters -> Nat] /\ req \in [Reqs -> ReqState]
      /\ ActiveIsInFlight /\ MetricsAddUp
  BY DEF IndInv, TypeOK, CountsAddUp
<1>5. metric'.active = Cardinality(At(Busy)')
  BY <1>1, <1>4, MetricsCount
<1>6. metric' \in [Counters -> Nat]
  <2>1. \A c \in Counters : metric'[c] \in Nat
    BY <1>1, <1>4, <1>5 DEF Counters
  <2> QED BY <2>1
<1>7. metric'.evals - metric'.approvals - metric'.violations - metric'.errors
        - Cardinality(At({"eval_lock"})') \in 0..Cardinality(At({"dropped"})')
  <2> DEFINE v == metric.evals - metric.approvals - metric.violations - metric.errors
             w == metric'.evals - metric'.approvals - metric'.violations - metric'.errors
             e == Cardinality(At({"eval_lock"}))
             f == Cardinality(At({"eval_lock"})')
             d == Cardinality(At({"dropped"}))
             g == Cardinality(At({"dropped"})')
  <2>1. v \in Int /\ w \in Int
    BY <1>4 DEF Counters
  <2>2. v - e \in 0..d
    BY <1>4, MetricsCount
  <2>3. /\ w - v = One(req'[r].pc = "eval_lock") - One(req[r].pc = "eval_lock")
               + One(req'[r].pc = "dropped" /\ req[r].pc = "eval_lock")
        /\ e \in Nat /\ f \in Nat /\ d \in Nat
        /\ f = e + One(req'[r].pc = "eval_lock") - One(req[r].pc = "eval_lock")
        /\ g = d + One(req'[r].pc = "dropped")
    BY <1>2, <1>3
  <2> HIDE DEF v, w, e, f, d, g
  <2>4. w - f \in 0..g
    BY <2>1, <2>2, <2>3 DEF One
  <2> QED BY <2>4 DEF w, f, g
<1> QED BY <1>5, <1>6, <1>7, MetricsCountNext DEF CountsAddUp

-----------------------------------------------------------------------------
(* Steps that write no file *)

\* What the program may be asked.
LEMMA QueriesShaped ==
  ASSUME NEW q \in Queries
  PROVE  /\ QueryShape(q)
         /\ TokenOf(q) \in Tokens \cup {None}
<1>1. QueryShape(q)
  BY ApiAssumption DEF Queries
<1> QED BY <1>1 DEF QueryShape, TokenOf

\* A request moves and no file is written: its own part of the invariant, the
\* mutex and the metrics are what is left to show.
LEMMA Moves ==
  ASSUME IndInv, UNCHANGED <<scenario, file, writes, kept>>, NEW r \in Reqs,
         req' \in [Reqs -> ReqState],
         \A s \in Reqs \ {r} : req'[s] = req[s],
         req[r].pc # "wait", req'[r].pc # "wait",
         ReqProgress(r)', Gated(r)',
         objects' \in [Descs -> SUBSET Secrets],
         \/ /\ UNCHANGED mutex
            /\ req[r].pc # "policy_read" /\ req'[r].pc # "policy_read"
         \/ /\ mutex = None /\ mutex' = r /\ req'[r].pc = "policy_read"
         \/ /\ mutex = r /\ mutex' = None /\ req'[r].pc # "policy_read",
         metric' \in [Counters -> Nat], CountsAddUp'
  PROVE  IndInv'
<1>1. mutex \in Reqs \cup {None} /\ None \notin Reqs /\ mutex' \in Reqs \cup {None}
  BY ApiAssumption DEF IndInv, TypeOK
<1>2. TypeOK'
  BY <1>1 DEF IndInv, TypeOK
<1>3. ASSUME NEW s \in Reqs PROVE ReqProgress(s)' /\ Gated(s)'
  <2>1. CASE s = r
    BY <2>1
  <2>2. CASE s # r
    BY <2>2 DEF IndInv, ReqProgress, SecretsGated, Gated, Granting, Faults
  <2> QED BY <2>1, <2>2
<1>4. \A w \in writes : w.by \in Reqs \cup {None} /\ w.by # r
  BY ApiAssumption DEF IndInv, TypeOK, Write, ThreadsOwned
<1>5. PolicyExclusive'
  <2>1. mutex' # None => req'[mutex'].pc \in {"policy_read", "wait"}
    BY <1>1 DEF IndInv, PolicyExclusive
  <2>2. \A s \in Reqs : req'[s].pc = "policy_read" => mutex' = s
    BY <1>1 DEF IndInv, PolicyExclusive
  <2>3. \A w \in writes' : w.target = Policy /\ w.by # None =>
          mutex' = w.by /\ req'[w.by].pc = "wait"
    BY <1>1, <1>4 DEF IndInv, PolicyExclusive
  <2> QED BY <2>1, <2>2, <2>3 DEF PolicyExclusive
<1>6. ThreadsOwned'
  BY <1>4 DEF IndInv, ThreadsOwned
<1>7. WritesAlone' /\ AcknowledgedStored' /\ PolicyUnmixed' /\ PolicyComplete'
  BY DEF IndInv, WritesAlone, AcknowledgedStored, PolicyUnmixed, PolicyComplete, Faults
<1> QED BY <1>2, <1>3, <1>5, <1>6, <1>7 DEF IndInv, SecretsGated

\* A request goes on to its next program point.
LEMMA GoesOn ==
  ASSUME IndInv, UNCHANGED <<scenario, file, objects, writes, kept, metric>>,
         NEW r \in Reqs, NEW p \in Pc, Goto(r, p),
         \/ /\ req[r].pc = "dispatch" /\ p = "policy_lock" /\ UNCHANGED mutex
            /\ Authenticated(req[r].q) /\ NeedsAdmin(req[r].q)
         \/ /\ req[r].pc = "dispatch" /\ p = "handle" /\ UNCHANGED mutex
            /\ Authenticated(req[r].q) /\ NeedsAdmin(req[r].q)
         \/ /\ req[r].pc = "policy_lock" /\ p = "policy_read"
            /\ mutex = None /\ mutex' = r
         \/ /\ req[r].pc = "handle" /\ p = "read" /\ UNCHANGED mutex
            /\ req[r].q.plugin = "resource" /\ req[r].q.method = "GET"
            /\ req[r].q.target \in Descs
  PROVE  IndInv'
<1>1. req \in [Reqs -> ReqState] /\ metric \in [Counters -> Nat]
  BY DEF IndInv, TypeOK
<1>2. /\ req' \in [Reqs -> ReqState] /\ req'[r].pc = p
      /\ req'[r].q = req[r].q /\ req'[r].data = req[r].data
      /\ req'[r].to = req[r].to /\ req'[r].seen = req[r].seen
      /\ \A s \in Reqs \ {r} : req'[s] = req[s]
  BY <1>1 DEF Goto, ReqState
<1>3. ReqProgress(r)' /\ Gated(r)'
  BY <1>2 DEF IndInv, ReqProgress, Gated, Authenticated, Granting, Faults
<1>4. metric' \in [Counters -> Nat] /\ CountsAddUp'
  <2>1. \A c \in Counters : metric[c] \in Nat
    BY <1>1
  <2>2. req[r].pc \in Busy /\ p \in Busy
    BY DEF Busy, Pc
  <2> QED BY <1>1, <1>2, <2>1, <2>2, MetricsFollow DEF One, Counters
<1> QED BY <1>2, <1>3, <1>4, Moves DEF IndInv, TypeOK

\* A request is answered: what the answer holds must be gated.
LEMMA Answers ==
  ASSUME IndInv, UNCHANGED <<scenario, file, writes, kept>>, NEW r \in Reqs,
         NEW data \in Contents \cup {Credential, Torn, None},
         NEW to \in {t.key : t \in Tokens} \cup {None},
         Answer(r, data, to),
         req[r].pc \in {"dispatch", "policy_lock", "policy_read", "handle", "read"},
         data # None =>
            IF NeedsAdmin(req[r].q) THEN req[r].q.admin
            ELSE /\ Verified(TokenOf(req[r].q))
                 /\ to # None /\ to = TokenOf(req[r].q).key
                 /\ \E f \in req[r].seen : Granting(f, req[r].q),
         objects' \in [Descs -> SUBSET Secrets],
         IF req[r].pc = "policy_read" THEN Release(r) ELSE UNCHANGED mutex
  PROVE  IndInv'
<1>1. req \in [Reqs -> ReqState] /\ metric \in [Counters -> Nat]
  BY DEF IndInv, TypeOK
<1>2. /\ req' \in [Reqs -> ReqState] /\ req'[r].pc = "done"
      /\ req'[r].q = req[r].q /\ req'[r].data = data
      /\ req'[r].to = to /\ req'[r].seen = req[r].seen
      /\ \A s \in Reqs \ {r} : req'[s] = req[s]
  BY <1>1, ZenonT(60) DEF Answer, ReqState, Pc
<1>3. ReqProgress(r)' /\ Gated(r)'
  BY <1>2 DEF IndInv, ReqProgress, Gated, Granting, Faults
<1>4. metric' \in [Counters -> Nat] /\ CountsAddUp'
  <2>1. /\ metric' \in [Counters -> Int]
        /\ metric'.active = metric.active - 1
        /\ \A c \in Counters \ {"active"} : metric'[c] = metric[c]
        /\ \A c \in Counters : metric[c] \in Nat
    BY <1>1 DEF Answer, Counters
  <2>2. req[r].pc \in Busy /\ "done" \notin Busy
    BY DEF Busy, Pc
  <2> QED BY <1>2, <2>1, <2>2, MetricsFollow DEF One, Counters
<1>5. req[r].pc = "policy_read" => mutex = r
  BY DEF IndInv, PolicyExclusive
<1> QED BY <1>2, <1>3, <1>4, <1>5, Moves DEF Release

\* Two counters are changed.
LEMMA TwoCounters ==
  ASSUME metric \in [Counters -> Nat], NEW a \in Counters, NEW b \in Counters,
         a # b, NEW i \in Int, NEW j \in Int,
         metric' = [metric EXCEPT ![a] = @ + i, ![b] = @ + j]
  PROVE  /\ metric' \in [Counters -> Int]
         /\ metric'[a] = metric[a] + i /\ metric'[b] = metric[b] + j
         /\ \A c \in Counters \ {a, b} : metric'[c] = metric[c]
         /\ \A c \in Counters : metric[c] \in Nat
<1>1. metric'[a] = metric[a] + i /\ metric'[b] = metric[b] + j
  OBVIOUS
<1>2. \A c \in Counters \ {a, b} : metric'[c] = metric[c]
  OBVIOUS
<1>3. \A c \in Counters : metric'[c] \in Int
  BY <1>1, <1>2
<1> QED BY <1>1, <1>2, <1>3

\* A request arrives.
LEMMA Arrives ==
  ASSUME IndInv, UNCHANGED scenario, NEW r \in Reqs, NEW q \in scenario.asks[r],
         Arrive(r, q)
  PROVE  IndInv'
<1>1. req \in [Reqs -> ReqState] /\ metric \in [Counters -> Nat] /\ q \in Queries
  BY DEF IndInv, TypeOK, Queries
<1>2. /\ req' \in [Reqs -> ReqState] /\ req'[r].pc = "dispatch"
      /\ req'[r].q = q /\ req'[r].data = None
      /\ \A s \in Reqs \ {r} : req'[s] = req[s]
      /\ req[r].pc = "idle"
  <2>1. Request("dispatch", q) \in ReqState
    BY <1>1 DEF Request, ReqState, Pc
  <2> QED BY <1>1, <2>1 DEF Arrive, Request
<1>3. ReqProgress(r)' /\ Gated(r)'
  BY <1>1, <1>2 DEF ReqProgress, Gated
<1>4. metric' \in [Counters -> Nat] /\ CountsAddUp'
  <2>1. /\ metric' \in [Counters -> Int]
        /\ metric'.active = metric.active + 1
        /\ metric'.requests = metric.requests + 1
        /\ \A c \in Counters \ {"active", "requests"} : metric'[c] = metric[c]
        /\ \A c \in Counters : metric[c] \in Nat
    <3>1. "active" \in Counters /\ "requests" \in Counters /\ "active" # "requests"
      BY DEF Counters
    <3>2. metric' = [metric EXCEPT !["active"] = @ + 1, !["requests"] = @ + 1]
      BY DEF Arrive
    <3> QED BY <1>1, <3>1, <3>2, TwoCounters
  <2>2. "idle" \notin Busy /\ "dispatch" \in Busy
    BY DEF Busy, Pc
  <2> QED BY <1>2, <2>1, <2>2, MetricsFollow DEF One, Counters
<1> QED BY <1>2, <1>3, <1>4, Moves DEF Arrive, IndInv, TypeOK

\* A request that needs no admin waits for the policy engine.
LEMMA Asks ==
  ASSUME IndInv, UNCHANGED <<scenario, file, objects, writes, mutex, kept>>,
         NEW r \in Reqs, req[r].pc = "dispatch",
         ~NeedsAdmin(req[r].q), Authenticated(req[r].q),
         req' = [req EXCEPT ![r].pc = "eval_lock", ![r].seen = {file[Policy]}],
         metric' = [metric EXCEPT !.evals = @ + 1]
  PROVE  IndInv'
<1>1. /\ req \in [Reqs -> ReqState] /\ metric \in [Counters -> Nat]
      /\ file[Policy] \in FileState
  BY DEF IndInv, TypeOK, Targets
<1>2. /\ req' \in [Reqs -> ReqState] /\ req'[r].pc = "eval_lock"
      /\ req'[r].q = req[r].q /\ req'[r].data = req[r].data
      /\ req'[r].to = req[r].to /\ req'[r].seen = {file[Policy]}
      /\ \A s \in Reqs \ {r} : req'[s] = req[s]
  <2>1. \A S \in SUBSET FileState : [req[r] EXCEPT !.pc = "eval_lock", !.seen = S] \in ReqState
    BY <1>1 DEF ReqState, Pc
  <2>2. [req[r] EXCEPT !.pc = "eval_lock", !.seen = {file[Policy]}] \in ReqState
    BY <1>1, <2>1
  <2>3. req' = [req EXCEPT ![r] = [req[r] EXCEPT !.pc = "eval_lock",
                                                 !.seen = {file[Policy]}]]
    BY <1>1
  <2>4. req[r] \in ReqState
    BY <1>1
  <2> QED BY <1>1, <2>2, <2>3, <2>4 DEF ReqState
<1>3. ReqProgress(r)' /\ Gated(r)'
  BY <1>2 DEF IndInv, ReqProgress, Gated, Authenticated
<1>4. metric' \in [Counters -> Nat] /\ CountsAddUp'
  <2>1. /\ metric' \in [Counters -> Int]
        /\ metric'.evals = metric.evals + 1
        /\ \A c \in Counters \ {"evals"} : metric'[c] = metric[c]
        /\ \A c \in Counters : metric[c] \in Nat
    BY <1>1 DEF Counters
  <2>2. "dispatch" \in Busy /\ "eval_lock" \in Busy
    BY DEF Busy, Pc
  <2> QED BY <1>2, <2>1, <2>2, MetricsFollow DEF One, Counters
<1> QED BY <1>2, <1>3, <1>4, Moves DEF IndInv, TypeOK

\* A request is approved by the policy file as it is.
LEMMA Approves ==
  ASSUME IndInv, UNCHANGED <<scenario, file, objects, writes, mutex, kept>>,
         NEW r \in Reqs, req[r].pc = "eval_lock", Approve(r)
  PROVE  IndInv'
<1>1. req \in [Reqs -> ReqState] /\ metric \in [Counters -> Nat]
  BY DEF IndInv, TypeOK
<1>2. /\ req' \in [Reqs -> ReqState] /\ req'[r].pc = "handle"
      /\ req'[r].q = req[r].q /\ req'[r].data = req[r].data
      /\ req'[r].to = req[r].to /\ req'[r].seen = req[r].seen
      /\ \A s \in Reqs \ {r} : req'[s] = req[s]
  BY <1>1 DEF Approve, Goto, ReqState, Pc
<1>3. file[Policy] \in req[r].seen /\ Granting(file[Policy], req[r].q)
  BY DEF IndInv, ReqProgress, Granting, Approve, PolicyUnmixed, PolicyComplete
<1>4. ReqProgress(r)' /\ Gated(r)'
  <2>1. ReqProgress(r)
    BY DEF IndInv
  <2> QED BY <1>2, <1>3, <2>1 DEF ReqProgress, Gated, Authenticated, Granting, Faults
<1>5. metric' \in [Counters -> Nat] /\ CountsAddUp'
  <2>1. /\ metric' \in [Counters -> Int]
        /\ metric'.approvals = metric.approvals + 1
        /\ \A c \in Counters \ {"approvals"} : metric'[c] = metric[c]
        /\ \A c \in Counters : metric[c] \in Nat
    BY <1>1 DEF Counters, Approve
  <2>2. "handle" \in Busy /\ "eval_lock" \in Busy
    BY DEF Busy, Pc
  <2> QED BY <1>2, <2>1, <2>2, MetricsFollow DEF One, Counters
<1> QED BY <1>2, <1>4, <1>5, Moves DEF IndInv, TypeOK

\* A request is denied: the policy forbids it or does not load.
LEMMA Denies ==
  ASSUME IndInv, UNCHANGED <<scenario, file, objects, writes, mutex, kept>>,
         NEW r \in Reqs, req[r].pc = "eval_lock",
         NEW c \in {"violations", "errors"}, Deny(r, c)
  PROVE  IndInv'
<1>1. req \in [Reqs -> ReqState] /\ metric \in [Counters -> Nat]
  BY DEF IndInv, TypeOK
<1>2. /\ req' \in [Reqs -> ReqState] /\ req'[r].pc = "done"
      /\ req'[r].q = req[r].q /\ req'[r].data = req[r].data
      /\ req'[r].to = req[r].to /\ req'[r].seen = req[r].seen
      /\ \A s \in Reqs \ {r} : req'[s] = req[s]
  BY <1>1 DEF Deny, ReqState, Pc
<1>3. ReqProgress(r)' /\ Gated(r)'
  <2>1. ReqProgress(r)
    BY DEF IndInv
  <2> QED BY <1>2, <2>1 DEF ReqProgress, Gated
<1>4. metric' \in [Counters -> Nat] /\ CountsAddUp'
  <2>1. /\ metric' \in [Counters -> Int]
        /\ metric'["active"] = metric["active"] + (-1) /\ metric'[c] = metric[c] + 1
        /\ \A d \in Counters \ {"active", c} : metric'[d] = metric[d]
        /\ \A d \in Counters : metric[d] \in Nat
    <3>1. "active" \in Counters /\ c \in Counters /\ "active" # c
      BY DEF Counters
    <3>2. metric' = [metric EXCEPT !["active"] = @ + (-1), ![c] = @ + 1]
      BY <1>1, <3>1 DEF Deny
    <3> QED BY <1>1, <3>1, <3>2, TwoCounters
  <2>2. "done" \notin Busy /\ "eval_lock" \in Busy
    BY DEF Busy, Pc
  <2> QED BY <1>2, <2>1, <2>2, MetricsFollow DEF One, Counters
<1> QED BY <1>2, <1>3, <1>4, Moves DEF IndInv, TypeOK

\* A request is answered with nothing.
LEMMA AnswersNothing ==
  ASSUME IndInv, UNCHANGED <<scenario, file, writes, mutex, kept>>, NEW r \in Reqs,
         objects' \in [Descs -> SUBSET Secrets], Answer(r, None, None),
         req[r].pc \in {"dispatch", "policy_lock", "handle", "read"}
  PROVE  IndInv'
BY Answers

\* A plugin answers: with the key of the token unless it is an admin who asks.
LEMMA AnswersData ==
  ASSUME IndInv, UNCHANGED <<scenario, file, objects, writes, mutex, kept>>,
         NEW r \in Reqs, NEW data \in Contents \cup {Credential, Torn, None},
         req[r].pc \in {"handle", "read"}, req[r].q.plugin \in AllPlugins,
         AnswerData(r, data)
  PROVE  IndInv'
<1>1. PICK q \in Queries : q = req[r].q
  BY DEF IndInv, ReqProgress
<1>2. Authenticated(q) /\ (~NeedsAdmin(q) => \E f \in req[r].seen : Granting(f, q))
  BY <1>1 DEF IndInv, ReqProgress
<1>3. objects' \in [Descs -> SUBSET Secrets]
  BY DEF IndInv, TypeOK
<1>4. ~NeedsAdmin(q) => Encrypted(q)
  BY <1>1, QueriesShaped DEF QueryShape, NeedsAdmin, Encrypted, ValidateAuth, AllPlugins
<1>5. CASE NeedsAdmin(q)
  <2>1. Answer(r, data, None)
    BY <1>1, <1>5 DEF AnswerData
  <2> QED BY <1>1, <1>2, <1>3, <1>5, <2>1, Answers DEF Authenticated
<1>6. CASE ~NeedsAdmin(q) /\ TokenOf(q).key = None
  <2>1. Answer(r, None, None)
    BY <1>1, <1>4, <1>6 DEF AnswerData
  <2> QED BY <1>3, <2>1, AnswersNothing
<1>7. CASE ~NeedsAdmin(q) /\ TokenOf(q).key # None
  <2>1. PICK k \in {t.key : t \in Tokens} : k = TokenOf(q).key
    BY <1>2, <1>7 DEF Authenticated
  <2>2. Answer(r, data, k)
    BY <1>1, <1>4, <1>7, <2>1 DEF AnswerData
  <2> QED BY <1>1, <1>2, <1>3, <1>7, <2>1, <2>2, Answers DEF Authenticated
<1> QED BY <1>5, <1>6, <1>7

\* The dispatcher.
LEMMA Dispatches ==
  ASSUME IndInv, UNCHANGED scenario, NEW r \in Reqs, Refuse(r) \/ Dispatch(r)
  PROVE  IndInv'
<1>1. objects \in [Descs -> SUBSET Secrets]
  BY DEF IndInv, TypeOK
<1>2. CASE Refuse(r)
  BY <1>1, <1>2, AnswersNothing DEF Refuse
<1>3. CASE Dispatch(r)
  <2>1. PICK q \in Queries : q = req[r].q
    BY <1>3 DEF Dispatch, IndInv, ReqProgress
  <2>2. Authenticated(q)
    <3>1. ~Refused(q)
      BY <1>3, <2>1 DEF Dispatch
    <3>2. CASE NeedsAdmin(q)
      BY <3>1, <3>2, <2>1, QueriesShaped DEF Refused, Authenticated, QueryShape
    <3>3. CASE ~NeedsAdmin(q)
      BY <3>1, <3>3, <2>1, QueriesShaped DEF Refused, Authenticated
    <3> QED BY <3>2, <3>3
  <2>3. /\ UNCHANGED <<file, objects, writes, mutex, kept>> /\ req[r].pc = "dispatch"
        /\ \/ NeedsAdmin(q) /\ Goto(r, "policy_lock") /\ UNCHANGED metric
           \/ NeedsAdmin(q) /\ Goto(r, "handle") /\ UNCHANGED metric
           \/ /\ ~NeedsAdmin(q)
              /\ req' = [req EXCEPT ![r].pc = "eval_lock",
                                    ![r].seen = {file[Policy]}]
              /\ metric' = [metric EXCEPT !.evals = @ + 1]
    BY <1>3, <2>1 DEF Dispatch, NeedsAdmin
  <2>4. CASE NeedsAdmin(q) /\ Goto(r, "policy_lock") /\ UNCHANGED metric
    BY <2>1, <2>2, <2>3, <2>4, GoesOn DEF Pc
  <2>5. CASE NeedsAdmin(q) /\ Goto(r, "handle") /\ UNCHANGED metric
    BY <2>1, <2>2, <2>3, <2>5, GoesOn DEF Pc
  <2>6. CASE /\ ~NeedsAdmin(q)
             /\ req' = [req EXCEPT ![r].pc = "eval_lock",
                                   ![r].seen = {file[Policy]}]
             /\ metric' = [metric EXCEPT !.evals = @ + 1]
    BY <2>1, <2>2, <2>3, <2>6, Asks
  <2> QED BY <2>3, <2>4, <2>5, <2>6
<1> QED BY <1>2, <1>3

\* Reading a file gives one of its contents, or what is left of them.
LEMMA ContentTyped ==
  ASSUME NEW f \in FileState
  PROVE  Content(f) \in Contents \cup {Credential, Torn, None}
BY DEF FileState, Content, Whole, Absent, Empty, Mixed, Partial

\* The policy engine, but for the writing of a policy.
LEMMA PolicyEngine ==
  ASSUME IndInv, UNCHANGED scenario, NEW r \in Reqs,
         SetPolicyRefused(r) \/ GetPolicyLock(r) \/ GetPolicy(r) \/ Evaluate(r)
  PROVE  IndInv'
<1>1. objects \in [Descs -> SUBSET Secrets] /\ file[Policy] \in FileState
  BY DEF IndInv, TypeOK, Targets
<1>2. CASE SetPolicyRefused(r)
  BY <1>1, <1>2, AnswersNothing DEF SetPolicyRefused
<1>3. CASE GetPolicyLock(r)
  BY <1>3, GoesOn DEF GetPolicyLock, Pc
<1>4. CASE GetPolicy(r)
  <2>1. Content(file[Policy]) \in Contents \cup {Credential, Torn, None}
    BY <1>1, ContentTyped
  <2>2. NeedsAdmin(req[r].q) /\ req[r].q.admin
    BY <1>4 DEF GetPolicy, IndInv, ReqProgress, Authenticated
  <2>3. /\ Answer(r, Content(file[Policy]), None) /\ Release(r)
        /\ UNCHANGED <<file, objects, writes, kept>> /\ req[r].pc = "policy_read"
    BY <1>4 DEF GetPolicy
  <2> QED BY <1>1, <2>1, <2>2, <2>3, Answers
<1>5. CASE Evaluate(r)
  <2>1. /\ req[r].pc = "eval_lock" /\ UNCHANGED <<file, objects, writes, mutex, kept>>
        /\ Approve(r) \/ Deny(r, "violations") \/ Deny(r, "errors")
    BY <1>5 DEF Evaluate, Violate, EvaluateFails
  <2>2. CASE Approve(r)
    BY <2>1, <2>2, Approves
  <2>3. CASE Deny(r, "violations") \/ Deny(r, "errors")
    BY <2>1, <2>3, Denies
  <2> QED BY <2>1, <2>2, <2>3
<1> QED BY <1>2, <1>3, <1>4, <1>5

\* The plugins, but for the writing of a resource.
LEMMA PluginSteps ==
  ASSUME IndInv, UNCHANGED scenario, NEW r \in Reqs,
         \/ HandleFails(r) \/ HandleStateless(r) \/ AskResource(r)
         \/ ReadResource(r) \/ WriteObject(r) \/ ReadObject(r)
  PROVE  IndInv'
<1>1. /\ objects \in [Descs -> SUBSET Secrets]
      /\ \A d \in Descs : file[d] \in FileState
      /\ {"resource", "sample", "nebula-ca", "pkcs11"} \subseteq AllPlugins
  BY DEF IndInv, TypeOK, Targets, AllPlugins
<1>2. PICK q \in Queries : q = req[r].q
  BY DEF IndInv, ReqProgress, HandleFails, HandleStateless, AskResource,
         ReadResource, WriteObject, ReadObject
<1>3. q.target # None => q.target \in Descs
  BY QueriesShaped DEF QueryShape
<1>4. CASE HandleFails(r)
  BY <1>1, <1>4, AnswersNothing DEF HandleFails
<1>5. CASE HandleStateless(r)
  <2>1. /\ req[r].pc = "handle" /\ AnswerData(r, Credential)
        /\ UNCHANGED <<file, objects, writes, mutex, kept>>
        /\ req[r].q.plugin \in AllPlugins
    BY <1>1, <1>5 DEF HandleStateless
  <2> QED BY <2>1, AnswersData
<1>6. CASE AskResource(r)
  BY <1>2, <1>3, <1>6, GoesOn DEF AskResource, Pc
<1>7. CASE ReadResource(r)
  <2>1. q.target \in Descs /\ q.plugin \in AllPlugins
    BY <1>1, <1>2, <1>7 DEF ReadResource, IndInv, ReqProgress
  <2>2. Content(file[q.target]) \in Contents \cup {Credential, Torn, None}
    BY <1>1, <2>1, ContentTyped
  <2>3. /\ req[r].pc = "read" /\ UNCHANGED <<file, objects, writes, mutex, kept>>
        /\ Answer(r, None, None) \/ AnswerData(r, Content(file[q.target]))
    BY <1>2, <1>7 DEF ReadResource
  <2> QED BY <1>1, <1>2, <2>1, <2>2, <2>3, AnswersNothing, AnswersData
<1>8. CASE WriteObject(r)
  <2>1. q.data \in Secrets
    BY <1>2, <1>8, QueriesShaped DEF QueryShape, WriteObject
  <2>2. /\ objects' = [objects EXCEPT ![q.target] = @ \cup {q.data}]
        /\ req[r].pc = "handle" /\ Answer(r, None, None)
        /\ UNCHANGED <<file, writes, mutex, kept>>
    BY <1>2, <1>8 DEF WriteObject
  <2>3. objects' \in [Descs -> SUBSET Secrets]
    BY <1>1, <2>1, <2>2
  <2> QED BY <2>2, <2>3, AnswersNothing
<1>9. CASE ReadObject(r)
  <2>1. /\ req[r].pc = "handle" /\ UNCHANGED <<file, objects, writes, mutex, kept>>
        /\ q.target \in Descs /\ req[r].q.plugin \in AllPlugins
        /\ \/ Answer(r, None, None)
           \/ \E o \in objects[q.target] : AnswerData(r, o)
    BY <1>1, <1>2, <1>3, <1>9 DEF ReadObject
  <2>2. objects[q.target] \subseteq Contents \cup {Credential, Torn, None}
    BY <1>1, <2>1 DEF Contents
  <2> QED BY <1>1, <2>1, <2>2, AnswersNothing, AnswersData
<1> QED BY <1>4, <1>5, <1>6, <1>7, <1>8, <1>9

-----------------------------------------------------------------------------
(* Steps that begin a write, and a handler that is dropped *)

\* A handler starts a thread, for the policy with the mutex in its hands.
LEMMA StartsWrite ==
  ASSUME IndInv, UNCHANGED <<scenario, file, objects, metric>>, NEW r \in Reqs,
         NEW target \in Targets, NEW data \in Contents,
         StartWrite(r, target, data),
         \/ /\ req[r].pc = "policy_lock" /\ target = Policy
            /\ mutex = None /\ mutex' = r
         \/ /\ req[r].pc = "handle" /\ target # Policy /\ UNCHANGED mutex
  PROVE  IndInv'
<1>1. /\ req \in [Reqs -> ReqState] /\ metric \in [Counters -> Nat]
      /\ writes \subseteq Write /\ kept \in [Targets -> Contents \cup {None}]
      /\ mutex \in Reqs \cup {None} /\ mutex' \in Reqs \cup {None}
  BY DEF IndInv, TypeOK
<1>2. /\ req' \in [Reqs -> ReqState] /\ req'[r].pc = "wait"
      /\ req'[r].q = req[r].q /\ req'[r].data = req[r].data
      /\ req'[r].to = req[r].to /\ req'[r].seen = req[r].seen
      /\ \A s \in Reqs \ {r} : req'[s] = req[s]
  BY <1>1 DEF StartWrite, Goto, ReqState, Pc
<1>3. PICK new \in Write :
        /\ writes' = { IF w.target = target THEN [w EXCEPT !.alone = FALSE] ELSE w :
                          w \in writes } \cup {new}
        /\ new.by = r /\ new.target = target /\ new.truncated = FALSE
        /\ new.alone => \A w \in writes : w.target # target
  <2>1. (\A w \in writes : w.target # target) \in BOOLEAN
    OBVIOUS
  <2>2. \A a \in BOOLEAN :
          [by |-> r, id |-> r, target |-> target, data |-> data,
           truncated |-> FALSE, alone |-> a] \in Write
    BY DEF Write
  <2> QED BY <2>1, <2>2 DEF StartWrite
<1>4. \A w \in writes : w.by # r
  BY ApiAssumption DEF IndInv, ThreadsOwned
<1>5. ASSUME NEW x \in writes', x # new
      PROVE  \E w \in writes :
               /\ w \in Write /\ x \in Write /\ x.by = w.by /\ x.target = w.target
               /\ x.truncated = w.truncated
               /\ x = IF w.target = target THEN [w EXCEPT !.alone = FALSE] ELSE w
               /\ x.alone => w.target # target
  <2>1. PICK w \in writes :
          x = IF w.target = target THEN [w EXCEPT !.alone = FALSE] ELSE w
    BY <1>3, <1>5
  <2>2. w \in Write
    BY <1>1
  <2>3. CASE w.target = target
    BY <2>1, <2>2, <2>3 DEF Write
  <2>4. CASE w.target # target
    BY <2>1, <2>2, <2>4 DEF Write
  <2> QED BY <2>3, <2>4
<1>6. kept' = [kept EXCEPT ![target] = None]
  BY DEF StartWrite
<1>7. TypeOK'
  <2>1. writes' \subseteq Write
    BY <1>3, <1>5
  <2>2. kept' \in [Targets -> Contents \cup {None}]
    BY <1>1, <1>6
  <2> QED BY <1>1, <1>2, <2>1, <2>2 DEF IndInv, TypeOK
<1>8. ASSUME NEW s \in Reqs PROVE ReqProgress(s)' /\ Gated(s)'
  <2>1. ReqProgress(s) /\ Gated(s)
    BY DEF IndInv, SecretsGated
  <2>2. CASE s = r
    BY <1>2, <2>1, <2>2 DEF ReqProgress, Gated, Authenticated
  <2>3. CASE s # r
    BY <1>2, <2>1, <2>3 DEF ReqProgress, Gated, Authenticated, Granting, Faults
  <2> QED BY <2>2, <2>3
<1>9. PolicyExclusive'
  <2>1. None \notin Reqs
    BY ApiAssumption
  <2>2. PolicyExclusive
    BY DEF IndInv
  <2>3. mutex' # None => req'[mutex'].pc \in {"policy_read", "wait"}
    BY <1>1, <1>2, <2>2 DEF PolicyExclusive
  <2>4. \A s \in Reqs : req'[s].pc = "policy_read" => mutex' = s
    BY <1>1, <1>2, <2>1, <2>2 DEF PolicyExclusive
  <2>5. ASSUME NEW x \in writes', x.target = Policy, x.by # None
        PROVE  mutex' = x.by /\ req'[x.by].pc = "wait"
    <3>1. CASE x = new
      BY <1>2, <1>3, <2>5, <3>1
    <3>2. CASE x # new
      <4>1. PICK w \in writes : x.by = w.by /\ x.target = w.target
        BY <1>5, <3>2
      <4>2. mutex = w.by /\ req[w.by].pc = "wait" /\ w.by # r /\ w.by \in Reqs
        BY <1>1, <1>4, <2>2, <2>5, <4>1 DEF PolicyExclusive
      <4> QED BY <1>2, <2>1, <2>5, <4>1, <4>2
    <3> QED BY <3>1, <3>2
  <2> QED BY <2>3, <2>4, <2>5 DEF PolicyExclusive
<1>10. ThreadsOwned'
  <2>1. ThreadsOwned
    BY DEF IndInv
  <2>2. ASSUME NEW x \in writes', x.by # None PROVE req'[x.by].pc = "wait"
    <3>1. CASE x = new
      BY <1>2, <1>3, <3>1
    <3>2. CASE x # new
      <4>1. PICK w \in writes : x.by = w.by
        BY <1>5, <3>2
      <4>2. w.by \in Reqs
        BY <1>1, <2>2, <4>1 DEF Write
      <4> QED BY <1>2, <1>4, <2>1, <2>2, <4>1, <4>2 DEF ThreadsOwned
    <3> QED BY <3>1, <3>2
  <2>3. ASSUME NEW x \in writes', NEW y \in writes', x.by = y.by, x.by # None
        PROVE  x = y
    <3>1. CASE x = new \/ y = new
      BY <1>3, <1>4, <1>5, <2>3, <3>1
    <3>2. CASE x # new /\ y # new
      <4>1. PICK v \in writes : v.by = x.by /\
              x = IF v.target = target THEN [v EXCEPT !.alone = FALSE] ELSE v
        BY <1>5, <3>2
      <4>2. PICK w \in writes : w.by = y.by /\
              y = IF w.target = target THEN [w EXCEPT !.alone = FALSE] ELSE w
        BY <1>5, <3>2
      <4>3. v = w
        BY <2>1, <2>3, <4>1, <4>2 DEF ThreadsOwned
      <4> QED BY <4>1, <4>2, <4>3
    <3> QED BY <3>1, <3>2
  <2> QED BY <2>2, <2>3 DEF ThreadsOwned
<1>11. WritesAlone'
  <2>1. WritesAlone
    BY DEF IndInv
  <2>2. ASSUME NEW x \in writes', x.alone, NEW y \in writes', y.target = x.target
        PROVE  y = x
    <3>1. CASE x = new
      BY <1>3, <1>5, <2>2, <3>1
    <3>2. CASE x # new
      <4>1. PICK w \in writes : /\ x.target = w.target /\ w.target # target
              /\ x = IF w.target = target THEN [w EXCEPT !.alone = FALSE] ELSE w
        BY <1>5, <2>2, <3>2
      <4>2. y # new
        BY <1>3, <2>2, <4>1
      <4>3. PICK v \in writes : /\ y.target = v.target
              /\ y = IF v.target = target THEN [v EXCEPT !.alone = FALSE] ELSE v
        BY <1>5, <4>2
      <4>4. x = w /\ y = v
        BY <2>2, <4>1, <4>3
      <4> QED BY <2>1, <2>2, <4>4 DEF WritesAlone
    <3> QED BY <3>1, <3>2
  <2>3. ASSUME NEW x \in writes', x.alone, x.truncated PROVE file'[x.target] = Empty
    <3>1. x # new
      BY <1>3, <2>3
    <3>2. PICK w \in writes : /\ x.target = w.target /\ w.target # target
            /\ x = IF w.target = target THEN [w EXCEPT !.alone = FALSE] ELSE w
      BY <1>5, <2>3, <3>1
    <3>3. x = w
      BY <3>2
    <3> QED BY <2>1, <2>3, <3>3 DEF WritesAlone
  <2>4. ASSUME NEW x \in writes' PROVE kept'[x.target] = None
    <3>1. CASE x.target = target
      BY <1>1, <1>6, <3>1
    <3>2. CASE x.target # target
      <4>1. PICK w \in writes : x.target = w.target
        BY <1>3, <1>5, <3>2
      <4>2. w.target \in Targets
        BY <1>1 DEF Write
      <4> QED BY <1>1, <1>6, <2>1, <3>2, <4>1, <4>2 DEF WritesAlone
    <3> QED BY <3>1, <3>2
  <2> QED BY <2>2, <2>3, <2>4 DEF WritesAlone
<1>12. AcknowledgedStored'
  BY <1>1, <1>6 DEF IndInv, AcknowledgedStored
<1>13. PolicyUnmixed' /\ PolicyComplete'
  <2>1. ASSUME NEW x \in writes', PolicyUnmixed, "drop" \notin Faults
        PROVE  x.by # None /\ (x.target = Policy /\ x.truncated => file[Policy] = Empty)
    <3>1. CASE x = new
      BY <1>3, <3>1, ApiAssumption
    <3>2. CASE x # new
      BY <1>5, <2>1, <3>2 DEF PolicyUnmixed
    <3> QED BY <3>1, <3>2
  <2>2. PolicyUnmixed'
    BY <2>1 DEF PolicyUnmixed, Faults, IndInv
  <2>3. PolicyComplete'
    BY DEF PolicyComplete, Faults, IndInv
  <2> QED BY <2>2, <2>3
<1>14. metric' \in [Counters -> Nat] /\ CountsAddUp'
  <2>1. \A c \in Counters : metric[c] \in Nat
    BY <1>1
  <2>2. req[r].pc \in Busy /\ "wait" \in Busy
    BY DEF Busy, Pc
  <2> QED BY <1>1, <1>2, <2>1, <2>2, MetricsFollow DEF One, Counters
<1> QED BY <1>7, <1>8, <1>9, <1>10, <1>11, <1>12, <1>13, <1>14 DEF IndInv, SecretsGated

\* The handlers that start a thread.
LEMMA Writers ==
  ASSUME IndInv, UNCHANGED scenario, NEW r \in Reqs,
         SetPolicy(r) \/ WriteResource(r)
  PROVE  IndInv'
<1>1. Policy \in Targets /\ Policies \subseteq Contents /\ Secrets \subseteq Contents
  BY DEF Targets, Contents
<1>2. CASE SetPolicy(r)
  <2>1. /\ req[r].pc = "policy_lock" /\ mutex = None /\ mutex' = r
        /\ req[r].q.data \in Contents /\ StartWrite(r, Policy, req[r].q.data)
        /\ UNCHANGED <<file, objects, metric>>
    BY <1>1, <1>2 DEF SetPolicy
  <2> QED BY <1>1, <2>1, StartsWrite
<1>3. CASE WriteResource(r)
  <2>1. PICK q \in Queries : q = req[r].q
    BY <1>3 DEF WriteResource, IndInv, ReqProgress
  <2>2. /\ req[r].pc = "handle" /\ q.target # None
        /\ q.plugin = "resource" /\ q.method = "POST"
        /\ StartWrite(r, q.target, q.data) /\ UNCHANGED <<file, objects, mutex, metric>>
    BY <1>3, <2>1 DEF WriteResource
  <2>3. q.target \in Targets /\ q.target # Policy /\ q.data \in Contents
    BY <1>1, <2>2, QueriesShaped, ApiAssumption DEF QueryShape, Targets
  <2> QED BY <2>2, <2>3, StartsWrite
<1> QED BY <1>2, <1>3

\* The client is gone: the mutex is free and the thread goes on alone.
LEMMA Drops ==
  ASSUME IndInv, UNCHANGED scenario, NEW r \in Reqs, Drop(r)
  PROVE  IndInv'
<1>1. /\ req \in [Reqs -> ReqState] /\ metric \in [Counters -> Nat]
      /\ writes \subseteq Write /\ mutex \in Reqs \cup {None}
      /\ UNCHANGED <<file, objects, kept, metric>>
  BY DEF IndInv, TypeOK, Drop
<1>2. /\ req' \in [Reqs -> ReqState] /\ req'[r].pc = "dropped"
      /\ req'[r].q = req[r].q /\ req'[r].data = req[r].data
      /\ req'[r].to = req[r].to /\ req'[r].seen = req[r].seen
      /\ \A s \in Reqs \ {r} : req'[s] = req[s]
  BY <1>1 DEF Drop, Goto, ReqState, Pc
<1>3. ASSUME NEW x \in writes'
      PROVE  \E w \in writes :
               /\ w \in Write /\ x \in Write /\ x.by # r /\ x.target = w.target
               /\ x.truncated = w.truncated /\ x.alone = w.alone
               /\ x = IF w.by = r THEN [w EXCEPT !.by = None] ELSE w
               /\ x.by # None => x = w
  <2>1. PICK w \in writes : x = IF w.by = r THEN [w EXCEPT !.by = None] ELSE w
    BY DEF Drop
  <2>2. w \in Write /\ None # r
    BY <1>1, ApiAssumption
  <2>3. CASE w.by = r
    BY <2>1, <2>2, <2>3 DEF Write
  <2>4. CASE w.by # r
    BY <2>1, <2>2, <2>4 DEF Write
  <2> QED BY <2>3, <2>4
<1>4. mutex' = (IF mutex = r THEN None ELSE mutex) /\ None # r
  BY ApiAssumption DEF Drop, Release
<1>5. TypeOK'
  BY <1>1, <1>2, <1>3, <1>4 DEF IndInv, TypeOK
<1>6. ASSUME NEW s \in Reqs PROVE ReqProgress(s)' /\ Gated(s)'
  <2>1. ReqProgress(s) /\ Gated(s)
    BY DEF IndInv, SecretsGated
  <2>2. CASE s = r
    <3>1. req[r].data = None /\ req[r].q \in Queries
      BY <2>1, <2>2 DEF ReqProgress, Drop, InFlight
    <3> QED BY <1>2, <2>2, <3>1 DEF ReqProgress, Gated
  <2>3. CASE s # r
    BY <1>1, <1>2, <2>1, <2>3 DEF ReqProgress, Gated, Authenticated, Granting, Faults
  <2> QED BY <2>2, <2>3
<1>7. PolicyExclusive'
  <2>1. PolicyExclusive
    BY DEF IndInv
  <2>2. mutex' # None => req'[mutex'].pc \in {"policy_read", "wait"}
    BY <1>1, <1>2, <1>4, <2>1 DEF PolicyExclusive
  <2>3. \A s \in Reqs : req'[s].pc = "policy_read" => mutex' = s
    BY <1>1, <1>2, <1>4, <2>1 DEF PolicyExclusive
  <2>4. ASSUME NEW x \in writes', x.target = Policy, x.by # None
        PROVE  mutex' = x.by /\ req'[x.by].pc = "wait"
    <3>1. x \in writes /\ x.by \in Reqs /\ x.by # r
      BY <1>3, <2>4 DEF Write
    <3> QED BY <1>2, <1>4, <2>1, <2>4, <3>1 DEF PolicyExclusive
  <2> QED BY <2>2, <2>3, <2>4 DEF PolicyExclusive
<1>8. ThreadsOwned'
  <2>1. ThreadsOwned
    BY DEF IndInv
  <2>2. ASSUME NEW x \in writes', x.by # None
        PROVE  x \in writes /\ x.by \in Reqs /\ x.by # r
    BY <1>3, <2>2 DEF Write
  <2> QED BY <1>2, <2>1, <2>2 DEF ThreadsOwned
<1>9. WritesAlone'
  <2>1. WritesAlone
    BY DEF IndInv
  <2>2. ASSUME NEW x \in writes', x.alone, NEW y \in writes', y.target = x.target
        PROVE  y = x
    <3>1. PICK v \in writes : x.target = v.target /\ x.alone = v.alone
            /\ x = IF v.by = r THEN [v EXCEPT !.by = None] ELSE v
      BY <1>3
    <3>2. PICK w \in writes : y.target = w.target
            /\ y = IF w.by = r THEN [w EXCEPT !.by = None] ELSE w
      BY <1>3
    <3>3. v = w
      BY <2>1, <2>2, <3>1, <3>2 DEF WritesAlone
    <3> QED BY <3>1, <3>2, <3>3
  <2>3. \A x \in writes' : /\ x.alone /\ x.truncated => file'[x.target] = Empty
                           /\ kept'[x.target] = None
    BY <1>1, <1>3, <2>1 DEF WritesAlone
  <2> QED BY <2>2, <2>3 DEF WritesAlone
<1>10. AcknowledgedStored' /\ PolicyUnmixed' /\ PolicyComplete'
  BY <1>1 DEF IndInv, AcknowledgedStored, PolicyUnmixed, PolicyComplete, Faults, Drop
<1>11. metric' \in [Counters -> Nat] /\ CountsAddUp'
  <2>1. \A c \in Counters : metric[c] \in Nat
    BY <1>1
  <2>2. req[r].pc \in Busy /\ "dropped" \in Busy /\ req[r].pc # "dropped"
    BY <1>1 DEF Busy, Pc, Drop, InFlight, ReqState
  <2> QED BY <1>1, <1>2, <2>1, <2>2, MetricsFollow DEF One, Counters
<1> QED BY <1>5, <1>6, <1>7, <1>8, <1>9, <1>10, <1>11 DEF IndInv, SecretsGated

-----------------------------------------------------------------------------
(* The threads *)

\* What a step of a thread does to the requests.
Told(by, target, content) ==
    req' = [r \in Reqs |->
               IF r = by THEN [req[r] EXCEPT !.pc = "done"]
                         ELSE Seeing(req[r], target, content)]

\* The handler that waits answers, and who asks for a policy sees the content.
LEMMA Tells ==
  ASSUME req \in [Reqs -> ReqState], NEW content \in FileState, NEW by,
         NEW target, Told(by, target, content)
  PROVE  /\ req' \in [Reqs -> ReqState]
         /\ \A s \in Reqs :
               /\ req'[s].q = req[s].q /\ req'[s].data = req[s].data
               /\ req'[s].to = req[s].to /\ req[s].seen \subseteq req'[s].seen
               /\ req'[s].pc = IF s = by THEN "done" ELSE req[s].pc
               /\ s # by /\ target = Policy /\ req[s].pc = "eval_lock" =>
                     content \in req'[s].seen
<1>1. ASSUME NEW s \in Reqs
      PROVE  /\ req'[s] \in ReqState
             /\ req'[s].q = req[s].q /\ req'[s].data = req[s].data
             /\ req'[s].to = req[s].to /\ req[s].seen \subseteq req'[s].seen
             /\ req'[s].pc = IF s = by THEN "done" ELSE req[s].pc
             /\ s # by /\ target = Policy /\ req[s].pc = "eval_lock" =>
                   content \in req'[s].seen
  <2>1. req[s] \in ReqState
    OBVIOUS
  <2>2. CASE s = by
    <3>1. req'[s] = [req[s] EXCEPT !.pc = "done"]
      BY <2>2 DEF Told
    <3> QED BY <2>1, <2>2, <3>1 DEF ReqState, Pc
  <2>3. CASE s # by /\ target = Policy /\ req[s].pc = "eval_lock"
    <3>1. req'[s] = [req[s] EXCEPT !.seen = req[s].seen \cup {content}]
      BY <2>1, <2>3 DEF Told, Seeing, ReqState
    <3>2. \A S \in SUBSET FileState : [req[s] EXCEPT !.seen = S] \in ReqState
      BY <2>1 DEF ReqState
    <3>3. req[s].seen \cup {content} \in SUBSET FileState
      BY <2>1 DEF ReqState
    <3>4. req'[s] \in ReqState
      BY <3>1, <3>2, <3>3
    <3> QED BY <2>1, <2>3, <3>1, <3>4 DEF ReqState
  <2>4. CASE s # by /\ ~(target = Policy /\ req[s].pc = "eval_lock")
    BY <2>1, <2>4 DEF Told, Seeing
  <2> QED BY <2>2, <2>3, <2>4
<1>2. DOMAIN req' = Reqs /\ req' = [s \in Reqs |-> req'[s]]
  BY DEF Told
<1> QED BY <1>1, <1>2

\* The metrics after a step that moves no request.
LEMMA MetricsStay ==
  ASSUME IndInv, UNCHANGED metric, req' \in [Reqs -> ReqState],
         \A s \in Reqs : req'[s].pc = req[s].pc
  PROVE  CountsAddUp'
<1>1. /\ {r \in Reqs : InFlight(r)}' = {r \in Reqs : InFlight(r)}
      /\ Dropped' = Dropped
      /\ {r \in Reqs : req'[r].pc = "eval_lock"} = {r \in Reqs : req[r].pc = "eval_lock"}
  BY DEF InFlight, Dropped
<1> QED BY <1>1 DEF IndInv, CountsAddUp, MetricsAddUp, ActiveIsInFlight

\* A thread changes its file.  Either it truncates it, or it ends: then the
\* handler that waits for it answers, and what is acknowledged is kept.
LEMMA ThreadMoves ==
  ASSUME IndInv, UNCHANGED <<scenario, objects>>, NEW w \in writes,
         NEW content \in FileState, NEW by, NEW W,
         file' = [file EXCEPT ![w.target] = content],
         Told(by, w.target, content),
         metric' = IF by = None THEN metric ELSE [metric EXCEPT !.active = @ - 1],
         mutex' = IF mutex = by THEN None ELSE mutex,
         writes' = (writes \ {w}) \cup W,
         \/ /\ W = {} /\ by = w.by
            /\ \/ UNCHANGED kept
               \/ /\ by # None /\ w.alone /\ content = Whole(w.data)
                  /\ kept' = [kept EXCEPT ![w.target] = w.data]
         \/ /\ W = {[w EXCEPT !.truncated = TRUE]} /\ by = None /\ content = Empty
            /\ UNCHANGED kept,
         content.state = "mixed" =>
            \/ w.truncated /\ file[w.target] # Empty
            \/ content = file[w.target],
         content.state = "partial" => "io" \in Faults \/ content = file[w.target]
  PROVE  IndInv'
<1>1. /\ req \in [Reqs -> ReqState] /\ metric \in [Counters -> Nat]
      /\ writes \subseteq Write /\ mutex \in Reqs \cup {None}
      /\ file \in [Targets -> FileState] /\ kept \in [Targets -> Contents \cup {None}]
      /\ objects \in [Descs -> SUBSET Secrets] /\ scenario \in Scenarios
      /\ None \notin Reqs
  BY ApiAssumption DEF IndInv, TypeOK
<1>2. /\ w \in Write /\ w.by \in Reqs \cup {None} /\ w.target \in Targets
      /\ w.data \in Contents
  BY <1>1 DEF Write
<1>3. /\ req' \in [Reqs -> ReqState]
      /\ \A s \in Reqs :
            /\ req'[s].q = req[s].q /\ req'[s].data = req[s].data
            /\ req'[s].to = req[s].to /\ req[s].seen \subseteq req'[s].seen
            /\ req'[s].pc = IF s = by THEN "done" ELSE req[s].pc
            /\ s # by /\ w.target = Policy /\ req[s].pc = "eval_lock" =>
                  content \in req'[s].seen
  BY <1>1, Tells
<1>4. by \in Reqs \cup {None} /\ (by # None => by = w.by /\ req[by].pc = "wait")
  BY <1>2 DEF IndInv, ThreadsOwned
<1>5. \A x \in writes : x.by \in Reqs \cup {None} /\ x.target \in Targets
  BY <1>1 DEF Write
<1>6. ASSUME NEW x \in writes, x # w, x.by # None PROVE x.by # by
  BY <1>4, <1>6 DEF IndInv, ThreadsOwned
<1>7. ASSUME NEW x \in writes', x \notin writes
      PROVE  /\ x \in Write /\ x.by = w.by /\ x.target = w.target
             /\ x.alone = w.alone /\ x.truncated = TRUE
             /\ W = {x} /\ by = None /\ content = Empty /\ UNCHANGED kept
  <2>1. x = [w EXCEPT !.truncated = TRUE] /\ W = {[w EXCEPT !.truncated = TRUE]}
    BY <1>7
  <2> QED BY <1>2, <1>7, <2>1 DEF Write
<1>8. TypeOK'
  <2>1. metric' \in [Counters -> Nat]
    <3>1. CASE by = None
      BY <1>1, <3>1
    <3>2. CASE by # None
      <4>1. metric' = [metric EXCEPT !.active = @ - 1]
        BY <3>2
      <4>2. /\ metric' \in [Counters -> Int]
            /\ metric'.active = metric.active - 1
            /\ \A c \in Counters \ {"active"} : metric'[c] = metric[c]
            /\ \A c \in Counters : metric[c] \in Nat
        BY <1>1, <4>1 DEF Counters
      <4>3. "wait" \in Busy /\ "done" \notin Busy
        BY DEF Busy, Pc
      <4> QED BY <1>3, <1>4, <3>2, <4>2, <4>3, MetricsFollow DEF One, Counters
    <3> QED BY <3>1, <3>2
  <2>2. writes' \subseteq Write
    BY <1>1, <1>7
  <2>3. mutex' \in Reqs \cup {None} /\ file' \in [Targets -> FileState]
    BY <1>1, <1>2
  <2>4. kept' \in [Targets -> Contents \cup {None}]
    <3>1. CASE UNCHANGED kept
      BY <1>1, <3>1
    <3>2. CASE kept' = [kept EXCEPT ![w.target] = w.data]
      BY <1>1, <1>2, <3>2
    <3> QED BY <3>1, <3>2
  <2> QED BY <1>1, <1>3, <2>1, <2>2, <2>3, <2>4 DEF TypeOK
<1>9. ASSUME NEW s \in Reqs PROVE ReqProgress(s)' /\ Gated(s)'
  <2>1. ReqProgress(s) /\ Gated(s)
    BY DEF IndInv, SecretsGated
  <2>2. CASE s = by
    <3>1. req[s].data = None /\ req[s].q \in Queries
      BY <1>4, <2>1, <2>2, <1>1 DEF ReqProgress
    <3> QED BY <1>3, <2>2, <3>1 DEF ReqProgress, Gated
  <2>3. CASE s # by
    <3>1. req[s].pc = "eval_lock" => file'[Policy] \in req'[s].seen
      <4>1. CASE w.target = Policy
        BY <1>1, <1>2, <1>3, <2>3, <4>1
      <4>2. CASE w.target # Policy
        BY <1>1, <1>2, <1>3, <2>1, <4>2 DEF ReqProgress
      <4> QED BY <4>1, <4>2
    <3>2. Gated(s)'
      BY <1>3, <2>1 DEF Gated, Granting, Faults
    <3> QED BY <1>3, <2>1, <2>3, <3>1, <3>2
            DEF ReqProgress, Authenticated, Granting, Faults
  <2> QED BY <2>2, <2>3
<1>10. PolicyExclusive'
  <2>1. PolicyExclusive
    BY DEF IndInv
  <2>2. mutex' # None => req'[mutex'].pc \in {"policy_read", "wait"}
    BY <1>1, <1>3, <2>1 DEF PolicyExclusive
  <2>3. \A s \in Reqs : req'[s].pc = "policy_read" => mutex' = s
    BY <1>1, <1>3, <2>1 DEF PolicyExclusive
  <2>4. ASSUME NEW x \in writes', x.target = Policy, x.by # None
        PROVE  mutex' = x.by /\ req'[x.by].pc = "wait"
    <3>1. CASE x \in writes /\ x # w
      BY <1>3, <1>5, <1>6, <2>1, <2>4, <3>1 DEF PolicyExclusive
    <3>2. CASE x \notin writes
      <4>1. w.by = x.by /\ w.target = Policy /\ by = None
        BY <1>7, <2>4, <3>2
      <4>2. mutex = w.by /\ req[w.by].pc = "wait" /\ w.by \in Reqs
        BY <1>2, <2>1, <2>4, <4>1 DEF PolicyExclusive
      <4> QED BY <1>3, <2>4, <4>1, <4>2
    <3>3. CASE x = w
      <4>1. w \in W /\ by = None
        BY <3>3
      <4> QED BY <1>2, <1>3, <2>1, <2>4, <3>3, <4>1 DEF PolicyExclusive
    <3> QED BY <3>1, <3>2, <3>3
  <2> QED BY <2>2, <2>3, <2>4 DEF PolicyExclusive
<1>11. ThreadsOwned'
  <2>1. ThreadsOwned
    BY DEF IndInv
  <2>2. ASSUME NEW x \in writes'
        PROVE  \/ x \in writes /\ x # w
               \/ x.by = w.by /\ W = {x} /\ by = None
    BY <1>7
  <2>3. ASSUME NEW x \in writes', x.by # None PROVE req'[x.by].pc = "wait"
    <3>1. CASE x \in writes /\ x # w
      BY <1>3, <1>5, <1>6, <2>1, <2>3, <3>1 DEF ThreadsOwned
    <3>2. CASE x.by = w.by /\ by = None
      BY <1>2, <1>3, <2>1, <2>3, <3>2 DEF ThreadsOwned
    <3> QED BY <2>2, <3>1, <3>2
  <2>4. ASSUME NEW x \in writes', NEW y \in writes', x.by = y.by, x.by # None
        PROVE  x = y
    BY <2>1, <2>2, <2>4 DEF ThreadsOwned
  <2> QED BY <2>3, <2>4 DEF ThreadsOwned
<1>12. WritesAlone' /\ AcknowledgedStored'
  <2>1. WritesAlone /\ AcknowledgedStored
    BY DEF IndInv
  <2>2. ASSUME NEW x \in writes'
        PROVE  \/ x \in writes /\ x # w
               \/ /\ x.target = w.target /\ x.alone = w.alone /\ W = {x}
                  /\ content = Empty /\ UNCHANGED kept
    BY <1>7
  <2>3. ASSUME NEW x \in writes', x.alone, NEW y \in writes', y.target = x.target
        PROVE  y = x
    BY <2>1, <2>2, <2>3 DEF WritesAlone
  <2>4. ASSUME NEW x \in writes', x.alone, x.truncated PROVE file'[x.target] = Empty
    <3>1. CASE x \in writes /\ x # w
      <4>1. x.target # w.target
        BY <2>1, <2>4, <3>1 DEF WritesAlone
      <4> QED BY <1>1, <1>5, <2>1, <2>4, <3>1, <4>1 DEF WritesAlone
    <3>2. CASE x.target = w.target /\ content = Empty
      BY <1>1, <1>2, <3>2
    <3> QED BY <2>2, <3>1, <3>2
  <2>5. ASSUME NEW x \in writes' PROVE kept'[x.target] = None
    <3>1. CASE UNCHANGED kept
      BY <2>1, <2>2, <3>1 DEF WritesAlone
    <3>2. CASE W = {} /\ w.alone /\ kept' = [kept EXCEPT ![w.target] = w.data]
      <4>1. x \in writes /\ x.target # w.target
        BY <2>1, <2>2, <3>2 DEF WritesAlone
      <4> QED BY <1>1, <1>5, <2>1, <3>2, <4>1 DEF WritesAlone
    <3> QED BY <3>1, <3>2
  <2>6. ASSUME NEW t \in Targets, kept'[t] # None PROVE file'[t] = Whole(kept'[t])
    <3>1. CASE t # w.target
      BY <1>1, <2>1, <2>6, <3>1 DEF AcknowledgedStored
    <3>2. CASE t = w.target
      <4>1. kept[t] = None
        BY <2>1, <3>2 DEF WritesAlone
      <4>2. content = Whole(w.data) /\ kept' = [kept EXCEPT ![w.target] = w.data]
        BY <2>6, <4>1
      <4> QED BY <1>1, <1>2, <3>2, <4>2
    <3> QED BY <3>1, <3>2
  <2> QED BY <2>3, <2>4, <2>5, <2>6 DEF WritesAlone, AcknowledgedStored
<1>13. PolicyUnmixed'
  <2>1. SUFFICES ASSUME "drop" \notin Faults
                 PROVE  /\ file'[Policy].state # "mixed"
                        /\ \A x \in writes' : x.by # None
                        /\ \A x \in writes' :
                              x.target = Policy /\ x.truncated => file'[Policy] = Empty
    BY DEF PolicyUnmixed, Faults
  <2>2. /\ file[Policy].state # "mixed"
        /\ \A x \in writes : x.by # None
        /\ \A x \in writes : x.target = Policy /\ x.truncated => file[Policy] = Empty
        /\ \A x \in writes : x.target = Policy => mutex = x.by
        /\ \A x, y \in writes : x.by = y.by => x = y
    BY <2>1 DEF IndInv, PolicyUnmixed, PolicyExclusive, ThreadsOwned
  <2>3. \A x \in writes' : x.by # None
    BY <1>7, <2>2
  <2>4. CASE w.target # Policy
    <3>1. file'[Policy] = file[Policy]
      BY <1>1, <2>4
    <3> QED BY <1>7, <2>2, <2>3, <2>4, <3>1
  <2>5. CASE w.target = Policy
    <3>1. file'[Policy] = content
      BY <1>1, <1>2, <2>5
    <3>2. content.state # "mixed"
      BY <2>2, <2>5
    <3>3. ASSUME NEW x \in writes', x.target = Policy PROVE file'[Policy] = Empty
      <4>1. x \notin writes \/ x = w
        BY <2>2, <2>5, <3>3
      <4> QED BY <1>7, <3>1, <4>1
    <3> QED BY <2>3, <3>1, <3>2, <3>3
  <2> QED BY <2>4, <2>5
<1>14. PolicyComplete'
  <2>1. file'[Policy] = IF w.target = Policy THEN content ELSE file[Policy]
    BY <1>1, <1>2
  <2> QED BY <2>1 DEF IndInv, PolicyComplete, Faults
<1>15. CountsAddUp'
  <2>1. CASE by = None
    BY <1>1, <1>3, <2>1, MetricsStay
  <2>2. CASE by # None
    <3>1. metric' = [metric EXCEPT !.active = @ - 1]
      BY <2>2
    <3>2. /\ metric' \in [Counters -> Int]
          /\ metric'.active = metric.active - 1
          /\ \A c \in Counters \ {"active"} : metric'[c] = metric[c]
          /\ \A c \in Counters : metric[c] \in Nat
      BY <1>1, <3>1 DEF Counters
    <3>3. "wait" \in Busy /\ "done" \notin Busy
      BY DEF Busy, Pc
    <3> QED BY <1>3, <1>4, <2>2, <3>2, <3>3, MetricsFollow DEF One, Counters
  <2> QED BY <2>1, <2>2
<1> QED BY <1>8, <1>9, <1>10, <1>11, <1>12, <1>13, <1>14, <1>15 DEF IndInv, SecretsGated

\* The threads of tokio::fs::write.
LEMMA Threads ==
  ASSUME IndInv, UNCHANGED scenario, Thread
  PROVE  IndInv'
<1>1. PICK w \in writes : Truncate(w) \/ Finish(w) \/ WriteFails(w)
  BY DEF Thread
<1>2. /\ w.data \in Contents /\ w.target \in Targets
      /\ file \in [Targets -> FileState] /\ req \in [Reqs -> ReqState]
      /\ mutex \in Reqs \cup {None} /\ None \notin Reqs
  BY ApiAssumption DEF IndInv, TypeOK, Write
<1>3. CASE Truncate(w)
  <2>1. Told(None, w.target, Empty)
    BY <1>2, <1>3 DEF Truncate, Told
  <2>2. Empty \in FileState /\ Empty.state \notin {"mixed", "partial"}
    BY DEF FileState, Empty
  <2>3. \A W : W = {[w EXCEPT !.truncated = TRUE]} => writes' = (writes \ {w}) \cup W
    BY <1>3 DEF Truncate
  <2>4. /\ file' = [file EXCEPT ![w.target] = Empty]
        /\ UNCHANGED <<objects, mutex, kept, metric>>
    BY <1>3 DEF Truncate
  <2>5. mutex' = IF mutex = None THEN None ELSE mutex
    BY <2>4
  <2> QED BY <2>1, <2>2, <2>3, <2>4, <2>5, ThreadMoves
<1>4. ASSUME NEW content, Returns(w, content)
      PROVE  /\ Told(w.by, w.target, content)
             /\ metric' = IF w.by = None THEN metric ELSE [metric EXCEPT !.active = @ - 1]
             /\ mutex' = IF mutex = w.by THEN None ELSE mutex
  BY <1>4 DEF Returns, Told, Release
<1>5. CASE Finish(w)
  <2>1. PICK content \in {Whole(w.data)} \cup
                         (IF file[w.target] = Empty THEN {} ELSE {Mixed}) :
          /\ file' = [file EXCEPT ![w.target] = content]
          /\ Returns(w, content)
          /\ kept' = IF w.by # None /\ w.alone
                     THEN [kept EXCEPT ![w.target] = w.data] ELSE kept
    BY <1>5 DEF Finish
  <2>2. content \in FileState
    BY <1>2, <2>1 DEF FileState
  <2>3. w.truncated /\ writes' = (writes \ {w}) \cup {} /\ UNCHANGED objects
    BY <1>5 DEF Finish
  <2>4. w.alone => content = Whole(w.data)
    BY <2>1, <2>3 DEF IndInv, WritesAlone
  <2>5. /\ content.state = "mixed" => file[w.target] # Empty
        /\ content.state # "partial"
    BY <2>1 DEF Whole, Mixed
  <2>6. \/ UNCHANGED kept
        \/ /\ w.by # None /\ w.alone /\ content = Whole(w.data)
           /\ kept' = [kept EXCEPT ![w.target] = w.data]
    BY <2>1, <2>4
  <2> QED BY <1>4, <2>1, <2>2, <2>3, <2>5, <2>6, ThreadMoves
<1>6. CASE WriteFails(w)
  <2>1. PICK content \in {file[w.target]} \cup (IF w.truncated THEN {Partial} ELSE {}) :
          file' = [file EXCEPT ![w.target] = content] /\ Returns(w, content)
    BY <1>6 DEF WriteFails
  <2>2. /\ writes' = (writes \ {w}) \cup {} /\ UNCHANGED <<objects, kept>>
        /\ "io" \in Faults
    BY <1>6 DEF WriteFails
  <2>3. content \in FileState
    BY <1>2, <2>1 DEF FileState
  <2>4. content.state = "mixed" => content = file[w.target]
    BY <2>1 DEF Partial
  <2> QED BY <1>4, <2>1, <2>2, <2>3, <2>4, ThreadMoves
<1> QED BY <1>1, <1>3, <1>5, <1>6

-----------------------------------------------------------------------------
(* The invariant and what follows *)

\* The invariant holds when the broker starts.
LEMMA InitInv == Init => IndInv
<1> SUFFICES ASSUME Init PROVE IndInv
  OBVIOUS
<1>1. /\ \A r \in Reqs : req[r] = Request("idle", None)
      /\ writes = {} /\ mutex = None /\ file[Policy] = Whole(DefaultPolicy)
      /\ \A t \in Targets : kept[t] = None
      /\ None \notin Reqs
  BY ApiAssumption DEF Init, Targets
<1>2. TypeOK
  <2>1. Request("idle", None) \in ReqState
    BY DEF Request, ReqState, Pc
  <2>2. Whole(DefaultPolicy) \in FileState /\ Absent \in FileState
    BY ApiAssumption DEF FileState, Contents
  <2>3. file \in [Targets -> FileState]
    BY <2>2 DEF Init
  <2>4. /\ req \in [Reqs -> ReqState] /\ metric \in [Counters -> Nat]
        /\ kept \in [Targets -> Contents \cup {None}]
        /\ objects \in [Descs -> SUBSET Secrets]
    BY <2>1 DEF Init
  <2> QED BY <1>1, <2>3, <2>4 DEF Init, TypeOK
<1>3. \A r \in Reqs : ReqProgress(r) /\ Gated(r)
  BY <1>1 DEF Request, ReqProgress, Gated
<1>4. PolicyExclusive /\ ThreadsOwned /\ WritesAlone /\ AcknowledgedStored
  BY <1>1 DEF PolicyExclusive, ThreadsOwned, WritesAlone, AcknowledgedStored, Request
<1>5. PolicyUnmixed /\ PolicyComplete
  BY <1>1 DEF PolicyUnmixed, PolicyComplete, Whole
<1>6. CountsAddUp
  <2>1. /\ {r \in Reqs : InFlight(r)} = {} /\ Dropped = {}
        /\ {r \in Reqs : req[r].pc = "eval_lock"} = {}
    BY <1>1 DEF Request, InFlight, Dropped
  <2>2. Cardinality({}) = 0
    BY FS_EmptySet
  <2>3. \A c \in Counters : metric[c] = 0
    BY DEF Init
  <2>4. /\ metric.active = 0 /\ metric.evals = 0 /\ metric.approvals = 0
        /\ metric.violations = 0 /\ metric.errors = 0
    BY <2>3 DEF Counters
  <2>5. {r \in Reqs : InFlight(r)} \cup Dropped = {}
    BY <2>1
  <2>6. ActiveIsInFlight
    BY <2>2, <2>4, <2>5 DEF ActiveIsInFlight
  <2>7. 0 - 0 - 0 - 0 - 0 \in 0..0
    OBVIOUS
  <2>8. MetricsAddUp
    BY <2>1, <2>2, <2>4, <2>7 DEF MetricsAddUp
  <2> QED BY <2>6, <2>8 DEF CountsAddUp
<1> QED BY <1>2, <1>3, <1>4, <1>5, <1>6 DEF IndInv, SecretsGated

\* Every step keeps the invariant.
LEMMA NextInv == IndInv /\ [Next]_vars => IndInv'
<1> SUFFICES ASSUME IndInv, [Next]_vars PROVE IndInv'
  OBVIOUS
<1>1. CASE UNCHANGED vars
  <2>1. UNCHANGED <<scenario, file, objects, writes, mutex, req, kept, metric>>
    BY <1>1 DEF vars
  <2>2. TypeOK' /\ PolicyExclusive' /\ ThreadsOwned' /\ WritesAlone'
    BY <2>1 DEF IndInv, TypeOK, PolicyExclusive, ThreadsOwned, WritesAlone
  <2>3. /\ AcknowledgedStored' /\ PolicyUnmixed' /\ PolicyComplete'
        /\ SecretsGated'
    BY <2>1 DEF IndInv, AcknowledgedStored, PolicyUnmixed, PolicyComplete, Faults,
                SecretsGated, Gated, Granting
  <2>4. \A r \in Reqs : ReqProgress(r)'
    BY <2>1 DEF IndInv, ReqProgress, Authenticated, Granting, Faults
  <2>5. CountsAddUp'
    BY <2>1, MetricsStay DEF IndInv, TypeOK
  <2> QED BY <2>2, <2>3, <2>4, <2>5 DEF IndInv
<1>2. CASE Next
  <2>1. UNCHANGED scenario
    BY <1>2 DEF Next
  <2>2. CASE Thread
    BY <2>1, <2>2, Threads
  <2>3. ASSUME NEW r \in Reqs, NEW q \in scenario.asks[r], Arrive(r, q) PROVE IndInv'
    BY <2>1, <2>3, Arrives
  <2>4. ASSUME NEW r \in Reqs, Serve(r) PROVE IndInv'
    BY <2>1, <2>4, Dispatches, PolicyEngine, PluginSteps, Writers DEF Serve
  <2>5. ASSUME NEW r \in Reqs, Drop(r) PROVE IndInv'
    BY <2>1, <2>5, Drops
  <2> QED BY <1>2, <2>2, <2>3, <2>4, <2>5 DEF Next
<1> QED BY <1>1, <1>2

\* The broker keeps the inductive invariant, whatever is asked of it and
\* whatever fails or is dropped.
THEOREM Invariance == Spec => []IndInv
BY InitInv, NextInv, PTL DEF Spec

\* The mutex of the policy engine works: its holder is a live request that
\* reads or writes the policy, and nobody else does (policy_engine/mod.rs).
THEOREM MutexDoesItsWork == Spec => []MutexWorks
<1>1. IndInv => MutexWorks
  BY DEF IndInv, MutexWorks
<1> QED BY <1>1, Invariance, PTL

\* Nothing leaves the broker ungated: every answer that holds something went
\* to an admin, or was encrypted for the key of a verified token whose query a
\* policy file it saw let pass (api_server.rs).
THEOREM SecretsAreGated == Spec => []SecretsGated
<1>1. IndInv => SecretsGated
  BY DEF IndInv
<1> QED BY <1>1, Invariance, PTL

\* What was acknowledged, and written by nobody else meanwhile, is in its file.
THEOREM AcknowledgedIsStored == Spec => []AcknowledgedStored
<1>1. IndInv => AcknowledgedStored
  BY DEF IndInv
<1> QED BY <1>1, Invariance, PTL

\* The counters of policy evaluations add up, for any number of requests: who
\* evaluated was approved, denied or failed, and counted once
\* (prometheus/mod.rs).
THEOREM MetricsAreRight == Spec => []MetricsAddUp
<1>1. IndInv => MetricsAddUp
  BY DEF IndInv, CountsAddUp
<1> QED BY <1>1, Invariance, PTL
=============================================================================
