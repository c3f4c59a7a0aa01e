------------------------- MODULE AttestationService -------------------------
(***************************************************************************)
(* The attestation service as a server: requests that share its RwLock,    *)
(* the policy file of the OPA engine, the mutex of the RVPS client, and    *)
(* the worker threads, one of which an evaluation blocks while a policy    *)
(* asks the RVPS (attestation-service/src).  It is reached directly, as a  *)
(* part of the KBS, or over the KBS' pool of gRPC connections.             *)
(*                                                                         *)
(* Verification and appraisal are Evaluation, the registry of components   *)
(* WasmRegistry, the RVPS itself Rvps; here each is a step of a request.   *)
(***************************************************************************)
EXTENDS Integers, Sequences, FiniteSets, SequencesExt

CONSTANTS
    None, Torn,     \* no file or value, a file that is not written in full
    Default,        \* the built-in policy
    Policies,       \* the policies that may be set
    Reqs,           \* the requests
    Workers,        \* the worker threads
    WorkerOf,       \* the worker a request is pinned to, under actix
    Deployments,    \* a set of [pinned, remote, pool, kinds]
    PoolSize,       \* the connections of the KBS' pool
    MaxDrops, MaxCrashes

Kinds == {"evaluate", "set_policy", "get_policy", "list_policies",
          "register_rv", "query_rv", "challenge", "register_component"}

ASSUME ServiceAssumption ==
    /\ None \notin Policies /\ Torn \notin Policies /\ Default \notin Policies
    /\ None \notin Kinds /\ Torn # None /\ Default \notin {None, Torn}
    /\ WorkerOf \in [Reqs -> Workers] /\ IsFiniteSet(Workers)
    /\ \A d \in Deployments : d.kinds \subseteq Kinds
    /\ PoolSize \in Nat \ {0} /\ MaxDrops \in Nat /\ MaxCrashes \in Nat

VARIABLES
    deployment,
    up,         \* the service: "down", "starting" or "up"
    req,        \* the requests
    queue,      \* who waits for the RwLock, in order
    rvps,       \* who has (first) or waits for the RVPS client's mutex
    file,       \* the policy file
    writes,     \* the writes of the file that are under way
    latest,     \* the policy of the last answer, Torn if its write had failed
    loose,      \* the policies that were being written and got no answer
    drops, crashes

vars == <<deployment, up, req, queue, rvps, file, writes, latest, loose,
          drops, crashes>>
faults == <<deployment, up, drops, crashes>>

-----------------------------------------------------------------------------
(* State. *)

\* Mutant: a policy is set under a read lock.
WritesRvOnly(kind) == kind = "register_rv"

\* tokio::sync::RwLock: a read lock is enough for all but two.
Writes(kind) == kind \in {"set_policy", "register_rv"}

\* A request: its kind, where it is, the policy it sets or has read, and
\* whether it succeeded.
Fresh == [kind |-> None, pc |-> "idle", policy |-> None, ok |-> FALSE]

Locked == {"locked", "writing", "written", "rvps", "ask", "blocked", "answered",
           "finish"}
Pcs == {"idle", "pool", "queued", "done"} \cup Locked

File == Policies \cup {None, Torn, Default}
Request == [kind : Kinds \cup {None}, pc : Pcs, policy : File, ok : BOOLEAN]
Write == [of : Reqs, policy : Policies, alone : BOOLEAN]

\* A request that has touched the policy file and has not answered.
Unanswered(r) ==
    /\ req[r].kind = "set_policy"
    /\ \/ req[r].pc \in {"writing", "written"}
       \/ req[r].pc = "finish" /\ (req[r].ok \/ req[r].policy = Torn)

Holders == {r \in Reqs : req[r].pc \in Locked}
Blocked == {r \in Reqs : req[r].pc = "blocked"}

\* A task runs on its own worker under actix, on any under tokio; a worker
\* in the rego extension waits and runs nothing.
WorkerFree(pinned, blocked, r) ==
    IF pinned THEN \A b \in blocked : WorkerOf[b] # WorkerOf[r]
    ELSE Cardinality(blocked) < Cardinality(Workers)

CanRun(r) == WorkerFree(deployment.pinned, Blocked, r)

\* The channel to a remote RVPS is driven by the runtime that opened it: the
\* main thread under actix, the workers under tokio.
DriverRuns ==
    deployment.remote /\ ~deployment.pinned
        => Cardinality(Blocked) < Cardinality(Workers)

\* The two kinds of owner of the RVPS mutex.
Task(r) == <<"task", r>>
Thread(r) == <<"thread", r>>

Set(r, pc) == req' = [req EXCEPT ![r].pc = pc]
End(r, ok) == req' = [req EXCEPT ![r].pc = "done", ![r].ok = ok]

\* A place in a queue is given up; who is behind moves up.
Without(s, x) ==
    IF x \in ToSet(s) THEN RemoveAt(s, CHOOSE i \in DOMAIN s : s[i] = x) ELSE s

Init ==
    /\ deployment \in Deployments
    /\ up = "down"
    /\ req = [r \in Reqs |-> Fresh]
    /\ queue = <<>> /\ rvps = <<>>
    /\ file = None /\ writes = {}
    /\ latest = None /\ loose = {}
    /\ drops = 0 /\ crashes = 0

-----------------------------------------------------------------------------
(* Start-up.  The default policy is written unless there is a policy file. *)

Start ==
    /\ up = "down"
    /\ up' = IF file = None THEN "starting" ELSE "up"
    /\ file' = IF file = None THEN Torn ELSE file
    /\ UNCHANGED <<deployment, req, queue, rvps, writes, latest, loose,
                   drops, crashes>>

Started ==
    /\ up = "starting"
    /\ up' = "up"
    /\ file' = Default /\ latest' = IF latest = None THEN Default ELSE latest
    /\ UNCHANGED <<deployment, req, queue, rvps, writes, loose, drops,
                   crashes>>

\* The write of the default policy fails and so does the start; the file is
\* there from now on.
StartFails ==
    /\ up = "starting"
    /\ up' = "down"
    /\ loose' = loose \cup {Default}
    /\ UNCHANGED <<deployment, req, queue, rvps, file, writes, latest, drops,
                   crashes>>

-----------------------------------------------------------------------------
(* A request comes in and waits for the lock. *)

Arrive(r, kind, policy) ==
    /\ up = "up" /\ req[r].pc = "idle" /\ CanRun(r)
    /\ req' = [req EXCEPT ![r] = [Fresh EXCEPT
                  !.kind = kind, !.policy = policy,
                  !.pc = IF deployment.pool THEN "pool" ELSE "queued"]]
    /\ queue' = IF deployment.pool THEN queue ELSE Append(queue, r)
    /\ UNCHANGED <<faults, rvps, file, writes, latest, loose>>

Connected == {r \in Reqs : req[r].pc \in Locked \cup {"queued"}}

GetConnection(r) ==
    /\ req[r].pc = "pool" /\ Cardinality(Connected) < PoolSize
    /\ Set(r, "queued") /\ queue' = Append(queue, r)
    /\ UNCHANGED <<faults, rvps, file, writes, latest, loose>>

\* No connection in time, or none at all.
NoConnection(r) ==
    /\ req[r].pc = "pool"
    /\ End(r, FALSE)
    /\ UNCHANGED <<faults, queue, rvps, file, writes, latest, loose>>

\* The lock is handed to the first in the queue, whether it runs or not.
Grant(r) ==
    /\ queue # <<>> /\ r = Head(queue)
    /\ \A h \in Holders : ~Writes(req[h].kind) /\ ~Writes(req[r].kind)
    /\ Set(r, "locked") /\ queue' = Tail(queue)
    /\ UNCHANGED <<faults, rvps, file, writes, latest, loose>>

\* The response; the guard goes out of scope.  An error after a write has
\* begun says that the file is cut off.
Finish(r) ==
    /\ req[r].pc = "finish" /\ CanRun(r)
    /\ Set(r, "done")
    /\ latest' = IF Unanswered(r) THEN req[r].policy ELSE latest
    /\ UNCHANGED <<faults, queue, rvps, file, writes, loose>>

\* What needs the lock only, and may fail.
Answer(r, kind) ==
    /\ req[r].pc = "locked" /\ CanRun(r) /\ req[r].kind = kind
    /\ \E ok \in BOOLEAN :
          req' = [req EXCEPT ![r].pc = "finish", ![r].ok = ok]
    /\ UNCHANGED <<faults, queue, rvps, file, writes, latest, loose>>

get_challenge(r) == Answer(r, "challenge")
register_component(r) == Answer(r, "register_component")

-----------------------------------------------------------------------------
(* Policies. *)

\* Base64, the id and the rego are checked before anything is written; any of
\* them may be wrong, or the file may not open.
RefusePolicy(r) ==
    /\ req[r].kind = "set_policy" /\ req[r].pc = "locked" /\ CanRun(r)
    /\ Set(r, "finish")
    /\ UNCHANGED <<faults, queue, rvps, file, writes, latest, loose>>

\* tokio::fs::write: a thread of its own empties the file and fills it.
BeginWrite(r) ==
    /\ req[r].kind = "set_policy" /\ req[r].pc = "locked" /\ CanRun(r)
    /\ Set(r, "writing")
    /\ file' = Torn
    /\ writes' = {[w EXCEPT !.alone = FALSE] : w \in writes} \cup
                 {[of |-> r, policy |-> req[r].policy, alone |-> writes = {}]}
    /\ loose' = IF writes = {} THEN {} ELSE loose
    /\ UNCHANGED <<faults, queue, rvps, latest>>

\* The handler that waits for a write hears how it ended.
Tell(w, policy, ok) ==
    req' = IF req[w.of].pc = "writing"
           THEN [req EXCEPT ![w.of].pc = "written", ![w.of].ok = ok,
                            ![w.of].policy = policy]
           ELSE req

\* The thread ends, also when nobody waits for it any more.  Of two writes at
\* a time either may win, or neither; one that fails leaves the file cut off.
EndWrite(w) ==
    /\ w \in writes
    /\ writes' = writes \ {w}
    /\ \/ /\ \/ file' = w.policy
             \/ (~w.alone \/ writes' # {}) /\ file' = Torn
          /\ Tell(w, w.policy, TRUE)
       \/ file' = Torn /\ Tell(w, Torn, FALSE)
    /\ UNCHANGED <<faults, queue, rvps, latest, loose>>

Written(r) ==
    /\ req[r].pc = "written" /\ CanRun(r)
    /\ Set(r, "finish")
    /\ UNCHANGED <<faults, queue, rvps, file, writes, latest, loose>>

\* get_policy and list_policies take whatever bytes are there.
ReadFile(r) ==
    /\ req[r].kind \in {"get_policy", "list_policies"}
    /\ req[r].pc = "locked" /\ CanRun(r)
    /\ req' = [req EXCEPT ![r].pc = "finish", ![r].ok = TRUE,
                          ![r].policy = file]
    /\ UNCHANGED <<faults, queue, rvps, file, writes, latest, loose>>

\* An evaluation loads the policy, which must parse.
LoadPolicy(r) ==
    /\ req[r].kind = "evaluate" /\ req[r].pc = "locked" /\ CanRun(r)
    /\ req' = [req EXCEPT ![r].policy = file,
                          ![r].pc = IF file = Torn THEN "finish" ELSE "ask"]
    /\ UNCHANGED <<faults, queue, rvps, file, writes, latest, loose>>

-----------------------------------------------------------------------------
(* The rego extension query_reference_value. *)

\* A policy that asks nothing, or has asked all.
Appraised(r) ==
    /\ req[r].pc \in {"ask", "answered"} /\ CanRun(r)
    /\ \E ok \in BOOLEAN :
          req' = [req EXCEPT ![r].pc = "finish", ![r].ok = ok]
    /\ UNCHANGED <<faults, queue, rvps, file, writes, latest, loose>>

\* A thread with a runtime of its own is spawned; the worker waits.
Ask(r) ==
    /\ req[r].pc = "ask" /\ CanRun(r)
    /\ Set(r, "blocked")
    /\ rvps' = Append(rvps, Thread(r))
    /\ UNCHANGED <<faults, queue, file, writes, latest, loose>>

\* The thread has the mutex and its answer; if the worker still waits, it
\* gets it.
ThreadAnswers(r) ==
    /\ rvps # <<>> /\ Head(rvps) = Thread(r) /\ DriverRuns
    /\ rvps' = Tail(rvps)
    /\ req' = IF req[r].pc = "blocked"
              THEN [req EXCEPT ![r].pc = "answered"] ELSE req
    /\ UNCHANGED <<faults, queue, file, writes, latest, loose>>

\* Mutant: no timeout.
WaitForever(r) == FALSE /\ UNCHANGED vars

\* recv_timeout: the evaluation fails, the thread stays.
Timeout(r) ==
    /\ req[r].pc = "blocked"
    /\ Set(r, "finish")
    /\ UNCHANGED <<faults, queue, rvps, file, writes, latest, loose>>

-----------------------------------------------------------------------------
(* Reference values are registered and queried under the mutex too. *)

LockRvps(r) ==
    /\ req[r].kind \in {"register_rv", "query_rv"}
    /\ req[r].pc = "locked" /\ CanRun(r)
    /\ Set(r, "rvps")
    /\ rvps' = Append(rvps, Task(r))
    /\ UNCHANGED <<faults, queue, file, writes, latest, loose>>

\* Mutant: only an answer gives the mutex back, an error leaves it locked.
RvpsServedOk(r) ==
    /\ rvps # <<>> /\ Head(rvps) = Task(r) /\ CanRun(r) /\ DriverRuns
    /\ \E ok \in BOOLEAN :
          /\ rvps' = IF ok THEN Tail(rvps) ELSE rvps
          /\ req' = [req EXCEPT ![r].pc = "finish", ![r].ok = ok]
    /\ UNCHANGED <<faults, queue, file, writes, latest, loose>>

RvpsServed(r) ==
    /\ rvps # <<>> /\ Head(rvps) = Task(r) /\ CanRun(r) /\ DriverRuns
    /\ rvps' = Tail(rvps)
    /\ \E ok \in BOOLEAN :
          req' = [req EXCEPT ![r].pc = "finish", ![r].ok = ok]
    /\ UNCHANGED <<faults, queue, file, writes, latest, loose>>

-----------------------------------------------------------------------------
(* Faults. *)

\* The client goes away and the handler is dropped at an await, with its
\* guards and its places in the queues, but not the write that was begun.
Drop(r) ==
    /\ drops < MaxDrops /\ CanRun(r)
    /\ req[r].pc \notin {"idle", "blocked", "done"}
    /\ drops' = drops + 1
    /\ End(r, FALSE)
    /\ queue' = Without(queue, r)
    /\ rvps' = Without(rvps, Task(r))
    /\ loose' = IF Unanswered(r) THEN loose \cup {req[r].policy} ELSE loose
    /\ UNCHANGED <<deployment, up, file, writes, latest, crashes>>

Crash ==
    /\ up # "down" /\ crashes < MaxCrashes
    /\ up' = "down" /\ crashes' = crashes + 1
    /\ req' = [r \in Reqs |-> IF req[r].pc = "idle" THEN Fresh
                              ELSE [req[r] EXCEPT !.pc = "done"]]
    /\ queue' = <<>> /\ rvps' = <<>> /\ writes' = {}
    /\ loose' = loose \cup {req[r].policy : r \in {s \in Reqs : Unanswered(s)}}
                     \cup (IF up = "starting" THEN {Default} ELSE {})
    /\ UNCHANGED <<deployment, file, latest, drops>>

-----------------------------------------------------------------------------
(* Specification. *)

Handle(r) ==
    \/ GetConnection(r) \/ NoConnection(r) \/ Grant(r) \/ Finish(r)
    \/ get_challenge(r) \/ register_component(r)
    \/ RefusePolicy(r) \/ BeginWrite(r) \/ Written(r) \/ ReadFile(r)
    \/ LoadPolicy(r) \/ Appraised(r) \/ Ask(r) \/ ThreadAnswers(r)
    \/ Timeout(r) \/ LockRvps(r) \/ RvpsServed(r)

Next ==
    \/ Start \/ Started \/ StartFails \/ Crash
    \/ \E r \in Reqs :
          \/ \E kind \in deployment.kinds :
                IF kind = "set_policy"
                THEN \E policy \in Policies : Arrive(r, kind, policy)
                ELSE Arrive(r, kind, None)
          \/ Handle(r) \/ Drop(r)
    \/ \E w \in writes : EndWrite(w)

Spec == Init /\ [][Next]_vars

\* The executor runs a task that can run, threads and disks go on, and a wait
\* with a timeout ends.  Nobody has to ask, to go away or to crash.
Fairness ==
    /\ \A r \in Reqs : WF_vars(Handle(r))
    /\ WF_vars(\E w \in writes : EndWrite(w))

LiveSpec == Spec /\ Fairness

-----------------------------------------------------------------------------
(* Properties. *)

\* Types: what a request is doing fits its kind.
TypeOK ==
    /\ deployment \in Deployments /\ up \in {"down", "starting", "up"}
    /\ drops \in 0..MaxDrops /\ crashes \in 0..MaxCrashes
    /\ file \in File /\ latest \in File /\ loose \subseteq File \ {None}
    /\ req \in [Reqs -> Request] /\ writes \subseteq Write
    /\ queue \in Seq(Reqs) /\ rvps \in Seq({"task", "thread"} \X Reqs)
    /\ \A r \in Reqs :
         /\ req[r].pc \in {"writing", "written"} => req[r].kind = "set_policy"
         /\ req[r].pc \in {"ask", "blocked", "answered"}
              => req[r].kind = "evaluate"
    /\ file = None => up = "down"

\* Every place in a queue has a live owner: whoever gave up, was dropped or
\* is done holds up nobody, and no request waits outside the queues.
PlacesAreOwned ==
    /\ \A r \in Reqs :
         /\ req[r].pc = "queued" <=> r \in ToSet(queue)
         /\ req[r].pc = "rvps" <=> Task(r) \in ToSet(rvps)
         /\ req[r].pc = "blocked" => Thread(r) \in ToSet(rvps)
    /\ IsInjective(queue) /\ IsInjective(rvps)

\* What requests do fits their kinds and the queues they are in.
QueuesWork == TypeOK /\ PlacesAreOwned

\* What the file may hold besides the latest policy: what somebody wrote who
\* was dropped or crashed before the answer, or a part of it.
LooseContents == IF loose = {} THEN {} ELSE loose \cup {Torn}

\* Whoever reads the policy, to evaluate, to show or to list it, reads it as
\* the last answer about it said, in full or, if that was an error, cut off:
\* over writes that fail, crashes and restarts.  It reads anything else only
\* after a request, or a start-up, that did not live to answer, and only
\* until a policy is set with no write of such a request under way.
PoliciesWhole ==
    \A r \in Holders :
        /\ req[r].kind \in {"evaluate", "get_policy", "list_policies"}
        /\ req[r].pc # "locked"
        => req[r].policy \in {latest} \cup LooseContents

\* Every request ends, whoever waits for whom: a worker that waits for the
\* RVPS may hold up the very task that has the RVPS' mutex, and is released
\* by its timeout.
EveryRequestEnds ==
    \A r \in Reqs :
        req[r].pc \notin {"idle", "done"} ~> req[r].pc = "done"
=============================================================================
