------------------------------ MODULE RvStore -------------------------------
(***************************************************************************)
(* What the reference value provider service promises: a map from names to *)
(* reference values that changes one name at a time, to a value a client   *)
(* asked for, that keeps a value until it is replaced, and whose queries   *)
(* answer with what the map holds.  A storage that is not intact may lose  *)
(* values or fall back to earlier ones, but holds under a name only values *)
(* of that name, and still answers with what it holds.  Rvps is shown to   *)
(* implement this.                                                         *)
(***************************************************************************)
CONSTANTS Names, RV, None

VARIABLES
    intact,     \* whether the storage keeps what it was given; never changes
    store,      \* the reference value of each name
    wanted,     \* the reference values of the registrations under way
    served      \* the last answer to a query: [name, rv]

svars == <<intact, store, wanted, served>>

SInit ==
    /\ intact \in BOOLEAN
    /\ store = [n \in Names |-> None]
    /\ wanted = {}
    /\ served = [name |-> None, rv |-> None]

\* Registrations come and go.
Ask == wanted' \in SUBSET RV /\ UNCHANGED <<intact, store, served>>

\* A value is stored, which may also end its registration.
Put(rv) ==
    /\ store' = [store EXCEPT ![rv.name] = rv]
    /\ wanted' \in SUBSET wanted
    /\ UNCHANGED <<intact, served>>

Get(n) ==
    /\ served' = [name |-> n, rv |-> store[n]]
    /\ UNCHANGED <<intact, store, wanted>>

\* A fault: the map is another one.
Lose ==
    /\ ~intact
    /\ store' \in [Names -> RV \cup {None}]
    /\ \A n \in Names : store'[n] # None => store'[n].name = n
    /\ wanted' \in SUBSET RV
    /\ UNCHANGED <<intact, served>>

SNext ==
    \/ Ask \/ Lose
    \/ \E rv \in wanted : Put(rv)
    \/ \E n \in Names : Get(n)

SSpec == SInit /\ [][SNext]_svars
=============================================================================
