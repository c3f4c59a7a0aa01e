--------------------------- MODULE MCKbsPlugins ---------------------------
(* Three requests to one plugin or two (two requests with Nebula), one     *)
(* crash, two changes outside.                                             *)
EXTENDS KbsPlugins, TLC

D1 == <<"one", "key", "tag">>
D2 == <<"two", "key", "tag">>
D3 == <<"two", "key", "other">>
LegalSegments == {"one", "two", "key", "tag", "other"}

Query(plugin, method, path) ==
    [plugin |-> plugin, method |-> method, path |-> path, params |-> TRUE]

MCQueries ==
    { Query("resource", m, p) : m \in {"GET", "POST"}, p \in {D1, D2} } \cup
    { Query("pkcs11", m, <<"resource">> \o p) :
         m \in {"GET", "POST"}, p \in {D1, D2} } \cup
    { Query("pkcs11", m, <<"wrap-key">>) : m \in {"GET", "POST"} } \cup
    { Query("nebula-ca", "GET", <<"credential">>),
      [Query("nebula-ca", "GET", <<"credential">>) EXCEPT !.params = FALSE],
      Query("nebula-ca", "POST", <<"credential">>),
      Query("resource", "GET", D3),
      Query("resource", "PUT", D1),
      Query("pkcs11", "GET", <<"resource", ".hidden", "key", "tag">>) }

Resources(backend) ==
    [name |-> "resource", backend |-> backend, client |-> TRUE]
Pkcs11(slot, label) ==
    [name |-> "pkcs11", slot |-> slot, pin |-> TRUE, label |-> label]
Nebula(version) == [name |-> "nebula-ca", version |-> version]

Pair(label, n) ==
    { [label |-> label, class |-> class, value |-> n, session |-> FALSE] :
         class \in {"public", "private"} }

Secret(label, n) ==
    [label |-> label, class |-> "secret", value |-> n, session |-> FALSE]

Deployment(list, objects) == [config |-> list, token |-> objects]

\* The second resource plugin replaces the first; the token holds one pair
\* with the lookup label, which is also the name of a resource, and a secret
\* (the operator adds and removes pairs); a plugin that cannot start stops the
\* others.
MCDeployments ==
    { Deployment(<<Resources("aliyun"), Resources("vault")>>, {}),
      Deployment(<<Resources("aliyun")>>, {}),
      Deployment(<<Pkcs11(0, D2)>>, Pair(D2, 1) \cup {Secret(D1, 7)}),
      Deployment(<<Nebula(TRUE)>>, {}),
      Deployment(<<Nebula(TRUE), Pkcs11(1, <<"wrap">>)>>, {}),
      Deployment(<<Nebula(FALSE)>>, {}),
      Deployment(<<[Resources("vault") EXCEPT !.client = FALSE]>>, {}) }

MCKmsSecrets == {"tag"}

\* Every child of nebula-cert writes its files at any time: two requests to
\* Nebula are enough to mix them up.
NebulaBound ==
    Named("nebula-ca") # {} => Cardinality({r \in Reqs : req[r].q # None}) <= 2

RequestSymmetry == Permutations(Reqs)
===========================================================================
