------------------------------ MODULE MCKbsApi ------------------------------
(* Instances of KbsApi. *)
EXTENDS KbsApi

CONSTANTS r1, r2, r3, d1, s1, s2, good, bad, k1, rubbish

Token(jwk, kid, signed, claims, key) ==
    [jwk |-> jwk, kid |-> kid, signed |-> signed, claims |-> claims,
     key |-> key]

GoodToken == Token("endorsed", "unknown", TRUE, good, k1)
BadToken == Token("none", "known", TRUE, bad, k1)
KeylessToken == Token("none", "known", TRUE, good, None)

\* Trusted and not, signed and not, with a key and not.
MCTokens == { GoodToken, BadToken, KeylessToken,
              Token("unendorsed", "known", TRUE, good, k1),
              Token("endorsed", "known", FALSE, good, k1),
              Token("none", "unknown", TRUE, good, k1) }

What(plugin, target) == [plugin |-> plugin, target |-> target]

\* Good claims may have everything, or everybody may have nothing.
AllowGood == { <<good, What(p, t)>> : p \in AllPlugins, t \in {d1, None} }
AllowNone == {}
MCPolicies == {AllowGood, AllowNone}

Ask(plugin, method, target, data, admin, session, bearer) ==
    [plugin |-> plugin, method |-> method, target |-> target, data |-> data,
     admin |-> admin, session |-> session, bearer |-> bearer]

SetPolicies ==
    { Ask(Policy, "POST", None, data, TRUE, None, None) :
         data \in {AllowGood, AllowNone} }
Post(plugin, data) == Ask(plugin, "POST", d1, data, TRUE, None, None)
Get(plugin, token) == Ask(plugin, "GET", d1, None, FALSE, None, token)

\* Policies and resources are written, and read.
Writing ==
    SetPolicies \cup { Post("resource", s1), Post("resource", s2),
                       Post("pkcs11", s1) }
Reading ==
    { Ask(Policy, "GET", None, None, TRUE, None, None),
      Get("resource", GoodToken), Get("pkcs11", GoodToken),
      Ask("resource", "GET", d1, None, FALSE, BadToken, GoodToken) }

\* Every plugin and every way to be refused.
OddQueries ==
    { Get("resource", t) : t \in MCTokens \cup {None} } \cup
    { Ask(Policy, "POST", None, None, TRUE, None, None),
      Ask(Policy, "POST", None, rubbish, TRUE, None, None),
      Ask(Policy, "POST", None, AllowGood, FALSE, None, None),
      Ask("resource", "GET", None, None, FALSE, None, GoodToken),
      Get("pkcs11", BadToken),
      Ask("sample", "GET", None, None, TRUE, None, None),
      Ask("nebula-ca", "GET", None, None, FALSE, GoodToken, None),
      Get("nebula-ca", GoodToken),
      Ask("nebula-ca", "GET", None, None, FALSE, KeylessToken, None),
      Ask("nebula-ca", "POST", None, None, FALSE, GoodToken, None),
      Ask("unknown", "GET", None, None, TRUE, None, None) }

\* One of each that takes the mutex or a thread.
DropQueries ==
    { Ask(Policy, "POST", None, AllowNone, TRUE, None, None),
      Ask(Policy, "GET", None, None, TRUE, None, None),
      Post("resource", s1), Get("resource", GoodToken),
      Ask("nebula-ca", "GET", None, None, FALSE, GoodToken, None) }

\* One request writes, one reads or sets a policy, one asks whatever there is
\* while writes fail; three take the mutex or a thread while clients go away.
MCScenarios ==
    { [faults |-> {"io"},
       asks |-> [r \in Reqs |-> CASE r = r1 -> Writing
                                  [] r = r2 -> Reading \cup SetPolicies
                                  [] r = r3 -> OddQueries]],
      [faults |-> {"drop", "io"},
       asks |-> [r \in Reqs |-> IF r = r3 THEN SetPolicies ELSE DropQueries]] }
=============================================================================
