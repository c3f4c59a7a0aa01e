--------------------------- MODULE RcarHandshake ----------------------------
(***************************************************************************)
(* What an RCAR session promises, whoever serves it: it is opened with a   *)
(* challenge no other session has, at most one token is ever issued for    *)
(* it, for evidence bound to its own challenge, that token is the only one *)
(* ever handed out under its cookie, and once closed it stays closed.      *)
(* KbsSession is shown to implement this.                                  *)
(***************************************************************************)
CONSTANTS Sessions, Nonces, Token, None

VARIABLES
    phase,      \* "none", "challenged", "attested" or "closed"
    challenge,  \* the nonce a session was opened with
    answers     \* the tokens handed out under the cookie of a session

rvars == <<phase, challenge, answers>>

RInit ==
    /\ phase = [s \in Sessions |-> "none"]
    /\ challenge = [s \in Sessions |-> None]
    /\ answers = [s \in Sessions |-> {}]

\* Request and challenge.
Open(s) ==
    /\ phase[s] = "none"
    /\ phase' = [phase EXCEPT ![s] = "challenged"]
    /\ \E n \in Nonces :
          /\ \A q \in Sessions : challenge[q] # n
          /\ challenge' = [challenge EXCEPT ![s] = n]
    /\ UNCHANGED answers

\* Attestation and response.  Answering again with the same token is a
\* stuttering step.
Attest(s) ==
    /\ phase[s] = "challenged"
    /\ phase' = [phase EXCEPT ![s] = "attested"]
    /\ \E token \in Token :
          /\ token.nonce = challenge[s]
          /\ answers' = [answers EXCEPT ![s] = {token}]
    /\ UNCHANGED challenge

\* Any number of sessions expire together.
Close(S) ==
    /\ \A s \in S : phase[s] \in {"challenged", "attested"}
    /\ phase' = [s \in Sessions |-> IF s \in S THEN "closed" ELSE phase[s]]
    /\ UNCHANGED <<challenge, answers>>

RNext ==
    \/ \E s \in Sessions : Open(s) \/ Attest(s)
    \/ \E S \in SUBSET Sessions : Close(S)

RSpec == RInit /\ [][RNext]_rvars
=============================================================================
