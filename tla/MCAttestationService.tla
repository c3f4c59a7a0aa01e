------------------------ MODULE MCAttestationService ------------------------
(***************************************************************************)
(* Three requests, two of them on one worker, in the four ways the service *)
(* is deployed.                                                            *)
(***************************************************************************)
EXTENDS AttestationService

CONSTANTS r1, r2, r3, w1, w2

MCWorkerOf == [r \in Reqs |-> IF r = r3 THEN w2 ELSE w1]

\* The RESTful service, the KBS with a built-in one, and the gRPC service,
\* alone with a remote RVPS or behind the pool of the KBS.
MCDeployments ==
    {[pinned |-> TRUE, remote |-> FALSE, pool |-> FALSE,
      kinds |-> {"evaluate", "set_policy", "list_policies"}],
     [pinned |-> TRUE, remote |-> TRUE, pool |-> FALSE,
      kinds |-> {"evaluate", "register_rv", "challenge"}],
     [pinned |-> FALSE, remote |-> TRUE, pool |-> FALSE,
      kinds |-> {"evaluate", "query_rv", "register_component"}],
     [pinned |-> FALSE, remote |-> FALSE, pool |-> TRUE,
      kinds |-> {"evaluate", "set_policy"}]}
=============================================================================
