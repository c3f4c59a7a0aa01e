---------------------------- MODULE MCKbsSession ----------------------------
(* Instances of KbsSession: which worker serves a request and which bucket  *)
(* a session id hashes to.                                                  *)
EXTENDS KbsSession, TLC

CONSTANTS a1, a2, t1, t2, g1, w1, w2, b1, b2, n1, n2

\* Both sessions share one bucket, and everything runs on one worker.
OneBucket == (a1 :> b1 @@ a2 :> b1)
OneWorker == [r \in Reqs |-> w1]

\* One bucket per session.
OwnBucket == (a1 :> b1 @@ a2 :> b2)

\* /auth requests on one worker, the others on another.
AuthApart == [r \in Reqs |-> IF r \in AuthReqs THEN w1 ELSE w2]
=============================================================================
