\* Two /attest requests with the same cookie.
SPECIFICATION Spec
CONSTANTS
  a1 = a1  a2 = a2  t1 = t1  t2 = t2  g1 = g1
  w1 = w1  w2 = w2  b1 = b1  b2 = b2  n1 = n1  n2 = n2
  None = None
  AuthReqs = {a1, a2}
  AttReqs = {t1, t2}
  GetReqs = {}
  Workers = {w1, w2}
  WorkerOf <- AuthApart
  Buckets = {b1, b2}
  BucketOf <- OwnBucket
  Nonces = {n1, n2}
  Tees = {"snp"}
  Timeout = 0
  MaxTime = 1
INVARIANT NoPanic
