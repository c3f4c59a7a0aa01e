\* Three requests of every kind; writes fail and clients disconnect.
SPECIFICATION LiveSpec
CONSTANTS
  r1 = r1  r2 = r2  r3 = r3  d1 = d1  s1 = s1  s2 = s2  k1 = k1
  good = good  bad = bad  rubbish = rubbish  None = None  Torn = Torn
  Credential = Credential
  Reqs = {r1, r2, r3}
  Scenarios <- MCScenarios
  Descs = {d1}
  Secrets = {s1, s2}
  Policies <- MCPolicies
  DefaultPolicy <- AllowGood
  Tokens <- MCTokens
  Plugins = {"resource", "sample", "nebula-ca", "pkcs11"}
  InsecureKey = FALSE
  TrustedCerts = TRUE
  TrustedJwks = TRUE
INVARIANTS MutexWorks SecretsGated AcknowledgedStored
  MetricsAddUp
PROPERTY RequestsEnd
CHECK_DEADLOCK FALSE
