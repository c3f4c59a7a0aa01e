SPECIFICATION Spec
CONSTANTS
    r1 = r1
    r2 = r2
    r3 = r3
    None = None
    Reqs = {r1, r2, r3}
    Queries <- MCQueries
    Deployments <- MCDeployments
    Legal <- LegalSegments
    Slots = 1
    KmsSecrets <- MCKmsSecrets
    MaxStarts = 2
    MaxOps = 2
CONSTRAINT NebulaBound
SYMMETRY RequestSymmetry
CHECK_DEADLOCK FALSE
INVARIANTS
    StoredIsServed
    WrapRoundTrip
    CredentialsAreOwn
    CaIsKept
    NebulaWork
