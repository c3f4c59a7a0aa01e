\* Two requests; clients go away, writes fail and the server crashes.
SPECIFICATION LiveSpec
CONSTANTS
  c1 = c1  c2 = c2  n1 = n1  n2 = n2  v1 = v1  v2 = v2
  None = None  Zero = Zero
  Names = {n1, n2}
  Values = {v1, v2}
  Clients = {c1, c2}
  Deployments <- MCDeployments
  Lifetime = 1
  MaxCrashes = 1
  MaxOrphans = 1
INVARIANTS LocksWork KeptAreStored
PROPERTIES ImplementsStore RequestsEnd
