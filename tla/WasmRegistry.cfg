\* Three registrations of two components (a third is refused), a crash.
SPECIFICATION Spec
CONSTANTS
  r1 = r1  r2 = r2  r3 = r3  e1 = e1  c1 = c1  c2 = c2  c3 = c3
  None = None
  Comps = {c1, c2, c3}
  Accepted = {c1, c2}
  RegReqs = {r1, r2, r3}
  EvalReqs = {e1}
  MaxCrashes = 1
SYMMETRY RegSymmetry
INVARIANTS StateAgrees DiskAgrees
CHECK_DEADLOCK FALSE
