SPECIFICATION Spec
CONSTANTS
  Callers = {c1, c2}
  Keys = {k1, k2}
  Requests = {q1, q2}
  NamedRuns = {n1}
  FreshRuns = {r1, r2, r3}
  Nobody = Nobody
  None = None
CHECK_DEADLOCK FALSE
SYMMETRY Symmetry
INVARIANTS
  KeysNameRuns
  RefusalsAreTrue
