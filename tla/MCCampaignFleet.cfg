SPECIFICATION Spec
CONSTANTS
  Clients = {c1, c2}
  Children = {k1, k2}
  Asked = {"active", "completed"}
  GivenKeys = {g1}
  MaxEvents = 5
  Nobody = Nobody
  Idle = Idle
CHECK_DEADLOCK FALSE
SYMMETRY Symmetry
INVARIANTS
  HistoryIsLegal
  IncarnationsFollow
PROPERTY
  ClosesQuiet
