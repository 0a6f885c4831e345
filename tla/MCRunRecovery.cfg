SPECIFICATION Spec
CONSTANTS
  Callers = {c1, c2}
  Forks = {f1}
  Nobody = Nobody
  MaxLines = 2
  MaxEvents = 3
CHECK_DEADLOCK FALSE
SYMMETRY Symmetry
INVARIANTS
  SoundAuditsSawSoundRuns
  ForksAreBornLinked
  ProvenanceComesSecond
  AnswersAreOnTheStream
