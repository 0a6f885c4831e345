SPECIFICATION Spec
CONSTANTS
  Processes = {p1, p2}
  NoProcess = NoProcess
  Keys = {k1, k2}
  NoKey = NoKey
  Bodies = {Created, b1}
  Created = Created
  MaxEvents = 3
CHECK_DEADLOCK FALSE
SYMMETRY ProcessSymmetry
INVARIANTS
  HeadFollowsStream
  AnsweredIsDurable
PROPERTIES
  AppendsToWhatItRead
  ImplementsRunLog
