SPECIFICATION SessionSpec
CONSTANTS
  session = session
  hermes = hermes
  NoOwner = NoOwner
  h1 = h1
  h2 = h2
  Tasks = {session}
  Required = {session}
  Owners = {hermes}
  Deps <- NoDeps
  Conflicts = {}
  RetryLimit <- Retries
  Estimate <- WholeLimit
  Policy = "block_descendants"
  HardLimit = 20
  LeaseTTL = 3
  AttemptCeiling = 8
  MaxConcurrency = 2
  Hooks = {h1, h2}
  MinBeat = 2
  MaxBeats = 9
  Usage = 1
CHECK_DEADLOCK FALSE
SYMMETRY HookSymmetry
INVARIANT LongSessionIsRecorded
