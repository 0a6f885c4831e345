SPECIFICATION Spec
CONSTANTS
  Tasks <- MCTasks
  Weight <- MCWeight
CHECK_DEADLOCK FALSE
INVARIANTS
  TakesExactlyDags
  CriticalIsHeaviestWay
  WorklistsAgree
PROPERTY
  LoopsEnd
