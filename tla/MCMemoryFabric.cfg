SPECIFICATION FairSpec
CONSTANTS
  r1 = r1
  l1 = l1
  l2 = l2
  Runs = {r1}
  Keys = {k1, k2}
  Lessons = {l1, l2}
  Refs <- MCRefs
  Ids <- MCIds
  NoteIds = {n1, n2}
  Else = Else
  Bad = Bad
  Nobody = Nobody
  MaxNotes = 2
  MaxEdits = 1
  MaxEvents = 3
  MaxDeaths = 1
CHECK_DEADLOCK FALSE
INVARIANTS
  ReceiptsAreEarned
  PromotedOnceAndOnRecord
PROPERTIES
  ReadersSeeTheStore
  IntentsAreSettled
