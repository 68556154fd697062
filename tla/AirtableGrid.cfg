SPECIFICATION FairSpec
CONSTANTS
  r1 = r1
  r2 = r2
  c1 = c1
  c2 = c2
  Reviews = {r1, r2}
  AppDecisions = {"edited"}
  GridEdits <- MCGridEdits
  Calls = {c1, c2}
  PageSize = 2
  MaxEdits = 2
  MaxFailures = 1
INVARIANTS
  TypeOK
  SyncedIsDecided
  GridShowsDecision
PROPERTY
  GridDecisionsArrive
CHECK_DEADLOCK FALSE
