SPECIFICATION Spec
CONSTANTS
  t1 = t1
  j1 = j1
  Tasks = {t1}
  English = {}
  Judges = {j1}
  MaxRetries = 0
  MaxReviewRounds = 1
  MaxLoops = 2
  MaxGenerations = 2
INVARIANTS
  RejectedIsSkipped
CHECK_DEADLOCK FALSE
