SPECIFICATION Spec
CONSTANTS
  t1 = t1
  t2 = t2
  j1 = j1
  Tasks = {t1, t2}
  English = {t1}
  Judges = {j1}
  MaxRetries = 1
  MaxReviewRounds = 1
  MaxLoops = 2
  MaxGenerations = 2
INVARIANTS
  TypeOK
  SingleRetryLoop
  EveryVariantIsRouted
  ShownIsComplete
  NoEmptyMail
CHECK_DEADLOCK FALSE
PROPERTIES
  ImplementsGraphRun
