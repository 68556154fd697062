SPECIFICATION Spec
CONSTANTS
  c1 = c1
  c2 = c2
  Calls = {c1, c2}
  MaxFailures = 1
  MaxSteps = 5
  Parts <- EachAlone
  FirstPage = 1
  OlderPage = 2
SYMMETRY MCSymmetry
INVARIANTS
  TypeOK
  AccountedOnce
  BannerIsRight
  ReplayIsContiguous
CHECK_DEADLOCK FALSE
