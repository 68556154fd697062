SPECIFICATION FairSpec
CONSTANTS
  c1 = c1
  c2 = c2
  w1 = w1
  w2 = w2
  d1 = d1
  d2 = d2
  Campaigns = {c1, c2}
  Workers = {w1, w2}
  Decisions = {d1, d2}
  CampaignOf <- BothOnOne
  MaxFaults = 1
  MaxReruns = 1
INVARIANTS
  TypeOK
  OrphanedOnlyByFault
  WaitingIsAtTheGate
PROPERTIES
  ImplementsTaskQueue
  EveryCampaignSettles
CHECK_DEADLOCK FALSE
