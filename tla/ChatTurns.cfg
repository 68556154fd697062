SPECIFICATION FairSpec
CONSTANTS
  Fields = {"objective", "channels", "token_budget"}
  s1 = s1
  s2 = s2
  Sockets = {s1, s2}
  Messages <- ChatMessages
  MaxMessages = 3
  MaxFaults = 1
INVARIANTS
  TypeOK
  SerialUnlessExpired
  OneCampaign
  CampaignsAreKnown
  CacheAgrees
  NoEditIsLost
  ConfirmedAsShown
PROPERTIES
  LockIsFreed
CHECK_DEADLOCK FALSE
