SPECIFICATION Spec
CONSTANTS
  Fields = {"objective", "channels", "token_budget"}
  s1 = s1
  s2 = s2
  Sockets = {s1, s2}
  Messages <- ChatMessages
  MaxMessages = 3
  MaxFaults = 0
INVARIANT OneCampaignPerConversation
CHECK_DEADLOCK FALSE
