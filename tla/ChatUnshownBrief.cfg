SPECIFICATION Spec
CONSTANTS
  Fields = {"objective", "channels", "token_budget"}
  s1 = s1
  Sockets = {s1}
  Messages <- ChatMessages
  MaxMessages = 3
  MaxFaults = 0
INVARIANT PlaysBackFirst
CHECK_DEADLOCK FALSE
