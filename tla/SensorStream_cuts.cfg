SPECIFICATION Spec
CONSTANTS
  Headers = {"MT_A", "XX_B"}
  Fields = {"1.5"}
  Empty = ""
  Known = {"MT_A"}
  MaxTokens = 6
INVARIANT NewestWaits
PROPERTY RecordsDelivered
CHECK_DEADLOCK FALSE
