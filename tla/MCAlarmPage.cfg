\* The page that holds the copy has an owner who uses it.
SPECIFICATION Spec
CONSTANTS
  Frame = {1, 2}
  Val <- Values
  MaxAlarm = 2
  MaxTicks = 3
  MaxNest = 2
  Allowed = {"page_used"}
PROPERTY Restored
