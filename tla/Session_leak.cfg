SPECIFICATION SessionSpec
CONSTANTS
  Protocols = {p1, p2}
  MaxObjects = 2
  Nobody = Nobody
  ReplaceKick = {TRUE}
  Kicks = TRUE
INVARIANTS
  NoPlayerLeak
CHECK_DEADLOCK FALSE
