SPECIFICATION EntranceSpec
CONSTANTS
  MaxMessages = 3
  MaxPackets = 2
  Clients = {a, b, c, d}
  Exempt = {a}
  Elder = c
  Younger = d
  MaxPlayers = 1
  SkipWait = {TRUE, FALSE}
  Upgrades = {b}
  Protocols = {p1, p2, p3}
  MaxObjects = 3
  Nobody = Nobody
  ReplaceKick = {TRUE, FALSE}
  Kicks = TRUE
  Games = {g1, g2}
  NoGame = NoGame
  MaxAttempts = 2
  MaxAsleep = 1
INVARIANTS
  WireInOrder
  ReleasedLast
  Guarded
  PromiseKept
  OneDriver
  RefsCountHolders
PROPERTIES
  DeliversBeforeHangUp
  ClosedHangsUp
  RoomForThoseAhead
  NobodyOvertakes
  PatientGetsIn
  AbandonedLeaves
  LostComesBack
CHECK_DEADLOCK FALSE
