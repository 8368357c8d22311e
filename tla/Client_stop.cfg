SPECIFICATION ClientSpec
CONSTANTS
  Games = {g1, g2, g3}
  NoGame = NoGame
  MaxAttempts = 2
  MaxAsleep = 1
INVARIANT StoppedStaysOut
