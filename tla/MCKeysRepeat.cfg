SPECIFICATION MCSpec
CONSTANTS
  Parts = {"keys"}
  NumFds = 2
  SeqModulus = 8
  MaxFiles = 3
  MaxMoves = 4
  Devices = {1, 2}
  Grace = 1
  Latencies = {0, 2}
  Gains = {1, 2}
  MaxCalls = 5
  Shift = Shift
  k1 = k1
  k2 = k2
  Letters = {k1}
  Setups <- RfbSetups
  Ring = 3
INVARIANT
  NothingStuck
CHECK_DEADLOCK FALSE
