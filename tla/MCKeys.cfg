SPECIFICATION MCSpec
CONSTANTS
  Parts = {"keys", "looper", "sound"}
  NumFds = 2
  SeqModulus = 8
  MaxFiles = 3
  MaxMoves = 3
  Devices = {1, 2}
  Grace = 1
  Latencies = {0, 2}
  Gains = {1, 2}
  MaxCalls = 4
  Shift = Shift
  k1 = k1
  k2 = k2
  Letters = {k1, k2}
  Setups <- SoundSetups
  Ring = 3
INVARIANTS
  NothingStuck
  HeldIsDown
  LooperInOrder
PROPERTIES
  SoundInOrder
  ViewOnlyIsSilent
  AllIsAttended
CHECK_DEADLOCK FALSE
