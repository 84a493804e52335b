SPECIFICATION MCSpec
CONSTANTS
  Protocol = Protocol
  Main = Main
  Helpers = {Helper}
  NoThread = NoThread
  MaxPuts = 3
  MaxChanges = 2
  MaxSizes = 2
  MaxMarks = 2
  MaxModes = 2
  MaxSounds = 1
  Width = 3
  Height = 3
  Limit = 3
INVARIANTS
  IInv
  NothingStranded
  OutletSettles
  WindowCatchesUp
  DamageIsDrawn
  DamageIsExact
PROPERTIES
  InOrder
  AllIsHeard
CHECK_DEADLOCK FALSE
