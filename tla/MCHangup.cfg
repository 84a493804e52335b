SPECIFICATION MCSpec
CONSTANTS
  NoThread = NoThread
  Sockets = {s1, s2}
  Closers = {c1, c2}
  GateThreads = {t1, t2, t3}
  MaxDepth = 2
  Protocol = Protocol
  WriterThread = WriterThread
  Pieces = 2
  Messages = 1
  Room = 1
INVARIANTS
  IInv
  NeverSlips
  BrokenIsClosed
  FreedAlone
  StreamIsWhole
PROPERTIES
  NoneHeldAfterSweep
  EndsArrive
  AllArrives
