\* FreeRDP, with two shapes asked for.
CONSTANTS
  Parts = {"freerdp"}
  Callers = {c1}
  Encodings = {e1, e2}
  RingSize = 1
  QueueMax = 1
  PromptKinds = {"passwd", "security", "message"}
  MaxCalls = 2
  MaxPrompts = 2
  MaxBoth = 2
  Sessions = {i1, i2}
  Watched = i2
  None = None
SPECIFICATION Spec
INVARIANT LatestShapeSent
CHECK_DEADLOCK FALSE
