\* RealVNC, with one of the two sessions ended.
CONSTANTS
  Parts = {"realvnc"}
  Callers = {c1}
  Encodings = {e1, e2}
  RingSize = 1
  QueueMax = 1
  PromptKinds = {"passwd", "security", "message"}
  MaxCalls = 1
  MaxPrompts = 1
  MaxBoth = 1
  Sessions = {i1, i2}
  Watched = i2
  None = None
SPECIFICATION Spec
INVARIANT OneConnecting
CHECK_DEADLOCK FALSE
