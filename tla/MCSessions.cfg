\* One thread that calls in beside the session's own; a ring and a queue of one, so
\* that both are found full; RealVNC with one session behind another at the gate.
CONSTANTS
  Parts = {"libvnc", "tigervnc", "freerdp", "realvnc"}
  Callers = {c1}
  Encodings = {e1, e2}
  RingSize = 1
  QueueMax = 1
  PromptKinds = {"passwd", "security", "message"}
  MaxCalls = 2
  MaxPrompts = 2
  MaxBoth = 2
  Sessions = {i1, i2}
  Watched = i2
  None = None
SPECIFICATION Spec
INVARIANTS RestsWhenIdle PublishedIsLive LatestShapeKept CoreInOrder
PROPERTIES SessionsImplement
\* A session that was freed takes no further step.
CHECK_DEADLOCK FALSE
