SPECIFICATION MCSpec
\* RFB with one resize; of the sessions, one call beside destroy and the answers, and of
\* RealVNC's two, one call and one prompt, of one kind.
CONSTANTS
  MaxSize = 2
  MaxResizes = 1
  MaxBehind = 2
  Parts = {"libvnc", "tigervnc", "freerdp", "realvnc"}
  Callers = {c1}
  Encodings = {e1, e2}
  RingSize = 1
  QueueMax = 1
  PromptKinds = {"message"}
  MaxCalls = 1
  MaxPrompts = 1
  MaxBoth = 2
  Sessions = {i1, i2}
  Watched = i2
  None = None
INVARIANTS
  RfbIInv
  NeverStuck
  RequestCovers
PROPERTIES
  Repaints
  Pauses
  EndsPromptly
\* A session that was freed takes no further step.
CHECK_DEADLOCK FALSE
