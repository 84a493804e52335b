SPECIFICATION MCSpec
CONSTANTS
  NoAnswer = NoAnswer
  MaxQuestions = 2
  PlainQuestions = 2
  PlainAsks = {"trust", "credentials"}
  Asks = {"trust", "credentials"}
  Clients = {p1, p2}
  MaxChanges = 2
  NoPin = NoPin
  ChecksFlag = FALSE
INVARIANT DisconnectIsSilent
