SPECIFICATION MCSpec
CONSTANTS
  NoAnswer = NoAnswer
  MaxQuestions = 2
  PlainQuestions = 2
  PlainAsks = {"trust", "credentials"}
  Asks = {"trust", "withdrawable"}
  Clients = {p1, p2}
  MaxChanges = 2
  NoPin = NoPin
  ChecksFlag = TRUE
INVARIANT AnswersOwnQuestion
